----------------------- MODULE EdgeTamTracker_proofs -----------------------
(***************************************************************************)
(* Theorems about EdgeTamTracker, for any number of frames, service calls  *)
(* and retained contexts.                                                  *)
(***************************************************************************)
EXTENDS EdgeTamTracker, FiniteSetTheorems, WellFoundedInduction, TLAPS

-----------------------------------------------------------------------------
(***************************************************************************)
(* The report follows the switch and the model.                            *)
(***************************************************************************)
\* The phases in which the worker holds a result, or the refusal of a job.
Using == {"polled", "judging", "learning", "reporting", "correcting", "remembering",
          "failing"}

\* Nothing is loaded twice, and a worker that judges results has a model.
ModelInv ==
    /\ enabled \in BOOLEAN
    /\ edge \in BOOLEAN
    /\ loader = "loading" => ~edge
    /\ worker.at \in Using => edge

LEMMA ModelInit == Init => ModelInv
<1> SUFFICES ASSUME Init PROVE ModelInv
  OBVIOUS
<1>1. enabled \in BOOLEAN /\ edge \in BOOLEAN
  BY DEF Init
<1>2. loader = "loading" => ~edge
  BY DEF Init
<1>3. worker.at \in Using => edge
  BY DEF Init, Idle, Using
<1>4. QED BY <1>1, <1>2, <1>3 DEF ModelInv

LEMMA ServiceModel == ModelInv /\ ServiceStep => ModelInv'
<1> SUFFICES ASSUME ModelInv, ServiceStep PROVE ModelInv'
  OBVIOUS
<1> USE DEF ModelInv, Using, switchVars
<1>1. CASE SetDisabled BY <1>1 DEF SetDisabled
<1>2. CASE SetEnabled BY <1>2 DEF SetEnabled
<1>3. CASE CheckStale BY <1>3 DEF CheckStale
<1>4. CASE CallInvalidate BY <1>4 DEF CallInvalidate
<1>5. CASE CallEnsure BY <1>5 DEF CallEnsure
<1>6. QED BY <1>1, <1>2, <1>3, <1>4, <1>5 DEF ServiceStep

LEMMA LoaderModel == ModelInv /\ LoaderStep => ModelInv'
  BY DEF ModelInv, LoaderStep, LoadEdgetam, LoadFails, LoaderEnds, Using, switchVars

LEMMA InferenceModel == ModelInv /\ InferenceStep => ModelInv'
  BY DEF ModelInv, InferenceStep, StartJob, FinishJob, Using, switchVars

LEMMA ResultModel == ModelInv /\ ResultStep => ModelInv'
<1> SUFFICES ASSUME ModelInv, ResultStep PROVE ModelInv'
  OBVIOUS
<1> USE DEF ModelInv, Using, Then, Idle, switchVars
<1>1. CASE PollAgain BY <1>1 DEF PollAgain, ReadResult
<1>2. CASE TakeResult BY <1>2 DEF TakeResult
<1>3. CASE JudgeResult BY <1>3 DEF JudgeResult
<1>4. CASE UpdateMemory BY <1>4 DEF UpdateMemory
<1>5. CASE ReportStatus BY <1>5 DEF ReportStatus
<1>6. CASE TryPublishRefined BY <1>6 DEF TryPublishRefined
<1>7. CASE RememberMasks BY <1>7 DEF RememberMasks
<1>8. CASE RejectResult BY <1>8 DEF RejectResult
<1>9. CASE ReportError BY <1>9 DEF ReportError
<1>10. QED
  BY <1>1, <1>2, <1>3, <1>4, <1>5, <1>6, <1>7, <1>8, <1>9 DEF ResultStep

LEMMA GeometryModel == ModelInv /\ GeometryStep => ModelInv'
<1> SUFFICES ASSUME ModelInv, GeometryStep PROVE ModelInv'
  OBVIOUS
<1> USE DEF ModelInv, Using, Then, Idle, switchVars
<1>1. CASE Work BY <1>1 DEF Work, ReadResult
<1>2. CASE ReceiveBundle BY <1>2 DEF ReceiveBundle, Accepted
<1>3. CASE ResetClock BY <1>3 DEF ResetClock
<1>4. CASE ResetEpoch BY <1>4 DEF ResetEpoch, Accepted
<1>5. CASE CheckGap
  <2>1. CASE worker' = Idle
    BY <1>5, <2>1 DEF CheckGap
  <2>2. CASE gap /\ worker' = [worker EXCEPT !.at = "resuming"]
    BY <1>5, <2>2 DEF CheckGap
  <2>3. CASE ~gap /\ worker' = [worker EXCEPT !.at = "tracking"]
    BY <1>5, <2>3 DEF CheckGap
  <2>4. QED BY <1>5, <2>1, <2>2, <2>3 DEF CheckGap
<1>6. CASE Resume BY <1>6 DEF Resume
<1>7. CASE HoldOutput BY <1>7 DEF HoldOutput
<1>8. CASE PublishGeometry BY <1>8 DEF PublishGeometry
<1>9. CASE Submit BY <1>9 DEF Submit
<1>10. CASE Predict BY <1>10 DEF Predict
<1>11. CASE EnterGap BY <1>11 DEF EnterGap
<1>12. CASE PublishPrediction BY <1>12 DEF PublishPrediction
<1>13. QED
  BY <1>1, <1>2, <1>3, <1>4, <1>5, <1>6, <1>7, <1>8, <1>9, <1>10, <1>11, <1>12
  DEF GeometryStep

LEMMA ModelStep == ModelInv /\ [Next]_vars => ModelInv'
<1>1. ModelInv /\ UNCHANGED vars => ModelInv'
  BY DEF ModelInv, vars, switchVars
<1>2. QED
  BY <1>1, ServiceModel, LoaderModel, InferenceModel, ResultModel, GeometryModel DEF Next

\* Only the service, the loader and the worker's verdicts touch the switch, and
\* each of them does a step of the abstract switch.
LEMMA StepIsSwitchStep ==
    ASSUME ModelInv, [Next]_vars
    PROVE  [Switch!Next]_(Switch!switchVars)
<1> USE DEF ModelInv, Switch!switchVars, switchVars
<1>1. CASE ServiceStep
  <2>1. CASE SetDisabled
    BY <2>1 DEF SetDisabled, Switch!Next, Switch!Disable
  <2>2. CASE SetEnabled
    BY <2>2 DEF SetEnabled, Switch!Next, Switch!Enable, Switch!Reported
  <2>3. CASE CheckStale \/ CallInvalidate
    BY <2>3 DEF CheckStale, CallInvalidate
  <2>4. CASE CallEnsure
    BY <2>4 DEF CallEnsure, Switch!Next, Switch!Enable, Switch!Reported
  <2>5. QED BY <1>1, <2>1, <2>2, <2>3, <2>4 DEF ServiceStep
<1>2. CASE LoaderStep
  BY <1>2 DEF LoaderStep, LoadEdgetam, LoadFails, LoaderEnds, Switch!Next, Switch!Load,
              Switch!LoadFails
<1>3. CASE InferenceStep
  BY <1>3 DEF InferenceStep, StartJob, FinishJob
<1>4. CASE ResultStep
  <2>1. CASE ReportStatus
    BY <2>1 DEF ReportStatus, Using, Switch!Next, Switch!Judge
  <2>2. CASE ReportError
    BY <2>2 DEF ReportError, Using, Switch!Next, Switch!Judge
  <2>3. CASE ~(ReportStatus \/ ReportError)
    BY <1>4, <2>3 DEF ResultStep, PollAgain, TakeResult, JudgeResult, UpdateMemory,
                      TryPublishRefined, RememberMasks, RejectResult
  <2>4. QED BY <2>1, <2>2, <2>3
<1>5. CASE GeometryStep
  BY <1>5 DEF GeometryStep, Work, ReceiveBundle, ResetClock, ResetEpoch, CheckGap, Resume,
              HoldOutput, PublishGeometry, Submit, Predict, EnterGap, PublishPrediction
<1>6. CASE UNCHANGED vars
  BY <1>6 DEF vars
<1>7. QED BY <1>1, <1>2, <1>3, <1>4, <1>5, <1>6 DEF Next

\* Whatever its threads do, the node's switch, model and reported status change as
\* EdgeTamSwitch allows: what is shown of EdgeTamControl with that switch holds with
\* this node.
THEOREM TrackerImplementsSwitch == Spec => ImplementsSwitch
<1>1. Init => Switch!Init
  BY DEF Init, Switch!Init, Switch!Reported
<1>2. QED
  BY <1>1, ModelInit, ModelStep, StepIsSwitchStep, PTL
  DEF Spec, ImplementsSwitch, Switch!Spec

-----------------------------------------------------------------------------
(***************************************************************************)
(* What an invalidation leaves behind.                                     *)
(***************************************************************************)
\* A job is never of a later stream than the wrapper's; without a model there are
\* no jobs.
JobsInv ==
    /\ generation \in Nat /\ sequence \in Nat /\ stream \in Nat
    /\ job \in Jobs \union {None} /\ running \in Jobs \union {None}
    /\ job # None => job.stream <= stream
    /\ running # None => running.stream <= stream
    /\ edge = FALSE => job = None /\ running = None /\ result = None

Empty ==
    /\ contexts = <<>> /\ latest_masks = None /\ previous_masks = None
    /\ job = None /\ result = None

\* DisabledHoldsNothing needs one thing more: a job in inference is of an earlier
\* stream, so that its result will not be shown either.
Quiet ==
    enabled = FALSE /\ "invalidate" \notin call =>
        Empty /\ (running # None => running.stream # stream)

HoldInv == ModelInv /\ JobsInv /\ MasksAreCurrent /\ Quiet

heldVars == <<enabled, edge, generation, contexts, latest_masks, previous_masks,
              sequence, stream, job, running, result>>

LEMMA Undisturbed ==
    ASSUME JobsInv, MasksAreCurrent, Quiet, UNCHANGED <<heldVars, call>>
    PROVE  JobsInv' /\ MasksAreCurrent' /\ Quiet'
  BY DEF JobsInv, MasksAreCurrent, Quiet, Empty, heldVars

\* An invalidation empties the node, enabled or not.
LEMMA InvalidateEmpties ==
    ASSUME JobsInv, edge \in BOOLEAN, Invalidate, UNCHANGED <<enabled, edge>>
    PROVE  JobsInv' /\ MasksAreCurrent' /\ Quiet'
<1>1. CASE edge = TRUE
  <2>1. JobsInv' /\ stream' = stream + 1 /\ Empty' /\ running' = running
    BY <1>1 DEF JobsInv, Invalidate, ResetStream, Empty, Jobs
  <2>2. running' # None => running'.stream # stream'
    BY <2>1 DEF JobsInv, Jobs
  <2>3. MasksAreCurrent'
    BY <2>1 DEF MasksAreCurrent, Empty
  <2>4. QED BY <2>1, <2>2, <2>3 DEF Quiet
<1>2. CASE edge = FALSE
  <2>1. JobsInv' /\ Empty' /\ running' = None
    BY <1>2 DEF JobsInv, Invalidate, wrapperVars, Empty
  <2>2. QED BY <2>1 DEF MasksAreCurrent, Empty, Quiet
<1>3. QED BY <1>1, <1>2

LEMMA HoldInit == Init => HoldInv
<1> SUFFICES ASSUME Init PROVE JobsInv /\ MasksAreCurrent /\ Quiet
  BY ModelInit DEF HoldInv
<1>1. JobsInv
  BY DEF Init, JobsInv
<1>2. MasksAreCurrent
  BY DEF Init, MasksAreCurrent
<1>3. Quiet
  BY DEF Init, Quiet, Empty
<1>4. QED BY <1>1, <1>2, <1>3

LEMMA ServiceHolds ==
    ASSUME HoldInv, ServiceStep
    PROVE  JobsInv' /\ MasksAreCurrent' /\ Quiet'
<1> USE DEF switchVars, contextVars, wrapperVars, heldVars
<1>1. CASE SetDisabled
  BY <1>1 DEF SetDisabled, HoldInv, JobsInv, MasksAreCurrent, Quiet
<1>2. CASE SetEnabled
  BY <1>2 DEF SetEnabled, HoldInv, JobsInv, MasksAreCurrent, Quiet
<1>3. CASE CheckStale
  BY <1>3 DEF CheckStale, HoldInv, JobsInv, MasksAreCurrent, Quiet
<1>4. CASE CallInvalidate
  BY <1>4, InvalidateEmpties DEF CallInvalidate, HoldInv, ModelInv
<1>5. CASE CallEnsure
  <2>1. UNCHANGED heldVars /\ "invalidate" \notin call
    BY <1>5 DEF CallEnsure
  <2>2. QED BY <2>1 DEF HoldInv, JobsInv, MasksAreCurrent, Quiet, Empty
<1>6. QED BY <1>1, <1>2, <1>3, <1>4, <1>5 DEF ServiceStep

LEMMA LoaderHolds ==
    ASSUME HoldInv, LoaderStep
    PROVE  JobsInv' /\ MasksAreCurrent' /\ Quiet'
  BY DEF LoaderStep, LoadEdgetam, LoadFails, LoaderEnds, HoldInv, JobsInv,
         MasksAreCurrent, Quiet, Empty, switchVars, contextVars, wrapperVars

LEMMA InferenceHolds ==
    ASSUME HoldInv, InferenceStep
    PROVE  JobsInv' /\ MasksAreCurrent' /\ Quiet'
<1> USE DEF HoldInv, ModelInv, switchVars, contextVars
<1>1. CASE StartJob
  BY <1>1 DEF StartJob, JobsInv, MasksAreCurrent, Quiet, Empty
<1>2. CASE FinishJob
  <2>1. JobsInv' /\ MasksAreCurrent'
    BY <1>2 DEF FinishJob, JobsInv, MasksAreCurrent
  <2>2. Quiet'
    BY <1>2 DEF FinishJob, Quiet, Empty
  <2>3. QED BY <2>1, <2>2
<1>3. QED BY <1>1, <1>2 DEF InferenceStep

LEMMA ResultHolds ==
    ASSUME HoldInv, ResultStep
    PROVE  JobsInv' /\ MasksAreCurrent' /\ Quiet'
<1> USE DEF HoldInv, switchVars, contextVars, wrapperVars, heldVars
<1>1. CASE TakeResult
  BY <1>1 DEF TakeResult, ModelInv, JobsInv, MasksAreCurrent, Quiet, Empty
<1>2. CASE UpdateMemory
  BY <1>2 DEF UpdateMemory, Current, ModelInv, JobsInv, MasksAreCurrent, Quiet, Empty
<1>3. CASE RememberMasks
  BY <1>3 DEF RememberMasks, Current, ModelInv, JobsInv, MasksAreCurrent, Quiet, Empty
<1>4. CASE ~(TakeResult \/ UpdateMemory \/ RememberMasks)
  <2>1. UNCHANGED <<heldVars, call>>
    BY <1>4 DEF ResultStep, PollAgain, JudgeResult, ReportStatus, TryPublishRefined,
                RejectResult, ReportError
  <2>2. QED BY <2>1, Undisturbed
<1>5. QED BY <1>1, <1>2, <1>3, <1>4

LEMMA GeometryHolds ==
    ASSUME HoldInv, GeometryStep
    PROVE  JobsInv' /\ MasksAreCurrent' /\ Quiet'
<1> USE DEF HoldInv, switchVars, contextVars, wrapperVars, heldVars
<1>1. CASE Submit
  <2>1. CASE UNCHANGED <<contexts, sequence, job>>
    BY <1>1, <2>1, Undisturbed DEF Submit
  <2>2. CASE sequence' = sequence + 1
    <3>1. job' \in Jobs /\ job'.stream = stream
      BY <1>1, <2>2 DEF Submit, JobsInv, Jobs
    <3>2. QED
      BY <1>1, <2>2, <3>1 DEF Submit, ModelInv, JobsInv, MasksAreCurrent, Quiet
  <2>3. QED BY <1>1, <2>1, <2>2 DEF Submit
<1>2. CASE ResetClock \/ Resume \/ EnterGap
  BY <1>2, InvalidateEmpties DEF ResetClock, Resume, EnterGap, ModelInv
<1>3. CASE HoldOutput
  <2>1. CASE held
    BY <1>3, <2>1, Undisturbed DEF HoldOutput
  <2>2. CASE ~held
    BY <1>3, <2>2, InvalidateEmpties DEF HoldOutput, ModelInv
  <2>3. QED BY <2>1, <2>2
<1>4. CASE ~(Submit \/ ResetClock \/ Resume \/ EnterGap \/ HoldOutput)
  <2>1. UNCHANGED <<heldVars, call>>
    BY <1>4 DEF GeometryStep, Work, ReceiveBundle, ResetEpoch, CheckGap, PublishGeometry,
                Predict, PublishPrediction
  <2>2. QED BY <2>1, Undisturbed
<1>5. QED BY <1>1, <1>2, <1>3, <1>4

LEMMA HoldStep == HoldInv /\ [Next]_vars => HoldInv'
<1> SUFFICES ASSUME HoldInv, [Next]_vars PROVE JobsInv' /\ MasksAreCurrent' /\ Quiet'
  BY ModelStep DEF HoldInv
<1>1. CASE UNCHANGED vars
  BY <1>1, Undisturbed DEF HoldInv, vars, heldVars, switchVars, contextVars, wrapperVars
<1>2. CASE Next
  BY <1>2, ServiceHolds, LoaderHolds, InferenceHolds, ResultHolds, GeometryHolds DEF Next
<1>3. QED BY <1>1, <1>2

LEMMA HoldAlways == Spec => []HoldInv
  BY HoldInit, HoldStep, PTL DEF Spec

\* Masks that are shown or compared with belong to the present generation, however
\* results, resets and switches overlap.
THEOREM MasksStayCurrent == Spec => []MasksAreCurrent
<1>1. HoldInv => MasksAreCurrent
  BY DEF HoldInv
<1>2. QED BY <1>1, HoldAlways, PTL

\* A disabled node stays empty, whatever was in inference when it was disabled.
THEOREM DisabledStaysEmpty == Spec => []DisabledHoldsNothing
<1>1. HoldInv => DisabledHoldsNothing
  BY DEF HoldInv, ModelInv, Quiet, Empty, DisabledHoldsNothing
<1>2. QED BY <1>1, HoldAlways, PTL

-----------------------------------------------------------------------------
(***************************************************************************)
(* The newest of a set of sequence numbers.                                *)
(***************************************************************************)
\* Every nonempty set of natural numbers has a least element.
LEMMA NatMinimum ==
    ASSUME NEW T \in SUBSET Nat, T # {}
    PROVE  \E m \in T : \A t \in T : m <= t
<1> DEFINE R == OpToRel(<, Nat)
<1>1. IsWellFoundedOn(R, Nat)
  BY NatLessThanWellFounded
<1>2. PICK m \in T : \A t \in T : ~(<<t, m>> \in R)
  <2> HIDE DEF R
  <2> QED BY <1>1, WFMin
<1>3. \A t \in T : ~(t < m)
  BY <1>2 DEF OpToRel
<1>4. QED BY <1>3

\* Newest keeps at most ContextLimit numbers: those above its least one are
\* fewer than that.
LEMMA NewestIsBounded ==
    ASSUME NEW S \in SUBSET Nat, IsFiniteSet(S)
    PROVE  /\ Newest(S) \subseteq S
           /\ Cardinality(Newest(S)) <= ContextLimit
<1>1. Newest(S) \subseteq S
  BY DEF Newest
<1>2. CASE Newest(S) = {}
  BY <1>1, <1>2, FS_EmptySet, BoundsAssumption
<1>3. CASE Newest(S) # {}
  <2>1. PICK m \in Newest(S) : \A t \in Newest(S) : m <= t
    BY <1>1, <1>3, NatMinimum
  <2> DEFINE above == {t \in S : t > m}
  <2>2. IsFiniteSet(above) /\ Cardinality(above) \in Nat
    <3>1. above \in SUBSET S
      OBVIOUS
    <3> HIDE DEF above
    <3>2. QED BY <3>1, FS_Subset, FS_CardinalityType
  <2>3. Cardinality(above) < ContextLimit
    BY <2>1 DEF Newest
  <2>4. /\ IsFiniteSet(above \union {m})
        /\ Cardinality(above \union {m}) = Cardinality(above) + 1
    <3>1. m \in Nat /\ m \notin above
      <4>1. m \in Nat
        BY <1>1, <2>1
      <4>2. QED BY <4>1
    <3> HIDE DEF above
    <3>2. QED BY <2>2, <3>1, FS_AddElement
  <2>5. ASSUME NEW t \in Newest(S) PROVE t \in above \union {m}
    <3>1. t \in Nat /\ m \in Nat /\ t \in S /\ m <= t
      BY <1>1, <2>1
    <3>2. QED BY <3>1
  <2>6. Cardinality(Newest(S)) <= Cardinality(above \union {m}) /\ Cardinality(Newest(S)) \in Nat
    <3> HIDE DEF above
    <3>1. QED BY <2>4, <2>5, FS_Subset, FS_CardinalityType
  <2> HIDE DEF above
  <2>7. QED BY <1>1, <2>2, <2>3, <2>4, <2>6, BoundsAssumption
<1>4. QED BY <1>2, <1>3

\* What Newest drops from numbers up to n is at least ContextLimit behind n.
LEMMA NewestKeeps ==
    ASSUME NEW n \in Nat, NEW S \in SUBSET (1..n), NEW s \in S
    PROVE  s \in Newest(S) \/ n - s >= ContextLimit
<1> DEFINE above == {t \in S : t > s}
<1>1. above \subseteq (s + 1)..n /\ s \in 1..n
  <2>1. s \in 1..n /\ S \subseteq 1..n
    OBVIOUS
  <2>2. \A t \in 1..n : t > s => t \in (s + 1)..n
    BY <2>1
  <2>3. QED BY <2>1, <2>2
<1>2. /\ IsFiniteSet((s + 1)..n)
      /\ Cardinality((s + 1)..n) = n - s
  BY <1>1, FS_Interval
<1>3. Cardinality(above) <= n - s /\ Cardinality(above) \in Nat
  <2> HIDE DEF above
  <2>1. QED BY <1>1, <1>2, FS_Subset, FS_CardinalityType
<1>4. s \notin Newest(S) => ~(Cardinality(above) < ContextLimit)
  BY DEF Newest
<1> HIDE DEF above
<1>5. QED BY <1>1, <1>3, <1>4, BoundsAssumption

-----------------------------------------------------------------------------
(***************************************************************************)
(* Types.  The program counter of the geometry worker carries different    *)
(* locals in different phases.                                             *)
(***************************************************************************)
Nexts == {"bundle", "predict", "submitted", "done"}
Resting == [at : {"idle", "bundle", "predict", "submitted"}]
Polled == [at : {"polled"}, next : Nexts, result : Nat]
Judging == [at : {"judging"}, next : Nexts, context : Contexts \union {None}]
Judged == [at : {"learning", "reporting", "correcting", "remembering"}, next : Nexts,
           context : Contexts, verdict : {"ready", "degraded"}]
Rejected == [at : {"reporting"}, next : Nexts, context : Contexts \union {None},
             verdict : {"missing", "stale", "failed"}]
Failing == [at : {"failing"}, next : Nexts]
Counted == {"clock_reset", "new_epoch", "entering_gap", "predicting"}
Stamped == [at : {"filtered", "resuming", "tracking"} \union Counted, stamp : Nat]
Submitting == [at : {"submitting"}, stamp : Nat, serial : Nat]

Worker == Resting \union Polled \union Judging \union Judged \union Rejected
              \union Failing \union Stamped \union Submitting

\* The phase tells which locals there are.
LEMMA WorkerShape ==
    ASSUME worker \in Worker
    PROVE  /\ worker.at = "polled" => worker \in Polled
           /\ worker.at = "judging" => worker \in Judging
           /\ worker.at \in {"learning", "correcting", "remembering"} => worker \in Judged
           /\ worker.at = "reporting" => worker \in Judged \union Rejected
           /\ worker.at = "failing" => worker \in Failing
           /\ worker.at \in {"filtered", "resuming", "tracking"} \union Counted
                  => worker \in Stamped
           /\ worker.at = "submitting" => worker \in Submitting
BY DEF Worker, Resting, Polled, Judging, Judged, Rejected, Failing, Counted, Stamped,
       Submitting

SwitchOK ==
    /\ enabled \in BOOLEAN /\ edge \in BOOLEAN
    /\ status \in {"disabled", "loading", "ready", "degraded", "error"}
    /\ loader \in {"loading", "ending", "dead"}
    /\ call \subseteq {"invalidate", "ensure"} /\ calls \in 0..MaxCalls

\* A worker about to count a frame has found room for it.
WorkerOK ==
    /\ worker \in Worker
    /\ gap \in BOOLEAN /\ held \in BOOLEAN
    /\ processed \in Nat /\ serial \in Nat /\ frame \in 0..MaxFrames
    /\ worker.at \in Counted => frame < MaxFrames

\* Sequence numbers in use are numbers given out.
ContextsOK ==
    /\ generation \in Nat /\ sequence \in Nat /\ stream \in Nat
    /\ last_sequence \in 0..sequence
    /\ DOMAIN contexts \subseteq 1..sequence
    /\ \A s \in DOMAIN contexts : contexts[s] \in Contexts
    /\ Cardinality(DOMAIN contexts) <= ContextLimit
    /\ job \in Jobs \union {None} /\ running \in Jobs \union {None}
    /\ job # None => job.sequence \in 1..sequence
    /\ running # None => running.sequence \in 1..sequence
    /\ result \in (1..sequence) \union {None}
    /\ worker.at = "polled" => worker.result \in 1..sequence

TypeInv == SwitchOK /\ WorkerOK /\ ContextsOK

\* The three groups are touched by different steps.
LEMMA SwitchOKStep == ASSUME SwitchOK, [Next]_vars PROVE SwitchOK'
<1> USE BoundsAssumption DEF SwitchOK, switchVars
<1>1. CASE SetDisabled
  <2>1. calls' \in 0..MaxCalls
    BY <1>1 DEF SetDisabled, Called
  <2>2. enabled' = FALSE /\ status' = "disabled" /\ call' = {"invalidate"}
    BY <1>1 DEF SetDisabled
  <2>3. QED BY <1>1, <2>1, <2>2 DEF SetDisabled
<1>2. CASE SetEnabled
  BY <1>2 DEF SetEnabled, Called
<1>3. CASE CheckStale
  BY <1>3 DEF CheckStale, Called
<1>4. CASE CallInvalidate
  BY <1>4 DEF CallInvalidate
<1>5. CASE CallEnsure
  BY <1>5 DEF CallEnsure
<1>6. CASE LoaderStep
  BY <1>6 DEF LoaderStep, LoadEdgetam, LoadFails, LoaderEnds
<1>7. CASE InferenceStep
  BY <1>7 DEF InferenceStep, StartJob, FinishJob
<1>8. CASE ReportStatus \/ ReportError
  BY <1>8 DEF ReportStatus, ReportError
<1>9. CASE \/ PollAgain \/ TakeResult \/ JudgeResult \/ UpdateMemory
           \/ TryPublishRefined \/ RememberMasks \/ RejectResult
  BY <1>9 DEF PollAgain, TakeResult, JudgeResult, UpdateMemory, TryPublishRefined,
              RememberMasks, RejectResult
<1>10. CASE GeometryStep
  BY <1>10 DEF GeometryStep, Work, ReceiveBundle, ResetClock, ResetEpoch, CheckGap, Resume,
               HoldOutput, PublishGeometry, Submit, Predict, EnterGap, PublishPrediction
<1>11. CASE UNCHANGED vars
  BY <1>11 DEF vars
<1>12. QED
  BY <1>1, <1>2, <1>3, <1>4, <1>5, <1>6, <1>7, <1>8, <1>9, <1>10, <1>11
  DEF Next, ServiceStep, ResultStep

LEMMA RestingStates == ASSUME NEW next \in Nexts PROVE Then(next) \in Resting
  BY DEF Then, Idle, Resting, Nexts

\* The steps in which the geometry worker judges and uses a result.
LEMMA ResultWorker ==
    ASSUME WorkerOK, ContextsOK, ResultStep
    PROVE  worker' \in Worker /\ worker'.at \notin Counted
<1> USE WorkerShape, RestingStates DEF WorkerOK
<1>1. \A next \in Nexts : Then(next) \in Worker /\ Then(next).at \notin Counted
  BY RestingStates DEF Worker, Resting, Counted
<1>2. CASE PollAgain
  <2>1. CASE worker' = [at |-> "polled", next |-> "done", result |-> result] /\ result # None
    <3>1. result \in Nat
      BY <2>1 DEF ContextsOK
    <3>2. worker' \in Polled
      BY <2>1, <3>1 DEF Polled, Nexts
    <3>3. QED BY <3>2 DEF Worker, Polled, Counted
  <2>2. CASE worker' = Then("done")
    BY <1>1, <2>2 DEF Nexts
  <2>3. QED BY <1>2, <2>1, <2>2 DEF PollAgain, ReadResult
<1>3. CASE TakeResult
  <2>1. worker \in Polled
    BY <1>3 DEF TakeResult
  <2>2. CASE worker' = Then(worker.next)
    BY <1>1, <2>1, <2>2 DEF Polled
  <2>3. CASE worker' = [at |-> "judging", next |-> worker.next,
                        context |-> IF worker.result \in DOMAIN contexts
                                    THEN contexts[worker.result] ELSE None]
    <3>1. worker' \in Judging
      BY <2>1, <2>3 DEF ContextsOK, Polled, Judging
    <3>2. QED BY <3>1 DEF Worker, Judging, Counted
  <2>4. QED BY <1>3, <2>2, <2>3 DEF TakeResult
<1>4. CASE JudgeResult
  <2>1. worker \in Judging
    BY <1>4 DEF JudgeResult
  <2>2. CASE worker' = Then(worker.next)
    BY <1>1, <2>1, <2>2 DEF Judging
  <2>3. ASSUME NEW verdict \in {"ready", "degraded"}, worker.context # None,
               worker' = [at |-> "learning", next |-> worker.next, context |-> worker.context,
                          verdict |-> verdict]
        PROVE  worker' \in Judged /\ worker'.at = "learning"
    BY <2>1, <2>3 DEF Judging, Judged
  <2>4. ASSUME NEW verdict \in {"missing", "stale", "failed"},
               worker' = [at |-> "reporting", next |-> worker.next, context |-> worker.context,
                          verdict |-> verdict]
        PROVE  worker' \in Rejected
    BY <2>1, <2>4 DEF Judging, Rejected
  <2>5. \/ worker' = Then(worker.next)
        \/ worker' \in Judged /\ worker'.at = "learning"
        \/ worker' \in Rejected
    BY <1>4, <2>3, <2>4 DEF JudgeResult, Verdicts
  <2>6. QED BY <2>2, <2>5 DEF Worker, Judged, Rejected, Counted
<1>5. CASE UpdateMemory
  <2>1. worker \in Judged /\ worker' = [worker EXCEPT !.at = "reporting"]
    BY <1>5 DEF UpdateMemory
  <2>2. worker' \in Judged
    BY <2>1 DEF Judged
  <2>3. QED BY <2>2 DEF Worker, Judged, Counted
<1>6. CASE ReportStatus
  <2>1. CASE worker \in Judged
    <3>1. worker' = [worker EXCEPT !.at = "correcting"]
      BY <1>6, <2>1 DEF ReportStatus, Judged
    <3>2. worker' \in Judged
      BY <2>1, <3>1 DEF Judged
    <3>3. QED BY <3>2 DEF Worker, Judged, Counted
  <2>2. CASE worker \in Rejected
    <3>1. worker' = Then(worker.next)
      BY <1>6, <2>2 DEF ReportStatus, Rejected
    <3>2. QED BY <1>1, <2>2, <3>1 DEF Rejected
  <2>3. QED BY <1>6, <2>1, <2>2 DEF ReportStatus
<1>7. CASE TryPublishRefined
  <2>1. worker \in Judged
    BY <1>7 DEF TryPublishRefined
  <2>2. CASE worker' = [worker EXCEPT !.at = "remembering"]
    <3>1. worker' \in Judged
      BY <2>1, <2>2 DEF Judged
    <3>2. QED BY <3>1 DEF Worker, Judged, Counted
  <2>3. CASE worker' = Then(worker.next)
    BY <1>1, <2>1, <2>3 DEF Judged
  <2>4. QED BY <1>7, <2>2, <2>3 DEF TryPublishRefined
<1>8. CASE RememberMasks
  <2>1. worker \in Judged /\ worker' = Then(worker.next)
    BY <1>8 DEF RememberMasks
  <2>2. QED BY <1>1, <2>1 DEF Judged
<1>9. CASE RejectResult
  <2>1. worker \in Judged /\ worker' = [at |-> "failing", next |-> worker.next]
    BY <1>9 DEF RejectResult
  <2>2. worker' \in Failing
    BY <2>1 DEF Judged, Failing
  <2>3. QED BY <2>2 DEF Worker, Failing, Counted
<1>10. CASE ReportError
  <2>1. worker \in Failing /\ worker' = Then(worker.next)
    BY <1>10 DEF ReportError
  <2>2. QED BY <1>1, <2>1 DEF Failing
<1>11. QED
  BY <1>2, <1>3, <1>4, <1>5, <1>6, <1>7, <1>8, <1>9, <1>10 DEF ResultStep

\* The steps in which the geometry worker handles a bundle or predicts.
LEMMA GeometryWorker ==
    ASSUME WorkerOK, ContextsOK, GeometryStep
    PROVE  WorkerOK'
<1> USE WorkerShape DEF WorkerOK, geometryVars, outputVars
<1>1. Idle \in Worker /\ Idle.at \notin Counted
  BY DEF Idle, Worker, Resting, Counted
<1>2. ASSUME NEW phase \in {"filtered", "resuming", "tracking"} \union Counted, NEW stamp \in Nat,
             worker' = [at |-> phase, stamp |-> stamp]
      PROVE  worker' \in Worker /\ worker'.at = phase
  <2>1. worker' \in Stamped
    BY <1>2 DEF Stamped
  <2>2. QED BY <1>2, <2>1 DEF Worker
<1>3. ASSUME NEW phase \in {"filtered", "resuming", "tracking"} \union Counted, worker \in Stamped,
             worker' = [worker EXCEPT !.at = phase]
      PROVE  worker' \in Worker /\ worker'.at = phase
  <2>1. worker' \in Stamped /\ worker'.at = phase
    BY <1>3 DEF Stamped
  <2>2. QED BY <1>3, <2>1 DEF Worker
<1>4. CASE Work
  <2>1. PICK next \in {"bundle", "predict"} : ReadResult(next)
    BY <1>4 DEF Work
  <2>2. CASE worker' = Then(next)
    <3>1. worker' \in Resting
      BY <2>1, <2>2, RestingStates DEF Nexts
    <3>2. worker' \in Worker /\ worker'.at \notin Counted
      BY <3>1 DEF Worker, Resting, Counted
    <3>3. QED BY <1>4, <3>2 DEF Work
  <2>3. CASE worker' = [at |-> "polled", next |-> next, result |-> result] /\ result # None
    <3>1. worker' \in Polled
      BY <2>1, <2>3 DEF Polled, Nexts, ContextsOK
    <3>2. worker' \in Worker /\ worker'.at \notin Counted
      BY <3>1 DEF Worker, Polled, Counted
    <3>3. QED BY <1>4, <3>2 DEF Work
  <2>4. QED BY <2>1, <2>2, <2>3 DEF ReadResult
<1>5. CASE ReceiveBundle
  <2>1. CASE worker' = Idle /\ UNCHANGED <<processed, frame>>
    BY <1>1, <1>5, <2>1 DEF ReceiveBundle
  <2>2. ASSUME NEW stamp \in 1..MaxStamp, frame < MaxFrames, Accepted(stamp)
        PROVE  WorkerOK'
    <3>1. worker' \in Worker /\ worker'.at = "filtered"
      BY <1>2, <2>2, BoundsAssumption DEF Accepted
    <3>2. processed' \in Nat /\ frame' \in 0..MaxFrames
      BY <2>2, BoundsAssumption DEF Accepted
    <3>3. QED BY <1>5, <3>1, <3>2 DEF ReceiveBundle, Counted
  <2>3. ASSUME NEW stamp \in 1..MaxStamp, frame < MaxFrames, UNCHANGED <<processed, frame>>,
               worker' = [at |-> "clock_reset", stamp |-> stamp]
        PROVE  WorkerOK'
    <3>1. worker' \in Worker
      BY <1>2, <2>3, BoundsAssumption DEF Counted
    <3>2. QED BY <1>5, <2>3, <3>1 DEF ReceiveBundle
  <2>4. QED BY <1>5, <2>1, <2>2, <2>3 DEF ReceiveBundle
<1>6. CASE ResetClock
  <2>1. worker' \in Worker /\ worker'.at = "new_epoch"
    BY <1>3, <1>6 DEF ResetClock, Counted
  <2>2. QED BY <1>6, <2>1 DEF ResetClock, Counted
<1>7. CASE ResetEpoch
  <2>1. worker.stamp \in Nat /\ frame < MaxFrames
    BY <1>7 DEF ResetEpoch, Counted, Stamped
  <2>2. worker' \in Worker /\ worker'.at = "filtered"
    BY <1>2, <1>7, <2>1 DEF ResetEpoch, Accepted
  <2>3. processed' \in Nat /\ frame' \in 0..MaxFrames /\ serial' \in Nat
    BY <1>7, <2>1, BoundsAssumption DEF ResetEpoch, Accepted
  <2>4. QED BY <1>7, <2>2, <2>3 DEF ResetEpoch, Counted
<1>8. CASE CheckGap
  <2>1. CASE worker' = Idle
    BY <1>1, <1>8, <2>1 DEF CheckGap
  <2>2. CASE gap' = FALSE /\ worker' = [worker EXCEPT !.at = IF gap THEN "resuming" ELSE "tracking"]
    <3>1. worker' \in Worker /\ worker'.at \in {"resuming", "tracking"}
      BY <1>3, <1>8, <2>2 DEF CheckGap
    <3>2. QED BY <1>8, <2>2, <3>1 DEF CheckGap, Counted
  <2>3. QED BY <1>8, <2>1, <2>2 DEF CheckGap
<1>9. CASE Resume
  <2>1. worker' \in Worker /\ worker'.at = "tracking"
    BY <1>3, <1>9 DEF Resume
  <2>2. QED BY <1>9, <2>1 DEF Resume, Counted
<1>10. CASE HoldOutput
  BY <1>1, <1>10 DEF HoldOutput
<1>11. CASE PublishGeometry
  <2>1. worker.stamp \in Nat
    BY <1>11 DEF PublishGeometry, Stamped
  <2>2. serial' \in Nat
    BY <1>11 DEF PublishGeometry, Published
  <2>3. CASE worker' = Idle
    BY <1>1, <1>11, <2>2, <2>3 DEF PublishGeometry
  <2>4. CASE worker' = [at |-> "submitting", stamp |-> worker.stamp, serial |-> serial']
    <3>1. worker' \in Submitting
      BY <2>1, <2>2, <2>4 DEF Submitting
    <3>2. worker' \in Worker /\ worker'.at \notin Counted
      BY <3>1 DEF Worker, Submitting, Counted
    <3>3. QED BY <1>11, <2>2, <3>2 DEF PublishGeometry
  <2>5. QED BY <1>11, <2>3, <2>4 DEF PublishGeometry
<1>12. CASE Submit
  <2>1. worker' = [at |-> "submitted"] \/ worker' = [at |-> "failing", next |-> "submitted"]
    BY <1>12 DEF Submit
  <2>2. worker' \in Resting \/ worker' \in Failing
    BY <2>1 DEF Resting, Failing, Nexts
  <2>3. worker' \in Worker /\ worker'.at \notin Counted
    BY <2>2 DEF Worker, Resting, Failing, Counted
  <2>4. QED BY <1>12, <2>3 DEF Submit
<1>13. CASE Predict
  <2>1. CASE worker' = Idle /\ UNCHANGED gap
    BY <1>1, <1>13, <2>1 DEF Predict
  <2>2. ASSUME NEW stamp \in processed + 1..MaxStamp, frame < MaxFrames, gap' = TRUE,
               worker' = [at |-> IF gap THEN "predicting" ELSE "entering_gap", stamp |-> stamp]
        PROVE  WorkerOK'
    <3>1. worker' \in Worker
      BY <1>2, <2>2, BoundsAssumption DEF Counted
    <3>2. QED BY <1>13, <2>2, <3>1 DEF Predict
  <2>3. QED BY <1>13, <2>1, <2>2 DEF Predict
<1>14. CASE EnterGap
  <2>1. worker' \in Worker /\ worker'.at = "predicting"
    BY <1>3, <1>14 DEF EnterGap, Counted
  <2>2. QED BY <1>14, <2>1 DEF EnterGap, Counted
<1>15. CASE PublishPrediction
  <2>1. frame < MaxFrames
    BY <1>15 DEF PublishPrediction, Counted
  <2>2. frame' \in 0..MaxFrames /\ serial' \in Nat
    BY <1>15, <2>1, BoundsAssumption DEF PublishPrediction, Published
  <2>3. QED BY <1>1, <1>15, <2>2 DEF PublishPrediction
<1>16. QED
  BY <1>4, <1>5, <1>6, <1>7, <1>8, <1>9, <1>10, <1>11, <1>12, <1>13, <1>14, <1>15
  DEF GeometryStep

LEMMA WorkerOKStep == ASSUME WorkerOK, ContextsOK, [Next]_vars PROVE WorkerOK'
<1>1. CASE ServiceStep
  BY <1>1 DEF ServiceStep, SetDisabled, SetEnabled, CheckStale, CallInvalidate, CallEnsure,
              WorkerOK, geometryVars, outputVars
<1>2. CASE LoaderStep \/ InferenceStep
  BY <1>2 DEF LoaderStep, LoadEdgetam, LoadFails, LoaderEnds, InferenceStep, StartJob,
              FinishJob, WorkerOK, geometryVars, outputVars
<1>3. CASE ResultStep
  <2>1. worker' \in Worker /\ worker'.at \notin Counted
    BY <1>3, ResultWorker
  <2>2. UNCHANGED geometryVars /\ serial' \in {serial, serial + 1}
    BY <1>3 DEF ResultStep, PollAgain, TakeResult, JudgeResult, UpdateMemory, ReportStatus,
                TryPublishRefined, RememberMasks, RejectResult, ReportError, outputVars
  <2>3. QED BY <2>1, <2>2 DEF WorkerOK, geometryVars
<1>4. CASE GeometryStep
  BY <1>4, GeometryWorker
<1>5. CASE UNCHANGED vars
  BY <1>5 DEF vars, WorkerOK, geometryVars, outputVars
<1>6. QED BY <1>1, <1>2, <1>3, <1>4, <1>5 DEF Next

\* An invalidation leaves numbers and types alone.
LEMMA InvalidateContexts ==
    ASSUME ContextsOK, Invalidate, worker'.at # "polled"  \/ worker' = worker
    PROVE  ContextsOK'
<1>1. /\ generation' \in Nat /\ stream' \in Nat /\ contexts' = <<>>
      /\ sequence' = sequence /\ last_sequence' = last_sequence /\ running' = running
      /\ job' \in {job, None} /\ result' \in {result, None}
  BY DEF ContextsOK, Invalidate, ResetStream, wrapperVars
<1>2. DOMAIN contexts' = {}
  BY <1>1
<1>3. Cardinality(DOMAIN contexts') <= ContextLimit
  BY <1>2, FS_EmptySet, BoundsAssumption
<1>4. QED BY <1>1, <1>2, <1>3 DEF ContextsOK

\* A job and its context get the next number, and old contexts make room.
LEMMA SubmitContexts == ASSUME ContextsOK, WorkerOK, Submit PROVE ContextsOK'
<1>1. worker'.at # "polled"
  BY DEF Submit
<1>2. CASE UNCHANGED <<contexts, sequence, job>>
  BY <1>1, <1>2 DEF Submit, ContextsOK
<1>3. CASE /\ sequence' = sequence + 1
           /\ job' = [sequence |-> sequence', stream |-> stream]
           /\ contexts' = [s \in Newest(DOMAIN contexts \union {sequence'}) |->
                  IF s = sequence'
                  THEN [generation |-> generation, frame |-> frame,
                        stamp |-> worker.stamp, serial |-> worker.serial]
                  ELSE contexts[s]]
           /\ worker \in Submitting /\ frame \in Nat
  <2> DEFINE given == DOMAIN contexts \union {sequence'}
  <2>1. sequence' \in Nat /\ given \subseteq 1..sequence'
    BY <1>3 DEF ContextsOK
  <2>2. IsFiniteSet(given) /\ given \in SUBSET Nat
    <3> HIDE DEF given
    <3>1. IsFiniteSet(1..sequence')
      BY <2>1, FS_Interval
    <3>2. given \in SUBSET (1..sequence')
      BY <2>1
    <3>3. IsFiniteSet(given)
      BY <3>1, <3>2, FS_Subset
    <3>4. QED BY <2>1, <3>3
  <2>3. DOMAIN contexts' = Newest(given)
    BY <1>3
  <2>4. Newest(given) \subseteq given /\ Cardinality(Newest(given)) <= ContextLimit
    <3> HIDE DEF given
    <3>1. QED BY <2>2, NewestIsBounded
  <2>5. DOMAIN contexts' \subseteq 1..sequence' /\ Cardinality(DOMAIN contexts') <= ContextLimit
    <3> HIDE DEF given
    <3>1. QED BY <2>1, <2>3, <2>4
  <2>6. ASSUME NEW s \in DOMAIN contexts' PROVE contexts'[s] \in Contexts
    <3>1. s \in Newest(given) /\ s \in given
      BY <2>3, <2>4
    <3>2. CASE s = sequence'
      BY <1>3, <3>1, <3>2 DEF ContextsOK, Contexts, Submitting
    <3>3. CASE s # sequence'
      BY <1>3, <3>1, <3>3 DEF ContextsOK
    <3>4. QED BY <3>2, <3>3
  <2>7. job' \in Jobs /\ job'.sequence \in 1..sequence'
    BY <1>3, <2>1 DEF Jobs, ContextsOK
  <2>8. /\ last_sequence' \in 0..sequence' /\ generation' \in Nat /\ stream' \in Nat
        /\ running' \in Jobs \union {None} /\ (running' # None => running'.sequence \in 1..sequence')
        /\ result' \in (1..sequence') \union {None}
    BY <1>3 DEF Submit, ContextsOK
  <2>9. QED BY <1>1, <2>1, <2>5, <2>6, <2>7, <2>8 DEF ContextsOK
<1>4. worker \in Submitting /\ frame \in Nat
  BY WorkerShape, BoundsAssumption DEF Submit, WorkerOK
<1>5. QED BY <1>2, <1>3, <1>4 DEF Submit

LEMMA ContextsOKStep == ASSUME WorkerOK, ContextsOK, [Next]_vars PROVE ContextsOK'
<1> USE DEF contextVars, wrapperVars
<1>1. CASE ServiceStep
  <2>1. CASE CallInvalidate
    BY <2>1, InvalidateContexts DEF CallInvalidate
  <2>2. CASE ~CallInvalidate
    BY <1>1, <2>2 DEF ServiceStep, SetDisabled, SetEnabled, CheckStale, CallEnsure, ContextsOK
  <2>3. QED BY <2>1, <2>2
<1>2. CASE LoaderStep
  BY <1>2 DEF LoaderStep, LoadEdgetam, LoadFails, LoaderEnds, ContextsOK
<1>3. CASE InferenceStep
  BY <1>3 DEF InferenceStep, StartJob, FinishJob, ContextsOK
<1>4. ASSUME ResultStep \/ GeometryStep, UNCHANGED <<generation, contexts, last_sequence, wrapperVars>>
      PROVE  worker'.at # "polled" => ContextsOK'
  BY <1>4 DEF ContextsOK
<1>5. ASSUME NEW next \in Nexts, ReadResult(next), UNCHANGED <<generation, contexts, last_sequence, wrapperVars>>
      PROVE  ContextsOK'
  <2>1. worker'.at # "polled" \/ worker'.result \in 1..sequence
    BY <1>5 DEF ReadResult, Then, Idle, Nexts, ContextsOK
  <2>2. QED BY <1>5, <2>1 DEF ContextsOK
<1>6. CASE ResultStep
  <2>1. CASE PollAgain
    BY <1>5, <2>1 DEF PollAgain, Nexts
  <2>2. CASE TakeResult
    <3>1. worker \in Polled /\ worker.result \in 1..sequence
      BY <2>2, WorkerShape DEF TakeResult, WorkerOK, ContextsOK
    <3>2. worker'.at # "polled"
      BY <2>2, <3>1 DEF TakeResult, Then, Idle, Polled, Nexts
    <3>3. CASE UNCHANGED <<last_sequence, contexts>>
      BY <2>2, <3>2, <3>3 DEF TakeResult, ContextsOK
    <3>4. CASE /\ last_sequence' = worker.result
               /\ contexts' = [s \in {s \in DOMAIN contexts : s > worker.result} |-> contexts[s]]
      <4>1. DOMAIN contexts' \subseteq DOMAIN contexts
        BY <3>4
      <4>2. IsFiniteSet(DOMAIN contexts)
        <5>1. IsFiniteSet(1..sequence)
          BY FS_Interval DEF ContextsOK
        <5>2. QED BY <5>1, FS_Subset DEF ContextsOK
      <4>3. Cardinality(DOMAIN contexts') <= Cardinality(DOMAIN contexts)
        BY <4>1, <4>2, FS_Subset
      <4>4. Cardinality(DOMAIN contexts) \in Nat /\ Cardinality(DOMAIN contexts') \in Nat
        BY <4>1, <4>2, FS_Subset, FS_CardinalityType
      <4>5. Cardinality(DOMAIN contexts') <= ContextLimit
        BY <4>3, <4>4, BoundsAssumption DEF ContextsOK
      <4>6. \A s \in DOMAIN contexts' : contexts'[s] \in Contexts
        BY <3>4 DEF ContextsOK
      <4>7. QED BY <2>2, <3>1, <3>2, <3>4, <4>1, <4>5, <4>6 DEF TakeResult, ContextsOK
    <3>5. QED BY <2>2, <3>3, <3>4 DEF TakeResult
  <2>3. CASE ~(PollAgain \/ TakeResult)
    <3>1. UNCHANGED <<generation, contexts, last_sequence, wrapperVars>>
      BY <1>6, <2>3 DEF ResultStep, JudgeResult, UpdateMemory, ReportStatus, TryPublishRefined,
                        RememberMasks, RejectResult, ReportError
    <3>2. worker'.at # "polled"
      <4>1. \A next \in Nexts : Then(next).at # "polled"
        BY DEF Then, Idle, Nexts
      <4>2. CASE JudgeResult
        <5>1. worker.next \in Nexts
          BY <4>2, WorkerShape DEF JudgeResult, WorkerOK, Judging
        <5>2. QED BY <4>1, <4>2, <5>1 DEF JudgeResult
      <4>3. CASE RejectResult \/ ReportError
        <5>1. worker.next \in Nexts
          BY <4>3, WorkerShape DEF RejectResult, ReportError, WorkerOK, Judged, Failing
        <5>2. QED BY <4>1, <4>3, <5>1 DEF RejectResult, ReportError
      <4>4. CASE UpdateMemory \/ ReportStatus \/ TryPublishRefined \/ RememberMasks
        <5>1. worker \in Judged \union Rejected
          BY <4>4, WorkerShape DEF UpdateMemory, ReportStatus, TryPublishRefined,
                                   RememberMasks, WorkerOK
        <5>2. worker.next \in Nexts
          BY <5>1 DEF Judged, Rejected
        <5>3. \A phase \in {"reporting", "correcting", "remembering"} :
                  [worker EXCEPT !.at = phase].at # "polled"
          BY <5>1 DEF Judged, Rejected
        <5>4. QED
          BY <4>1, <4>4, <5>2, <5>3 DEF UpdateMemory, ReportStatus, TryPublishRefined,
                                        RememberMasks
      <4>5. QED BY <1>6, <2>3, <4>2, <4>3, <4>4 DEF ResultStep
    <3>3. QED BY <1>4, <1>6, <3>1, <3>2
  <2>4. QED BY <2>1, <2>2, <2>3
<1>7. CASE GeometryStep
  <2>1. CASE Work
    BY <1>5, <2>1 DEF Work, Nexts
  <2>2. CASE Submit
    BY <2>2, SubmitContexts
  <2>3. CASE ResetClock \/ Resume \/ EnterGap \/ HoldOutput
    <3>1. worker'.at # "polled"
      BY <2>3, WorkerShape DEF ResetClock, Resume, EnterGap, HoldOutput, WorkerOK, Stamped,
                               Counted, Idle
    <3>2. QED BY <1>4, <1>7, <2>3, <3>1, InvalidateContexts DEF ResetClock, Resume, EnterGap, HoldOutput
  <2>4. CASE ~(Work \/ Submit \/ ResetClock \/ Resume \/ EnterGap \/ HoldOutput)
    <3>1. UNCHANGED <<generation, contexts, last_sequence, wrapperVars>>
      BY <1>7, <2>4 DEF GeometryStep, ReceiveBundle, ResetEpoch, CheckGap, PublishGeometry,
                        Predict, PublishPrediction
    <3>2. worker'.at # "polled"
      BY <1>7, <2>4, WorkerShape
      DEF GeometryStep, ReceiveBundle, ResetEpoch, CheckGap, PublishGeometry, Predict,
          PublishPrediction, Accepted, WorkerOK, Stamped, Counted, Idle
    <3>3. QED BY <1>4, <1>7, <3>1, <3>2
  <2>5. QED BY <2>1, <2>2, <2>3, <2>4
<1>8. CASE UNCHANGED vars
  BY <1>8 DEF vars, ContextsOK
<1>9. QED BY <1>1, <1>2, <1>3, <1>6, <1>7, <1>8 DEF Next

LEMMA TypeInvAlways == Spec => []TypeInv
<1>1. Init => TypeInv
  <2> SUFFICES ASSUME Init PROVE TypeInv
    OBVIOUS
  <2>1. SwitchOK
    <3>1. enabled \in BOOLEAN /\ edge = FALSE /\ call = {} /\ calls = 0
      BY DEF Init
    <3>2. status \in {"loading", "disabled"} /\ loader \in {"loading", "dead"}
      BY DEF Init
    <3>3. calls \in 0..MaxCalls
      BY <3>1, BoundsAssumption
    <3>4. QED BY <3>1, <3>2, <3>3 DEF SwitchOK
  <2>2. WorkerOK
    <3>1. worker \in Worker /\ worker.at \notin Counted
      BY DEF Init, Idle, Worker, Resting, Counted
    <3>2. /\ gap = FALSE /\ held = FALSE /\ processed = 0 /\ serial = 0
          /\ frame \in 0..MaxFrames
      BY BoundsAssumption DEF Init
    <3>3. QED BY <3>1, <3>2 DEF WorkerOK
  <2>3. ContextsOK
    <3>1. contexts = <<>> /\ DOMAIN contexts = {}
      BY DEF Init
    <3>2. Cardinality(DOMAIN contexts) <= ContextLimit
      BY <3>1, FS_EmptySet, BoundsAssumption
    <3>3. QED BY <3>1, <3>2 DEF Init, ContextsOK, Idle
  <2>4. QED BY <2>1, <2>2, <2>3 DEF TypeInv
<1>2. TypeInv /\ [Next]_vars => TypeInv'
  BY SwitchOKStep, WorkerOKStep, ContextsOKStep DEF TypeInv
<1>3. QED BY <1>1, <1>2, PTL DEF Spec

\* The shared state of the node keeps its types: in particular there are never more
\* than ContextLimit contexts, each of a number given out, for any limit.
THEOREM TrackerTypeCorrect == Spec => []TypeOK
<1>1. TypeInv => TypeOK
  BY DEF TypeInv, SwitchOK, WorkerOK, ContextsOK, TypeOK
<1>2. QED BY <1>1, TypeInvAlways, PTL

-----------------------------------------------------------------------------
(***************************************************************************)
(* A result finds its context.  What holds of a result holds of the jobs   *)
(* that may still become one, and only of those.                           *)
(***************************************************************************)
Kept(s) == s > last_sequence => s \in DOMAIN contexts \/ sequence - s >= ContextLimit

KeepInv ==
    /\ job # None => Kept(job.sequence)
    /\ running # None /\ running.stream = stream => Kept(running.sequence)
    /\ result # None => Kept(result)

keepVars == <<contexts, last_sequence, sequence, stream, job, running, result>>

\* An invalidation takes the contexts, and with them whatever could ask for one.
LEMMA InvalidateKeeps ==
    ASSUME ContextsOK, ModelInv, JobsInv, KeepInv, Invalidate
    PROVE  KeepInv'
<1>1. CASE edge = TRUE
  <2>1. job' = None /\ result' = None /\ running' = running /\ stream' = stream + 1
    BY <1>1 DEF Invalidate, ResetStream
  <2>2. running' # None => running'.stream # stream'
    BY <2>1 DEF JobsInv, Jobs
  <2>3. QED BY <2>1, <2>2 DEF KeepInv
<1>2. CASE edge = FALSE
  BY <1>2 DEF Invalidate, wrapperVars, JobsInv, KeepInv
<1>3. QED BY <1>1, <1>2 DEF ModelInv

\* What a new context pushes out is at least ContextLimit submissions old.
LEMMA SubmitKeeps ==
    ASSUME ContextsOK, KeepInv, Submit
    PROVE  KeepInv'
<1>1. CASE UNCHANGED <<contexts, sequence, job>>
  BY <1>1 DEF Submit, KeepInv, Kept
<1>2. CASE /\ sequence' = sequence + 1
           /\ job' = [sequence |-> sequence', stream |-> stream]
           /\ DOMAIN contexts' = Newest(DOMAIN contexts \union {sequence'})
  <2> DEFINE given == DOMAIN contexts \union {sequence'}
  <2>1. sequence' \in Nat /\ given \in SUBSET (1..sequence')
    BY <1>2 DEF ContextsOK
  <2>2. \A s \in given : s \in DOMAIN contexts' \/ sequence' - s >= ContextLimit
    BY <1>2, <2>1, NewestKeeps
  <2>3. last_sequence' = last_sequence /\ result' = result /\ running' = running /\ stream' = stream
    BY DEF Submit
  <2>4. ASSUME NEW s \in 1..sequence, Kept(s)
        PROVE  s > last_sequence' => s \in DOMAIN contexts' \/ sequence' - s >= ContextLimit
    <3>1. CASE s \in DOMAIN contexts
      BY <2>2, <3>1
    <3>2. CASE sequence - s >= ContextLimit
      BY <1>2, <3>2, BoundsAssumption DEF ContextsOK
    <3>3. QED BY <2>3, <2>4, <3>1, <3>2 DEF Kept
  <2>5. job'.sequence = sequence' /\ sequence' \in given
    BY <1>2
  <2>6. job'.sequence \in DOMAIN contexts' \/ sequence' - job'.sequence >= ContextLimit
    BY <2>2, <2>5
  <2>7. result' # None => Kept(result)'
    BY <2>3, <2>4 DEF KeepInv, ContextsOK, Kept
  <2>8. running' # None /\ running'.stream = stream' => Kept(running.sequence)'
    BY <2>3, <2>4 DEF KeepInv, ContextsOK, Kept
  <2>9. job' # None => Kept(job.sequence)'
    BY <2>6 DEF Kept
  <2>10. QED BY <2>7, <2>8, <2>9 DEF KeepInv
<1>3. QED BY <1>1, <1>2 DEF Submit

LEMMA KeepStep ==
    ASSUME TypeInv, HoldInv, KeepInv, [Next]_vars
    PROVE  KeepInv'
<1> USE DEF contextVars, wrapperVars
<1>1. ContextsOK /\ ModelInv /\ JobsInv
  BY DEF TypeInv, HoldInv
<1>2. CASE UNCHANGED keepVars
  BY <1>2 DEF KeepInv, Kept, keepVars
<1>3. CASE CallInvalidate \/ ResetClock \/ Resume \/ EnterGap
  BY <1>1, <1>3, InvalidateKeeps DEF CallInvalidate, ResetClock, Resume, EnterGap
<1>4. CASE HoldOutput
  BY <1>1, <1>2, <1>4, InvalidateKeeps DEF HoldOutput, keepVars
<1>5. CASE Submit
  BY <1>1, <1>5, SubmitKeeps
<1>6. CASE StartJob
  BY <1>6 DEF StartJob, KeepInv, Kept
<1>7. CASE FinishJob
  BY <1>7 DEF FinishJob, KeepInv, Kept
<1>8. CASE TakeResult
  <2>1. CASE UNCHANGED <<last_sequence, contexts>>
    BY <1>2, <1>8, <2>1 DEF TakeResult, keepVars
  <2>2. CASE /\ worker.result > last_sequence /\ worker.result \in 1..sequence
             /\ last_sequence' = worker.result
             /\ contexts' = [s \in {s \in DOMAIN contexts : s > worker.result} |-> contexts[s]]
    <3>1. ASSUME NEW s \in 1..sequence, Kept(s)
          PROVE  s > last_sequence' => s \in DOMAIN contexts' \/ sequence - s >= ContextLimit
      <4>1. DOMAIN contexts' = {t \in DOMAIN contexts : t > worker.result}
        BY <2>2
      <4>2. last_sequence \in Nat /\ worker.result \in Nat /\ s \in Nat
        BY <1>1, <2>2 DEF ContextsOK
      <4>3. QED BY <2>2, <3>1, <4>1, <4>2 DEF Kept
    <3>2. UNCHANGED <<sequence, stream, job, running, result>>
      BY <1>8 DEF TakeResult
    <3>3. QED BY <1>1, <3>1, <3>2 DEF KeepInv, Kept, ContextsOK
  <2>3. worker.result \in 1..sequence
    BY <1>1, <1>8 DEF TakeResult, ContextsOK
  <2>4. ~(worker.result <= last_sequence) => worker.result > last_sequence
    BY <1>1, <2>3 DEF ContextsOK
  <2>5. QED BY <1>8, <2>1, <2>2, <2>3, <2>4 DEF TakeResult
<1>9. CASE ServiceStep /\ ~CallInvalidate
  BY <1>2, <1>9 DEF ServiceStep, SetDisabled, SetEnabled, CheckStale, CallEnsure, keepVars
<1>10. CASE LoaderStep
  BY <1>2, <1>10 DEF LoaderStep, LoadEdgetam, LoadFails, LoaderEnds, keepVars
<1>11. CASE ResultStep /\ ~TakeResult
  BY <1>2, <1>11 DEF ResultStep, PollAgain, JudgeResult, UpdateMemory, ReportStatus,
                     TryPublishRefined, RememberMasks, RejectResult, ReportError, keepVars
<1>12. CASE GeometryStep /\ ~(ResetClock \/ Resume \/ EnterGap \/ HoldOutput \/ Submit)
  BY <1>2, <1>12 DEF GeometryStep, Work, ReceiveBundle, ResetEpoch, CheckGap,
                     PublishGeometry, Predict, PublishPrediction, keepVars
<1>13. CASE UNCHANGED vars
  BY <1>2, <1>13 DEF vars, keepVars
<1>14. QED
  BY <1>3, <1>4, <1>5, <1>6, <1>7, <1>8, <1>9, <1>10, <1>11, <1>12, <1>13
  DEF Next, InferenceStep

\* Whatever is submitted, refused, dropped, reset or overtaken, a result the worker
\* has not taken finds its exact frame unless ContextLimit newer ones pushed it out.
THEOREM ResultFindsItsContext == Spec => []ResultKeepsItsContext
<1>1. Init => KeepInv
  BY DEF Init, KeepInv
<1>2. KeepInv => ResultKeepsItsContext
  BY DEF KeepInv, Kept, ResultKeepsItsContext
<1>3. QED BY <1>1, <1>2, KeepStep, TypeInvAlways, HoldAlways, PTL DEF Spec

-----------------------------------------------------------------------------
(***************************************************************************)
(* Corrections.  A context carries the serial of its own geometry output;  *)
(* every later output has a larger one.                                    *)
(***************************************************************************)
\* As long as the serial is still that of c, the last output is the geometry of c.
Direct(c) ==
    /\ c.serial <= serial
    /\ c.serial = serial => output.kind = "geometry" /\ output.frame = c.frame

DirectInv ==
    /\ \A s \in DOMAIN contexts : Direct(contexts[s])
    /\ worker \in Judging => worker.context = None \/ Direct(worker.context)
    /\ worker \in Judged => Direct(worker.context)
    /\ worker \in Submitting =>
           /\ worker.serial <= serial
           /\ worker.serial = serial => output.kind = "geometry" /\ output.frame = frame

\* The serial changes with every output, and only grows.
LEMMA SerialGrows ==
    ASSUME [Next]_vars
    PROVE  serial' = serial + 1 \/ UNCHANGED <<serial, output>>
<1> USE DEF outputVars
<1>1. CASE ServiceStep \/ LoaderStep \/ InferenceStep
  BY <1>1 DEF ServiceStep, SetDisabled, SetEnabled, CheckStale, CallInvalidate, CallEnsure,
              LoaderStep, LoadEdgetam, LoadFails, LoaderEnds, InferenceStep, StartJob, FinishJob
<1>2. CASE ResultStep
  BY <1>2 DEF ResultStep, PollAgain, TakeResult, JudgeResult, UpdateMemory, ReportStatus,
              TryPublishRefined, RememberMasks, RejectResult, ReportError
<1>3. CASE GeometryStep
  <2>1. CASE PublishGeometry \/ PublishPrediction
    BY <2>1 DEF PublishGeometry, PublishPrediction, Published
  <2>2. CASE ~(PublishGeometry \/ PublishPrediction)
    BY <1>3, <2>2 DEF GeometryStep, Work, ReceiveBundle, ResetClock, ResetEpoch, CheckGap,
                      Resume, HoldOutput, Submit, Predict, EnterGap
  <2>3. QED BY <2>1, <2>2
<1>4. CASE UNCHANGED vars
  BY <1>4 DEF vars
<1>5. QED BY <1>1, <1>2, <1>3, <1>4 DEF Next

\* What is direct stays so, or is overtaken.
LEMMA DirectStays ==
    ASSUME WorkerOK, [Next]_vars, NEW c \in Contexts, Direct(c)
    PROVE  /\ c.serial <= serial'
           /\ c.serial = serial' => output'.kind = "geometry" /\ output'.frame = c.frame
<1>1. c.serial \in Nat /\ serial \in Nat
  BY DEF Contexts, WorkerOK
<1>2. QED BY <1>1, SerialGrows DEF Direct

\* The contexts of the next state are those of this one, or that of a submission.
LEMMA ContextsDirect ==
    ASSUME TypeInv, DirectInv, [Next]_vars, NEW s \in DOMAIN contexts'
    PROVE  Direct(contexts[s])'
<1> USE DEF contextVars
<1>1. CASE s \in DOMAIN contexts /\ contexts'[s] = contexts[s]
  BY <1>1, DirectStays DEF TypeInv, ContextsOK, DirectInv, Direct
<1>2. CASE Submit
  <2>1. worker \in Submitting
    BY <1>2, WorkerShape DEF TypeInv, WorkerOK, Submit
  <2>2. CASE UNCHANGED contexts
    BY <1>1, <2>2
  <2>3. CASE contexts' = [t \in Newest(DOMAIN contexts \union {sequence'}) |->
                 IF t = sequence'
                 THEN [generation |-> generation, frame |-> frame,
                       stamp |-> worker.stamp, serial |-> worker.serial]
                 ELSE contexts[t]]
    <3>1. s \in DOMAIN contexts \union {sequence'}
      BY <2>3 DEF Newest
    <3>2. CASE s = sequence'
      <4>1. contexts'[s] = [generation |-> generation, frame |-> frame,
                            stamp |-> worker.stamp, serial |-> worker.serial]
        BY <2>3, <3>2
      <4>2. UNCHANGED <<serial, output>>
        BY <1>2 DEF Submit, outputVars
      <4>3. contexts'[s].serial = worker.serial /\ contexts'[s].frame = frame
        BY <4>1
      <4>4. QED BY <2>1, <4>2, <4>3 DEF DirectInv, Direct
    <3>3. CASE s # sequence'
      BY <1>1, <2>3, <3>1, <3>3
    <3>4. QED BY <3>2, <3>3
  <2>4. QED BY <1>2, <2>2, <2>3 DEF Submit
<1>3. CASE TakeResult
  BY <1>1, <1>3 DEF TakeResult
<1>4. CASE Invalidate
  BY <1>4 DEF Invalidate
<1>5. CASE UNCHANGED contexts
  BY <1>1, <1>5
<1>6. CASE ServiceStep \/ LoaderStep \/ InferenceStep
  BY <1>4, <1>5, <1>6 DEF ServiceStep, SetDisabled, SetEnabled, CheckStale, CallInvalidate,
         CallEnsure, LoaderStep, LoadEdgetam, LoadFails, LoaderEnds, InferenceStep, StartJob, FinishJob
<1>7. CASE ResultStep
  BY <1>3, <1>5, <1>7 DEF ResultStep, PollAgain, JudgeResult, UpdateMemory, ReportStatus,
         TryPublishRefined, RememberMasks, RejectResult, ReportError
<1>8. CASE GeometryStep
  BY <1>2, <1>4, <1>5, <1>8 DEF GeometryStep, Work, ReceiveBundle, ResetClock, ResetEpoch,
         CheckGap, Resume, HoldOutput, PublishGeometry, Predict, EnterGap, PublishPrediction
<1>9. CASE UNCHANGED vars
  BY <1>5, <1>9 DEF vars
<1>10. QED BY <1>6, <1>7, <1>8, <1>9 DEF Next

\* The context the worker holds comes from the node's, and stays the same.
LEMMA WorkerDirect ==
    ASSUME TypeInv, DirectInv, [Next]_vars
    PROVE  /\ worker' \in Judging => worker'.context = None \/ Direct(worker.context)'
           /\ worker' \in Judged => Direct(worker.context)'
<1> USE DEF outputVars
<1>1. WorkerOK /\ ContextsOK
  BY DEF TypeInv
<1>2. CASE UNCHANGED worker
  BY <1>1, <1>2, DirectStays DEF DirectInv, Judging, Judged, Direct
<1>3. CASE TakeResult
  <2>1. CASE worker' = Then(worker.next)
    <3>1. worker \in Polled
      BY <1>1, <1>3, WorkerShape DEF WorkerOK, TakeResult
    <3>2. worker' \in Resting
      BY <2>1, <3>1, RestingStates DEF Polled
    <3>3. QED BY <3>2 DEF Resting, Judging, Judged
  <2>2. CASE worker' = [at |-> "judging", next |-> worker.next,
                        context |-> IF worker.result \in DOMAIN contexts
                                    THEN contexts[worker.result] ELSE None]
    <3>1. worker' \notin Judged
      BY <2>2 DEF Judged
    <3>2. CASE worker.result \in DOMAIN contexts
      <4>1. worker'.context = contexts[worker.result] /\ contexts[worker.result] \in Contexts
        BY <1>1, <2>2, <3>2 DEF ContextsOK
      <4>2. Direct(contexts[worker.result])
        BY <3>2 DEF DirectInv
      <4>3. QED BY <1>1, <3>1, <4>1, <4>2, DirectStays DEF Direct
    <3>3. CASE worker.result \notin DOMAIN contexts
      BY <2>2, <3>1, <3>3
    <3>4. QED BY <3>2, <3>3
  <2>3. QED BY <1>3, <2>1, <2>2 DEF TakeResult
<1>4. CASE JudgeResult
  <2>1. worker \in Judging
    BY <1>1, <1>4, WorkerShape DEF WorkerOK, JudgeResult
  <2>2. CASE worker' = Then(worker.next)
    <3>1. worker' \in Resting
      BY <2>1, <2>2, RestingStates DEF Judging
    <3>2. QED BY <3>1 DEF Resting, Judging, Judged
  <2>3. CASE /\ worker'.context = worker.context
             /\ worker'.at \in {"learning", "reporting"}
             /\ worker' \in Judged => worker.context # None
    <3>1. worker' \notin Judging
      BY <2>3 DEF Judging
    <3>2. worker' \in Judged => worker.context \in Contexts /\ Direct(worker.context)
      BY <2>1, <2>3 DEF DirectInv, Judging
    <3>3. QED BY <1>1, <2>3, <3>1, <3>2, DirectStays DEF Direct
  <2>4. ASSUME NEW verdict \in Verdicts,
               worker.context = None => verdict = "missing",
               worker' = [at |-> IF verdict \in {"ready", "degraded"}
                                 THEN "learning" ELSE "reporting",
                          next |-> worker.next, context |-> worker.context,
                          verdict |-> verdict]
        PROVE  /\ worker'.context = worker.context
               /\ worker'.at \in {"learning", "reporting"}
               /\ worker' \in Judged => worker.context # None
    <3>1. worker'.verdict = verdict /\ worker'.context = worker.context
      BY <2>4
    <3>2. QED BY <2>4, <3>1 DEF Judged
  <2>5. QED BY <1>4, <2>2, <2>3, <2>4 DEF JudgeResult
<1>5. ASSUME worker \in Judged,
             NEW phase \in {"reporting", "correcting", "remembering"},
             worker' = [worker EXCEPT !.at = phase]
      PROVE  /\ worker' \in Judging => worker'.context = None \/ Direct(worker.context)'
             /\ worker' \in Judged => Direct(worker.context)'
  <2>1. worker'.context = worker.context /\ worker.context \in Contexts /\ worker' \notin Judging
    BY <1>5 DEF Judged, Judging
  <2>2. Direct(worker.context)
    BY <1>5 DEF DirectInv
  <2>3. QED BY <1>1, <2>1, <2>2, DirectStays DEF Direct
<1>6. ASSUME worker \in Judged \union Rejected \union Failing, worker' = Then(worker.next)
      PROVE  worker' \notin Judging /\ worker' \notin Judged
  <2>1. worker' \in Resting
    BY <1>6, RestingStates DEF Judged, Rejected, Failing
  <2>2. QED BY <2>1 DEF Resting, Judging, Judged
<1>7. CASE UpdateMemory \/ TryPublishRefined \/ RememberMasks
  <2>1. worker \in Judged
    BY <1>1, <1>7, WorkerShape DEF WorkerOK, UpdateMemory, TryPublishRefined, RememberMasks
  <2>2. QED BY <1>5, <1>6, <1>7, <2>1 DEF UpdateMemory, TryPublishRefined, RememberMasks
<1>8. CASE ReportStatus
  <2>1. worker \in Judged \union Rejected
    BY <1>1, <1>8, WorkerShape DEF WorkerOK, ReportStatus
  <2>2. CASE worker' = Then(worker.next)
    BY <1>6, <2>1, <2>2
  <2>3. CASE worker.verdict \in {"ready", "degraded"} /\ worker' = [worker EXCEPT !.at = "correcting"]
    <3>1. worker \in Judged
      BY <2>1, <2>3 DEF Rejected
    <3>2. QED BY <1>5, <2>3, <3>1
  <2>4. QED BY <1>8, <2>2, <2>3 DEF ReportStatus
<1>9. CASE ReportError
  BY <1>1, <1>6, <1>9, WorkerShape DEF WorkerOK, ReportError
<1>10. CASE RejectResult
  BY <1>10 DEF RejectResult, Judging, Judged
<1>11. ASSUME NEW next \in Nexts, ReadResult(next)
       PROVE  worker' \notin Judging /\ worker' \notin Judged
  BY <1>11 DEF ReadResult, Then, Idle, Nexts, Judging, Judged
<1>12. CASE PollAgain \/ Work
  BY <1>11, <1>12 DEF PollAgain, Work, Nexts
<1>13. CASE GeometryStep /\ ~Work
  <2> DEFINE away == {"idle", "submitted", "failing", "submitting"} \union
                     {"filtered", "resuming", "tracking"} \union Counted
  <2>1. worker'.at \in away
    BY <1>1, <1>13, WorkerShape
    DEF GeometryStep, ReceiveBundle, ResetClock, ResetEpoch, CheckGap, Resume, HoldOutput,
        PublishGeometry, Submit, Predict, EnterGap, PublishPrediction, Accepted, WorkerOK,
        Idle, Stamped, Counted
  <2>2. QED BY <2>1 DEF Judging, Judged, Counted
<1>14. CASE ServiceStep \/ LoaderStep \/ InferenceStep
  BY <1>2, <1>14 DEF ServiceStep, SetDisabled, SetEnabled, CheckStale, CallInvalidate,
         CallEnsure, LoaderStep, LoadEdgetam, LoadFails, LoaderEnds, InferenceStep, StartJob, FinishJob
<1>15. CASE UNCHANGED vars
  BY <1>2, <1>15 DEF vars
<1>16. QED
  BY <1>3, <1>4, <1>7, <1>8, <1>9, <1>10, <1>12, <1>13, <1>14, <1>15 DEF Next, ResultStep

\* A frame on its way to the wrapper has just been published.
LEMMA SubmittingDirect ==
    ASSUME TypeInv, DirectInv, [Next]_vars, worker' \in Submitting
    PROVE  /\ worker'.serial <= serial'
           /\ worker'.serial = serial' => output'.kind = "geometry" /\ output'.frame = frame'
<1> USE DEF outputVars
<1>1. WorkerOK
  BY DEF TypeInv
<1>2. worker'.at = "submitting" /\ worker'.serial \in Nat
  BY DEF Submitting
<1>3. CASE PublishGeometry
  <2>1. worker' = [at |-> "submitting", stamp |-> worker.stamp, serial |-> serial']
        /\ Published("geometry", worker.stamp)
    BY <1>2, <1>3 DEF PublishGeometry, Idle
  <2>2. QED BY <1>2, <2>1 DEF Published
<1>4. CASE worker' = worker /\ frame' = frame
  <2>1. worker.serial \in Nat /\ serial \in Nat
    BY <1>1, <1>2, <1>4 DEF WorkerOK
  <2>2. QED BY <1>4, <2>1, SerialGrows DEF DirectInv
<1>5. CASE ServiceStep \/ LoaderStep \/ InferenceStep
  BY <1>4, <1>5 DEF ServiceStep, SetDisabled, SetEnabled, CheckStale, CallInvalidate,
         CallEnsure, LoaderStep, LoadEdgetam, LoadFails, LoaderEnds, InferenceStep, StartJob,
         FinishJob, geometryVars
<1>6. CASE ResultStep
  <2>1. CASE PollAgain
    BY <1>2, <2>1 DEF PollAgain, ReadResult, Then, Idle
  <2>2. CASE TakeResult
    <3>1. worker \in Polled
      BY <1>1, <2>2, WorkerShape DEF WorkerOK, TakeResult
    <3>2. QED BY <1>2, <2>2, <3>1 DEF TakeResult, Then, Idle, Polled, Nexts
  <2>3. CASE JudgeResult
    <3>1. worker \in Judging
      BY <1>1, <2>3, WorkerShape DEF WorkerOK, JudgeResult
    <3>2. QED BY <1>2, <2>3, <3>1 DEF JudgeResult, Then, Idle, Judging, Nexts
  <2>4. CASE ~(PollAgain \/ TakeResult \/ JudgeResult)
    <3>1. worker \in Judged \union Rejected \union Failing
      BY <1>1, <1>6, <2>4, WorkerShape
      DEF WorkerOK, ResultStep, UpdateMemory, ReportStatus, TryPublishRefined, RememberMasks,
          RejectResult, ReportError
    <3>2. Then(worker.next).at # "submitting"
      BY <3>1 DEF Judged, Rejected, Failing, Then, Idle, Nexts
    <3>3. \A phase \in {"reporting", "correcting", "remembering"} :
              [worker EXCEPT !.at = phase].at # "submitting"
      BY <3>1 DEF Judged, Rejected, Failing
    <3>4. \/ worker' = Then(worker.next)
          \/ worker' = [at |-> "failing", next |-> worker.next]
          \/ \E phase \in {"reporting", "correcting", "remembering"} :
                 worker' = [worker EXCEPT !.at = phase]
      BY <1>6, <2>4
      DEF ResultStep, UpdateMemory, ReportStatus, TryPublishRefined, RememberMasks,
          RejectResult, ReportError
    <3>5. CASE worker' = [at |-> "failing", next |-> worker.next]
      BY <1>2, <3>5
    <3>6. ASSUME NEW phase \in {"reporting", "correcting", "remembering"},
                 worker' = [worker EXCEPT !.at = phase]
          PROVE  FALSE
      BY <1>2, <3>3, <3>6
    <3>7. CASE worker' = Then(worker.next)
      BY <1>2, <3>2, <3>7
    <3>8. QED BY <3>4, <3>5, <3>6, <3>7
  <2>5. QED BY <2>1, <2>2, <2>3, <2>4
<1>7. CASE GeometryStep /\ ~PublishGeometry
  <2>1. worker'.at # "submitting"
    <3>1. CASE Work
      BY <3>1 DEF Work, ReadResult, Then, Idle
    <3>2. CASE ~Work
      BY <1>1, <1>7, <3>2, WorkerShape
      DEF GeometryStep, ReceiveBundle, ResetClock, ResetEpoch, CheckGap, Resume, HoldOutput,
          Submit, Predict, EnterGap, PublishPrediction, Accepted, WorkerOK, Idle, Stamped, Counted
    <3>3. QED BY <3>1, <3>2
  <2>2. QED BY <1>2, <2>1
<1>8. CASE UNCHANGED vars
  BY <1>4, <1>8 DEF vars, geometryVars
<1>9. QED BY <1>3, <1>5, <1>6, <1>7, <1>8 DEF Next

LEMMA DirectAlways == Spec => []DirectInv
<1>1. Init => DirectInv
  BY DEF Init, DirectInv, Idle, Judging, Judged, Submitting
<1>2. TypeInv /\ DirectInv /\ [Next]_vars => DirectInv'
  BY ContextsDirect, WorkerDirect, SubmittingDirect DEF DirectInv, Direct
<1>3. QED BY <1>1, <1>2, TypeInvAlways, PTL DEF Spec

\* Only a refined context is published as a correction.
LEMMA CorrectionIsDirect ==
    ASSUME TypeInv, DirectInv, [Next]_vars, output' # output, output'.kind = "corrected"
    PROVE  output.kind = "geometry" /\ output.frame = output'.frame
<1> USE DEF outputVars
<1>1. CASE TryPublishRefined
  <2>1. worker \in Judged
    BY <1>1, WorkerShape DEF TypeInv, WorkerOK, TryPublishRefined
  <2>2. /\ serial = worker.context.serial
        /\ output' = [kind |-> "corrected", frame |-> worker.context.frame]
    BY <1>1 DEF TryPublishRefined
  <2>3. QED BY <2>1, <2>2 DEF DirectInv, Direct
<1>2. CASE PublishGeometry \/ PublishPrediction
  BY <1>2 DEF PublishGeometry, PublishPrediction, Published
<1>3. CASE ServiceStep \/ LoaderStep \/ InferenceStep
  BY <1>3 DEF ServiceStep, SetDisabled, SetEnabled, CheckStale, CallInvalidate, CallEnsure,
              LoaderStep, LoadEdgetam, LoadFails, LoaderEnds, InferenceStep, StartJob, FinishJob
<1>4. CASE ResultStep /\ ~TryPublishRefined
  BY <1>4 DEF ResultStep, PollAgain, TakeResult, JudgeResult, UpdateMemory, ReportStatus,
              RememberMasks, RejectResult, ReportError
<1>5. CASE GeometryStep /\ ~(PublishGeometry \/ PublishPrediction)
  BY <1>5 DEF GeometryStep, Work, ReceiveBundle, ResetClock, ResetEpoch, CheckGap, Resume,
              HoldOutput, Submit, Predict, EnterGap
<1>6. CASE UNCHANGED vars
  BY <1>6 DEF vars
<1>7. QED BY <1>1, <1>2, <1>3, <1>4, <1>5, <1>6 DEF Next

\* A correction directly follows the geometry output of its own frame, however long
\* inference took and whatever was published, predicted or reset meanwhile.
THEOREM CorrectionsAreDirect == Spec => CorrectsTheLastOutput
<1>1. TypeInv /\ DirectInv /\ [Next]_vars =>
          [output' # output /\ output'.kind = "corrected" =>
               output.kind = "geometry" /\ output.frame = output'.frame]_vars
  BY CorrectionIsDirect
<1>2. QED BY <1>1, TypeInvAlways, DirectAlways, PTL DEF Spec, CorrectsTheLastOutput

=============================================================================

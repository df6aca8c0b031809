------------------------ MODULE RealtimePipeline_proofs ------------------------
(***************************************************************************)
(* That a run which nobody interferes with ends only when its last frame   *)
(* has been perceived, reconstructed and judged: for a file of any length, *)
(* any max_frames, any size of the queues and either mode.                 *)
(*                                                                         *)
(* Frames travel from the capture worker through two branches.  On each    *)
(* way every frame that has not arrived is newer than the last one that    *)
(* has, and none is newer than what capture has put, so a branch that has  *)
(* shown the last frame holds nothing.                                     *)
(***************************************************************************)
EXTENDS RealtimePipeline, TLAPS

Sources ==
    [kind : {"file"}, loop : {FALSE}, length : Nat \ {0}, state : Player!States,
     open : BOOLEAN, index : Int, next : Int, delay : {MinDelay}]

\* What bounds the incidents of the run, whatever happens in it.
Bounded ==
    /\ mode \in {"safety", "reconstruction"} /\ source \in Sources /\ left \in Nat
    /\ \E plan \in Plans : plan.mode = mode /\ plan.length = source.length
    /\ \A plan \in Plans :
          plan.mode = mode /\ plan.length = source.length => left <= plan.incidents

\* The types of a run without incidents: the source is never rewound.
Shown == Frames \union {NoFrame}
Seen == [last : Int, cloud : Int, handled : BOOLEAN]

RunTypes ==
    /\ run \in [id : {0}, complete : BOOLEAN, done : BOOLEAN, final : Int, captured : Nat,
                limit : Nat]
    /\ state \in [latest : Shown, perception : Shown, cloud : Shown, version : Nat,
                  resets : {0}, safety : BOOLEAN, safetyVersion : Int, peopleVersion : Int]
    /\ queues \in [fast : Seq(Frames), recon : Seq(Frames)]
    /\ epoch = 0

ThreadTypes ==
    /\ capture \in [pc : {"read", "put", "put3d", "store", "count", "ended"},
                    frame : Shown, last : Int, id : {0}]
    /\ fast \in [pc : {"take", "append"}, frame : Shown]
    /\ recon \in [pc : {"take", "infer"}, frame : Shown, pending : Shown]
    /\ people \in [pc : {"look", "store"}, version : Nat, handled : Int]
    /\ safety \in [pc : {"tick", "check", "align", "decide", "dead"}, version : Nat,
                   handled : Int, resets : {0}]
    /\ renderer \in [pc : {"look", "check", "finish"}, seen : Seen \union {NoFrame}]
    /\ gui = [pc |-> "idle"]

\* Capture reads the frames in order and publishes each before it reads the next;
\* once the run is complete it reads no more.
Carrying == capture.pc \in {"put", "put3d", "store", "count"}

CaptureInv ==
    /\ source.next = source.index + 1 /\ capture.last = source.index
    /\ -1 <= source.index /\ source.index < source.length
    /\ source.state # "paused"
    /\ Carrying => /\ capture.frame \in Frames /\ capture.frame.i = source.index
                   /\ source.state = "running"
    /\ capture.pc = "put" => mode = "safety"
    /\ Index(state.latest) =
          IF capture.pc \in {"put", "put3d", "store"} THEN source.index - 1 ELSE source.index
    /\ run.final = IF Carrying THEN source.index - 1 ELSE source.index
    /\ capture.pc = "ended" => source.state = "ended"
    /\ run.complete => capture.pc = "read" /\ source.state # "running"

\* The newest frame that is in a branch.
PutFast == IF capture.pc = "put" THEN source.index - 1 ELSE source.index
PutRecon == IF capture.pc \in {"put", "put3d"} THEN source.index - 1 ELSE source.index

\* A frame on its way: newer than the one shown, no newer than what was put.
OnItsWay(frame, shown, put) == frame \in Frames /\ Index(shown) < frame.i /\ frame.i <= put

FastInv ==
    /\ Index(state.perception) <= PutFast
    /\ mode # "safety" => queues.fast = <<>> /\ fast.pc = "take"
    /\ \A k \in 1..Len(queues.fast) : OnItsWay(queues.fast[k], state.perception, PutFast)
    /\ fast.pc = "append" =>
          /\ OnItsWay(fast.frame, state.perception, PutFast)
          /\ \A k \in 1..Len(queues.fast) : fast.frame.i < queues.fast[k].i

ReconInv ==
    /\ Index(state.cloud) <= PutRecon
    /\ \A k \in 1..Len(queues.recon) : OnItsWay(queues.recon[k], state.cloud, PutRecon)
    /\ recon.pending # NoFrame => OnItsWay(recon.pending, state.cloud, PutRecon)
    /\ recon.pc = "infer" =>
          /\ recon.pending = NoFrame
          /\ OnItsWay(recon.frame, state.cloud, PutRecon)
          /\ \A k \in 1..Len(queues.recon) : recon.frame.i < queues.recon[k].i

\* What has been judged is never newer than what there is.
VersionInv ==
    /\ state.safetyVersion <= safety.handled /\ safety.handled <= state.version
    /\ safety.pc \in {"check", "align"} =>
          safety.handled <= safety.version /\ safety.version <= state.version
    /\ state.peopleVersion <= state.version
    /\ people.pc = "store" =>
          state.peopleVersion <= people.version /\ people.version <= state.version

Perceived == IF mode = "safety" THEN state.perception ELSE state.latest
Judged ==
    IF mode = "safety" THEN state.safetyVersion = state.version
    ELSE state.peopleVersion = state.version

\* The renderer's snapshot may be old, but if the frames in it are still the newest
\* so is the judgement.
RendererInv ==
    /\ renderer.pc = "check" =>
          /\ renderer.seen \in Seen
          /\ renderer.seen.last <= Index(Perceived)
          /\ renderer.seen.cloud <= Index(state.cloud)
          /\ renderer.seen.handled /\ renderer.seen.cloud = Index(state.cloud) => Judged
    /\ renderer.pc = "finish" =>
          /\ run.complete /\ Judged
          /\ Index(Perceived) = source.index /\ Index(state.cloud) = source.index

QuietInv == RunTypes /\ ThreadTypes /\ CaptureInv /\ FastInv /\ ReconInv /\ VersionInv /\ RendererInv
EndInv == Bounded /\ (Untroubled => QuietInv)

-----------------------------------------------------------------------------
(***************************************************************************)
(* Incidents are counted: a run that is untroubled now always was.         *)
(***************************************************************************)
LEMMA OpenedIsSource ==
    ASSUME NEW s \in Sources
    PROVE  /\ Player!Opened(s) \in Sources /\ Player!Opened(s).length = s.length
           /\ Player!Closed(s) \in Sources /\ Player!Closed(s).length = s.length
<1>1. Player!Opened(s) \in Sources /\ Player!Opened(s).length = s.length
  <2> DEFINE o == Player!Opened(s)
  <2>1. o = [s EXCEPT !.open = TRUE, !.index = -1, !.next = 0, !.delay = MinDelay,
                      !.state = "running"]
    BY DEF Player!Opened
  <2>2. /\ DOMAIN o = {"kind", "loop", "length", "state", "open", "index", "next", "delay"}
        /\ o = [k \in DOMAIN o |-> o[k]]
    BY <2>1 DEF Sources
  <2>3. /\ o.open = TRUE /\ o.index = -1 /\ o.next = 0 /\ o.delay = MinDelay
        /\ o.state = "running" /\ o.kind = s.kind /\ o.loop = s.loop /\ o.length = s.length
    BY <2>1 DEF Sources
  <2> HIDE DEF o
  <2>4. -1 \in Int /\ 0 \in Int
    OBVIOUS
  <2>5. QED BY <2>2, <2>3, <2>4 DEF Sources, Player!States, o
<1>2. Player!Closed(s) \in Sources /\ Player!Closed(s).length = s.length
  BY DEF Player!Closed, Sources, Player!States
<1>3. QED BY <1>1, <1>2

LEMMA FreshIsSource ==
    ASSUME NEW n \in Nat \ {0}
    PROVE  Player!Fresh("file", FALSE, n) \in Sources
           /\ Player!Fresh("file", FALSE, n).length = n
  BY DEF Player!Fresh, Sources, Player!States

\* What reading the file at its position does: nothing of a network remains.
LEMMA ReadOutcome ==
    ASSUME source \in Sources, NEW frame, Player!Read(frame)
    PROVE  /\ source.state = "running"
           /\ \/ /\ source.next < source.length /\ frame = source.index + 1
                 /\ source' = [source EXCEPT !.index = @ + 1, !.next = @ + 1]
              \/ /\ source.next >= source.length /\ frame = NoFrame
                 /\ source' = [source EXCEPT !.state = "ended"]
<1>1. source.kind = "file" /\ source.loop = FALSE /\ source.delay = MinDelay
      /\ source.state = "running"
  BY DEF Sources, Player!Read
<1>2. Player!Grab(source, frame)
  BY <1>1 DEF Player!Read
<1>3. CASE Player!GrabFrame(source, frame)
  BY <1>1, <1>3 DEF Player!GrabFrame, Player!Decoded, Player!Live, Sources
<1>4. CASE Player!GrabNothing(source, frame)
  BY <1>1, <1>4 DEF Player!GrabNothing
<1>5. QED BY <1>1, <1>2, <1>3, <1>4 DEF Player!Grab

\* Whatever the step, the source stays a file of its length.
SourceKept == source' \in Sources /\ source'.length = source.length

LEMMA ReadKeepsSource ==
    ASSUME source \in Sources, NEW frame, Player!Read(frame)
    PROVE  SourceKept
<1>1. source.index + 1 \in Int /\ source.next + 1 \in Int
  BY DEF Sources
<1>2. CASE source' = [source EXCEPT !.index = @ + 1, !.next = @ + 1]
  BY <1>1, <1>2 DEF SourceKept, Sources
<1>3. CASE source' = [source EXCEPT !.state = "ended"]
  BY <1>3 DEF SourceKept, Sources, Player!States
<1>4. QED BY <1>2, <1>3, ReadOutcome

LEMMA CommandKeepsSource ==
    ASSUME source \in Sources,
           PauseSource \/ ResumeSource \/ StopSource \/ RestartSource \/ SeekSource
               \/ StartSource
    PROVE  SourceKept
<1>1. CASE PauseSource \/ ResumeSource
  BY <1>1 DEF PauseSource, ResumeSource, Player!Pause, Player!Resume, SourceKept, Sources,
              Player!States
<1>2. CASE StopSource
  BY <1>2, OpenedIsSource DEF StopSource, Player!Stop, SourceKept
<1>3. CASE RestartSource
  BY <1>3, OpenedIsSource DEF RestartSource, SourceKept
<1>4. CASE SeekSource
  <2>1. PICK position \in 0 .. source.length - 1 :
          source' = [source EXCEPT !.next = position, !.index = position - 1]
    BY <1>4 DEF SeekSource, Player!Seek
  <2>2. position \in Int /\ position - 1 \in Int
    BY <2>1
  <2>3. QED BY <2>1, <2>2 DEF SourceKept, Sources
<1>5. CASE StartSource
  <2>1. source.length \in Nat \ {0}
    BY DEF Sources
  <2>2. /\ Player!Fresh("file", FALSE, source.length) \in Sources
        /\ Player!Fresh("file", FALSE, source.length).length = source.length
    BY <2>1, FreshIsSource
  <2>3. source' = Player!Opened(Player!Fresh("file", FALSE, source.length))
    BY <1>5 DEF StartSource
  <2>4. QED BY <2>2, <2>3, OpenedIsSource DEF SourceKept
<1>6. QED BY <1>1, <1>2, <1>3, <1>4, <1>5

LEMMA CaptureKeepsSource ==
    ASSUME source \in Sources, Capture
    PROVE  SourceKept
<1>1. CASE CaptureRead \/ CaptureFindsEnd
  BY <1>1, ReadKeepsSource DEF CaptureRead, CaptureFindsEnd
<1>2. CASE CaptureCounts
  <2>1. source' = source \/ source' = Player!Closed(source)
    BY <1>2 DEF CaptureCounts
  <2>2. QED BY <2>1, OpenedIsSource DEF SourceKept
<1>3. CASE UNCHANGED source
  BY <1>3 DEF SourceKept
<1>4. QED
  BY <1>1, <1>2, <1>3 DEF Capture, CaptureSeesEnd, CaptureReportsEnd, CaptureClears,
     CaptureResets, CapturePuts, CapturePuts3d, CaptureStores

\* A command or a failed inference is an incident.
Incident ==
    \/ PauseSource \/ StopSource \/ RestartSource \/ SeekSource \/ StartSource
    \/ ReconFails

LEMMA IncidentsCount ==
    ASSUME Bounded, [Next]_vars
    PROVE  /\ SourceKept /\ mode' = mode
           /\ IF Incident THEN left > 0 /\ left' = left - 1 ELSE left' = left
<1> USE DEF Incident
<1>1. CASE Capture
  <2>1. UNCHANGED <<mode, left>>
    BY <1>1 DEF Capture, CaptureRead, CaptureFindsEnd, CaptureSeesEnd, CaptureReportsEnd,
       CaptureClears, CaptureResets, CapturePuts, CapturePuts3d, CaptureStores,
       CaptureCounts, CaptureStep
  <2>2. Incident => left' = left - 1
    BY DEF PauseSource, StopSource, RestartSource, SeekSource, StartSource, Command,
       ReconFails
  <2>3. left' = left /\ left \in Nat
    BY <2>1 DEF Bounded
  <2> HIDE DEF Incident
  <2>4. ~Incident
    BY <2>2, <2>3
  <2>5. QED BY <1>1, <2>1, <2>4, CaptureKeepsSource DEF Bounded
<1>2. CASE PauseSource \/ StopSource \/ RestartSource \/ SeekSource \/ StartSource
  <2>1. mode' = mode /\ left > 0 /\ left' = left - 1
    BY <1>2 DEF PauseSource, StopSource, RestartSource, SeekSource, StartSource, Command
  <2>2. QED BY <1>2, <2>1, CommandKeepsSource DEF Bounded
<1>3. CASE ReconFails
  BY <1>3 DEF ReconFails, SourceKept, Bounded
<1>4. CASE ~Incident /\ ~Capture
  <2>1. UNCHANGED <<mode, left>>
    BY <1>4 DEF Next, vars, FastTakes, FastAppends, Recon, ReconTakes, ReconStores,
       PeopleLooks, PeopleStores, Safety, SafetyLooks, SafetyChecks, SafetyAligns,
       SafetyDecides, SafetyStep, Renderer, RendererLooks, RendererChecks,
       RendererFinishes, Gui, GuiClears, GuiResets, GuiStep, ResumeSource
  <2>2. ResumeSource \/ UNCHANGED source
    BY <1>4 DEF Next, vars, FastTakes, FastAppends, Recon, ReconTakes, ReconStores,
       PeopleLooks, PeopleStores, Safety, SafetyLooks, SafetyChecks, SafetyAligns,
       SafetyDecides, SafetyStep, Renderer, RendererLooks, RendererChecks,
       RendererFinishes, Gui, GuiClears, GuiResets, GuiStep
  <2>3. SourceKept
    BY <2>2, CommandKeepsSource DEF SourceKept, Bounded
  <2>4. QED BY <1>4, <2>1, <2>3
<1>5. QED BY <1>1, <1>2, <1>3, <1>4

LEMMA BoundedInit == Init => Bounded
<1> SUFFICES ASSUME Init PROVE Bounded
  OBVIOUS
<1>1. PICK plan \in Plans :
        /\ mode = plan.mode /\ left = plan.incidents
        /\ source = Player!Opened(Player!Fresh("file", FALSE, plan.length))
  BY DEF Init
<1>2. plan.length \in Nat \ {0} /\ plan.mode \in {"safety", "reconstruction"}
      /\ plan.incidents \in Nat
  BY PipelineAssumption
<1>3. source \in Sources /\ source.length = plan.length
  BY <1>1, <1>2, FreshIsSource, OpenedIsSource
<1>4. \A other \in Plans :
         other.mode = mode /\ other.length = source.length => left = other.incidents
  BY <1>1, <1>3, PipelineAssumption
<1>5. \A other \in Plans : other.incidents \in Nat
  BY PipelineAssumption
<1>6. \A other \in Plans :
         other.mode = mode /\ other.length = source.length => left <= other.incidents
  BY <1>4, <1>5
<1>7. \E other \in Plans : other.mode = mode /\ other.length = source.length
  BY <1>1, <1>3
<1>8. QED BY <1>1, <1>2, <1>3, <1>6, <1>7 DEF Bounded

LEMMA BoundedStep ==
    ASSUME Bounded, [Next]_vars
    PROVE  Bounded' /\ (Untroubled' => Untroubled /\ ~Incident)
<1>1. /\ SourceKept /\ mode' = mode
      /\ IF Incident THEN left > 0 /\ left' = left - 1 ELSE left' = left
  BY IncidentsCount
<1>2. left \in Nat /\ left' \in Nat /\ left' <= left
  BY <1>1 DEF Bounded
<1>3. \A plan \in Plans : plan.incidents \in Nat
  BY PipelineAssumption
<1>4. Bounded'
  BY <1>1, <1>2, <1>3 DEF Bounded, SourceKept
<1>5. ASSUME Untroubled' PROVE Untroubled /\ ~Incident
  <2>1. PICK plan \in Plans : plan.mode = mode' /\ plan.length = source'.length
                              /\ left' = plan.incidents
    BY <1>5 DEF Untroubled
  <2>2. plan.mode = mode /\ plan.length = source.length /\ left <= plan.incidents
    BY <1>1, <2>1 DEF Bounded, SourceKept
  <2>3. left' = left
    BY <1>2, <1>3, <2>1, <2>2
  <2>4. ~Incident
    BY <1>1, <1>2, <2>3
  <2>5. QED BY <2>1, <2>2, <2>3, <2>4 DEF Untroubled
<1>6. QED BY <1>4, <1>5

-----------------------------------------------------------------------------
(***************************************************************************)
(* The parts of the invariant, as far as a step leaves them alone.         *)
(***************************************************************************)
LEMMA IndexOfFrame ==
    /\ \A f \in Frames : Index(f) = f.i /\ f.i \in Nat /\ f # NoFrame
    /\ Index(NoFrame) = -1
    /\ \A f \in Shown : Index(f) \in Int /\ -1 <= Index(f)
  BY NoFrameAssumption DEF Index, Frames, Shown

\* The numbers the invariant compares.
Numbers ==
    /\ source.index \in Int /\ PutFast \in Int /\ PutRecon \in Int
    /\ Index(state.latest) \in Int /\ Index(state.perception) \in Int
    /\ Index(state.cloud) \in Int
    /\ state.version \in Nat /\ state.safetyVersion \in Int /\ state.peopleVersion \in Int
    /\ run.final \in Int

LEMMA NumbersTyped == Bounded /\ RunTypes => Numbers
<1> SUFFICES ASSUME Bounded, RunTypes PROVE Numbers
  OBVIOUS
<1>1. source.index \in Int
  BY DEF Bounded, Sources
<1>2. state.latest \in Shown /\ state.perception \in Shown /\ state.cloud \in Shown
  BY DEF RunTypes
<1>3. QED BY <1>1, <1>2, IndexOfFrame DEF Numbers, PutFast, PutRecon, RunTypes

\* More may have been put; what is on its way stays so.
LEMMA StillOnItsWay ==
    ASSUME NEW frame, NEW shown, NEW a \in Int, NEW b \in Int, a <= b,
           OnItsWay(frame, shown, a)
    PROVE  OnItsWay(frame, shown, b)
  BY DEF OnItsWay, Frames

LEMMA FastStays ==
    ASSUME Numbers, Numbers', FastInv, PutFast <= PutFast', mode' = mode, fast' = fast,
           state'.perception = state.perception, queues'.fast = queues.fast
    PROVE  FastInv'
<1>1. PutFast \in Int /\ PutFast' \in Int
  BY DEF Numbers
<1>2. Index(state.perception) <= PutFast'
  BY <1>1 DEF FastInv, Numbers
<1>3. \A k \in 1..Len(queues.fast) : OnItsWay(queues.fast[k], state.perception, PutFast')
  BY <1>1, StillOnItsWay DEF FastInv
<1>4. fast.pc = "append" => OnItsWay(fast.frame, state.perception, PutFast')
  BY <1>1, StillOnItsWay DEF FastInv
<1>5. QED BY <1>2, <1>3, <1>4 DEF FastInv

LEMMA ReconStays ==
    ASSUME Numbers, Numbers', ReconInv, PutRecon <= PutRecon', recon' = recon,
           state'.cloud = state.cloud, queues'.recon = queues.recon
    PROVE  ReconInv'
<1>1. PutRecon \in Int /\ PutRecon' \in Int
  BY DEF Numbers
<1>2. Index(state.cloud) <= PutRecon'
  BY <1>1 DEF ReconInv, Numbers
<1>3. \A k \in 1..Len(queues.recon) : OnItsWay(queues.recon[k], state.cloud, PutRecon')
  BY <1>1, StillOnItsWay DEF ReconInv
<1>4. recon.pending # NoFrame => OnItsWay(recon.pending, state.cloud, PutRecon')
  BY <1>1, StillOnItsWay DEF ReconInv
<1>5. recon.pc = "infer" => OnItsWay(recon.frame, state.cloud, PutRecon')
  BY <1>1, StillOnItsWay DEF ReconInv
<1>6. QED BY <1>2, <1>3, <1>4, <1>5 DEF ReconInv

SameVersions ==
    /\ state'.version = state.version /\ state'.safetyVersion = state.safetyVersion
    /\ state'.peopleVersion = state.peopleVersion

LEMMA VersionsStay ==
    ASSUME VersionInv, SameVersions, UNCHANGED <<safety, people>>
    PROVE  VersionInv'
  BY DEF VersionInv, SameVersions

\* The renderer's view stays as true when only older frames were shown.
LEMMA RendererStays ==
    ASSUME Numbers, Numbers', RendererInv, SameVersions, UNCHANGED <<renderer, mode>>,
           state'.cloud = state.cloud, Index(Perceived) <= Index(Perceived)',
           renderer.pc = "finish" => /\ run'.complete /\ source'.index = source.index
                                     /\ Index(Perceived)' = Index(Perceived)
    PROVE  RendererInv'
<1>1. Judged' = Judged
  BY DEF Judged, SameVersions
<1>2. Index(Perceived) \in Int /\ Index(Perceived)' \in Int
  BY DEF Numbers, Perceived
<1>3. Index(state.cloud)' = Index(state.cloud)
  BY DEF Index
<1>4. CASE renderer.pc = "check"
  <2>1. renderer.seen.last \in Int
    BY <1>4 DEF RendererInv, Seen
  <2>2. QED BY <1>1, <1>2, <1>3, <1>4, <2>1 DEF RendererInv
<1>5. CASE renderer.pc # "check"
  BY <1>1, <1>3, <1>5 DEF RendererInv
<1>6. QED BY <1>4, <1>5

-----------------------------------------------------------------------------
(***************************************************************************)
(* Capture.                                                                *)
(***************************************************************************)
\* A step of capture that shows nothing and ends nothing.
LEMMA CaptureStays ==
    ASSUME Bounded, Bounded', QuietInv, RunTypes', ThreadTypes', CaptureInv',
           UNCHANGED <<mode, fast, recon, people, safety, renderer>>,
           state' = [state EXCEPT !.latest = state'.latest],
           renderer.pc = "finish" => /\ run'.complete /\ source'.index = source.index,
           run.complete => state'.latest = state.latest,
           queues'.fast = queues.fast, queues'.recon = queues.recon,
           PutFast <= PutFast', PutRecon <= PutRecon',
           mode # "safety" => Index(state.latest) <= Index(state.latest)'
    PROVE  QuietInv'
<1> USE DEF QuietInv
<1>1. Numbers /\ Numbers'
  BY NumbersTyped, PTL
<1>2. /\ state'.perception = state.perception /\ state'.cloud = state.cloud
      /\ SameVersions
  BY DEF RunTypes, SameVersions
<1>3. FastInv' /\ ReconInv' /\ VersionInv'
  BY <1>1, <1>2, FastStays, ReconStays, VersionsStay
<1>4. Index(Perceived) <= Index(Perceived)'
  BY <1>1, <1>2 DEF Perceived, Numbers, Bounded
<1>5. renderer.pc = "finish" => Index(Perceived)' = Index(Perceived)
  BY <1>2 DEF Perceived, RendererInv
<1>6. RendererInv'
  BY <1>1, <1>2, <1>4, <1>5, RendererStays
<1>7. QED BY <1>3, <1>6

LEMMA ReadKeepsQuiet ==
    ASSUME Bounded, Bounded', QuietInv, CaptureRead
    PROVE  QuietInv'
<1> USE DEF QuietInv
<1>1. PICK i \in 0 .. source.length - 1 :
        /\ Player!Read(i)
        /\ epoch' = IF i <= source.index THEN epoch + 1 ELSE epoch
        /\ capture' = [pc |-> IF i <= (IF capture.id = run.id THEN capture.last ELSE -1)
                              THEN "clear" ELSE FirstPut,
                       frame |-> [i |-> i, e |-> epoch'], last |-> i, id |-> run.id]
  BY DEF CaptureRead
<1>2. source \in Sources /\ source.length \in Nat /\ source.index \in Int
  BY DEF Bounded, Sources
<1>3. i \in Nat /\ i # NoFrame
  BY <1>1, <1>2, NoFrameAssumption
<1>4. /\ source.state = "running" /\ i = source.index + 1
      /\ source' = [source EXCEPT !.index = @ + 1, !.next = @ + 1]
      /\ source.next < source.length
  BY <1>1, <1>2, <1>3, ReadOutcome
<1>5. /\ source'.index = i /\ source'.next = source.next + 1 /\ source'.state = "running"
      /\ source'.length = source.length
  BY <1>2, <1>4 DEF Sources
<1>6. ~(i <= source.index)
  BY <1>2, <1>4
<1>7. epoch' = 0
  BY <1>1, <1>6 DEF RunTypes
<1>8. capture.last = source.index /\ capture.id = 0 /\ run.id = 0
  BY DEF CaptureInv, ThreadTypes, RunTypes
<1>9. capture' = [pc |-> FirstPut, frame |-> [i |-> i, e |-> 0], last |-> i, id |-> 0]
  BY <1>1, <1>6, <1>7, <1>8
<1>10. /\ UNCHANGED <<mode, run, state, queues, fast, recon, people, safety, renderer, gui>>
       /\ capture.pc = "read"
  BY DEF CaptureRead
<1>11. FirstPut = IF mode = "safety" THEN "put" ELSE "put3d"
  BY DEF FirstPut
<1>12. [i |-> i, e |-> 0] \in Frames /\ capture'.frame = [i |-> i, e |-> 0]
  BY <1>3, <1>9 DEF Frames
<1>13. RunTypes' /\ ThreadTypes'
  <2>1. capture' \in [pc : {"read", "put", "put3d", "store", "count", "ended"},
                      frame : Shown, last : Int, id : {0}]
    BY <1>3, <1>9, <1>11, <1>12 DEF Shown
  <2>2. QED BY <1>7, <1>10, <2>1 DEF RunTypes, ThreadTypes
<1>14. ~run.complete /\ renderer.pc # "finish"
  BY <1>4 DEF CaptureInv, RendererInv
<1>15. CaptureInv'
  <2>1. i < source.length /\ i >= 0 /\ source.index = i - 1
    BY <1>1, <1>2, <1>4
  <2>2. source.next + 1 = i + 1
    BY <1>4 DEF CaptureInv
  <2>3. Carrying' /\ ~Carrying /\ capture'.pc \in {"put", "put3d"} /\ capture'.last = i
        /\ (capture'.pc = "put" => mode = "safety")
    BY <1>9, <1>10, <1>11 DEF Carrying
  <2>4. Index(state'.latest) = source.index /\ run'.final = source.index
    BY <1>10, <2>3 DEF CaptureInv
  <2>5. QED BY <1>5, <1>10, <1>12, <1>14, <2>1, <2>2, <2>3, <2>4 DEF CaptureInv
<1>16. PutFast <= PutFast' /\ PutRecon <= PutRecon'
  BY <1>2, <1>4, <1>5, <1>10 DEF PutFast, PutRecon
<1>17. state' = [state EXCEPT !.latest = state'.latest]
  BY <1>10 DEF RunTypes
<1>18. Index(state.latest) <= Index(state.latest)'
  BY <1>10, NumbersTyped DEF Numbers
<1>19. QED
  BY <1>10, <1>13, <1>14, <1>15, <1>16, <1>17, <1>18, CaptureStays

LEMMA EndKeepsQuiet ==
    ASSUME Bounded, Bounded', QuietInv,
           CaptureFindsEnd \/ CaptureSeesEnd \/ CaptureReportsEnd
    PROVE  QuietInv'
<1> USE DEF QuietInv
<1>1. UNCHANGED <<mode, state, queues, epoch, fast, recon, people, safety, renderer, gui>>
  BY DEF CaptureFindsEnd, CaptureSeesEnd, CaptureReportsEnd, threads
<1>2. source \in Sources /\ source.index \in Int
  BY DEF Bounded, Sources
<1>3. capture.pc \in {"read", "ended"} /\ capture'.pc \in {"read", "ended"}
      /\ capture' = [capture EXCEPT !.pc = capture'.pc]
  BY DEF CaptureFindsEnd, CaptureSeesEnd, CaptureReportsEnd, threads, ThreadTypes
<1>4. source'.index = source.index /\ source'.next = source.next
      /\ source'.length = source.length /\ source'.state # "paused"
  <2>1. CASE CaptureFindsEnd
    <3>1. NoFrame # source.index + 1
      BY <1>2, NoFrameAssumption
    <3>2. source' = [source EXCEPT !.state = "ended"]
      BY <1>2, <2>1, <3>1, ReadOutcome DEF CaptureFindsEnd
    <3>3. QED BY <1>2, <3>2 DEF Sources
  <2>2. CASE UNCHANGED source
    BY <2>2 DEF CaptureInv
  <2>3. QED BY <2>1, <2>2 DEF CaptureSeesEnd, CaptureReportsEnd
<1>5. /\ run' = [run EXCEPT !.complete = run'.complete] /\ run'.complete \in BOOLEAN
      /\ run.complete => run'.complete
      /\ capture'.pc = "ended" => source'.state = "ended"
      /\ run'.complete => capture'.pc = "read" /\ source'.state # "running"
  <2>1. CASE CaptureFindsEnd
    <3>1. run' = run /\ capture' = capture /\ capture.pc = "read" /\ source.state = "running"
      BY <1>2, <2>1, ReadOutcome DEF CaptureFindsEnd, threads
    <3>2. QED BY <3>1 DEF CaptureInv, RunTypes
  <2>2. CASE CaptureSeesEnd
    BY <2>2 DEF CaptureSeesEnd, CaptureInv, RunTypes, ThreadTypes
  <2>3. CASE CaptureReportsEnd
    BY <2>3 DEF CaptureReportsEnd, CaptureInv, RunTypes, ThreadTypes
  <2>4. QED BY <2>1, <2>2, <2>3
<1>6. capture'.last = capture.last /\ ~Carrying /\ ~Carrying'
  BY <1>3 DEF ThreadTypes, Carrying
<1>7. run'.final = run.final
  BY <1>5 DEF RunTypes
<1>8. RunTypes' /\ ThreadTypes'
  BY <1>1, <1>3, <1>5 DEF RunTypes, ThreadTypes
<1>9. CaptureInv'
  BY <1>1, <1>3, <1>4, <1>5, <1>6, <1>7 DEF CaptureInv
<1>10. PutFast' = PutFast /\ PutRecon' = PutRecon
  BY <1>3, <1>4 DEF PutFast, PutRecon
<1>11. renderer.pc = "finish" => run'.complete
  BY <1>5 DEF RendererInv
<1>12. state' = [state EXCEPT !.latest = state'.latest]
  BY <1>1 DEF RunTypes
<1>13. Numbers
  BY NumbersTyped
<1>14. Index(state.latest) <= Index(state.latest)' /\ PutFast <= PutFast' /\ PutRecon <= PutRecon'
  BY <1>1, <1>10, <1>13 DEF Numbers
<1>15. QED
  BY <1>1, <1>4, <1>8, <1>9, <1>11, <1>12, <1>14, CaptureStays

\* A queue holds what it held, less the oldest, and the new item.
LEMMA PutHolds ==
    ASSUME NEW q \in Seq(Frames), NEW item \in Frames, NEW size \in Nat \ {0}
    PROVE  LET p == PutLatest(q, item, size) IN
           /\ p \in Seq(Frames)
           /\ \A k \in 1..Len(p) : p[k] = item \/ \E j \in 1..Len(q) : p[k] = q[j]
<1> DEFINE r == IF Len(q) >= size THEN Tail(q) ELSE q
<1>1. /\ r \in Seq(Frames)
      /\ \A k \in 1..Len(r) : \E j \in 1..Len(q) : r[k] = q[j]
  <2>1. CASE Len(q) >= size
    <3>1. q # <<>> /\ r = Tail(q)
      BY <2>1
    <3>2. \A k \in 1..Len(r) : r[k] = q[k + 1] /\ k + 1 \in 1..Len(q)
      BY <3>1
    <3>3. QED BY <3>1, <3>2
  <2>2. CASE ~(Len(q) >= size)
    BY <2>2
  <2>3. QED BY <2>1, <2>2
<1>2. PutLatest(q, item, size) = Append(r, item)
  BY DEF PutLatest
<1> HIDE DEF r
<1>3. /\ Append(r, item) \in Seq(Frames) /\ Len(Append(r, item)) = Len(r) + 1
      /\ \A k \in 1..Len(Append(r, item)) :
            Append(r, item)[k] = item \/ (k \in 1..Len(r) /\ Append(r, item)[k] = r[k])
  BY <1>1
<1>4. QED BY <1>1, <1>2, <1>3

\* A step of capture within the publication of one frame.
Carries ==
    /\ Carrying /\ capture' = [capture EXCEPT !.pc = capture'.pc]
    /\ UNCHANGED <<mode, source, run, epoch, fast, recon, people, safety, renderer, gui>>

LEMMA CarryingTypes ==
    ASSUME Bounded, QuietInv, Carries, capture'.pc \in {"put", "put3d", "store", "count"},
           capture'.pc = "put" => mode = "safety",
           state' = [state EXCEPT !.latest = state'.latest], state'.latest \in Shown,
           queues' \in [fast : Seq(Frames), recon : Seq(Frames)],
           Index(state'.latest) =
              IF capture'.pc \in {"put", "put3d", "store"} THEN source.index - 1
              ELSE source.index
    PROVE  /\ RunTypes' /\ ThreadTypes' /\ CaptureInv'
           /\ renderer.pc # "finish" /\ ~run.complete
           /\ capture.frame \in Frames /\ capture.frame.i = source.index
<1> USE DEF QuietInv
<1>1. RunTypes' /\ ThreadTypes'
  <2>1. RunTypes'
    BY DEF RunTypes, Carries
  <2>2. capture' \in [pc : {"read", "put", "put3d", "store", "count", "ended"},
                      frame : Shown, last : Int, id : {0}]
    BY DEF ThreadTypes, Carries
  <2>3. QED BY <2>1, <2>2 DEF ThreadTypes, Carries
<1>2. capture'.frame = capture.frame /\ capture'.last = capture.last
  BY DEF Carries, ThreadTypes
<1>3. CaptureInv'
  BY <1>2 DEF CaptureInv, Carries, Carrying
<1>4. ~run.complete /\ renderer.pc # "finish"
  BY DEF CaptureInv, Carries, Carrying, RendererInv
<1>5. QED BY <1>1, <1>3, <1>4 DEF CaptureInv, Carries

LEMMA PutKeepsQuiet ==
    ASSUME Bounded, Bounded', QuietInv, CapturePuts
    PROVE  QuietInv'
<1> USE DEF QuietInv
<1>1. /\ capture.pc = "put" /\ capture' = [capture EXCEPT !.pc = "put3d"]
      /\ UNCHANGED <<mode, source, run, state, epoch, fast, recon, people, safety, renderer,
                     gui>>
      /\ queues' = [queues EXCEPT !.fast = PutLatest(@, capture.frame, QueueSize)]
  BY DEF CapturePuts, CaptureStep
<1>2. capture'.pc = "put3d" /\ Carries
  BY <1>1 DEF Carries, Carrying, ThreadTypes
<1>3. capture.frame \in Frames /\ capture.frame.i = source.index
  BY <1>1 DEF CaptureInv, Carrying
<1>4. queues.fast \in Seq(Frames) /\ queues.recon \in Seq(Frames)
  BY DEF RunTypes
<1> DEFINE p == PutLatest(queues.fast, capture.frame, QueueSize)
<1>5. /\ p \in Seq(Frames)
      /\ \A k \in 1..Len(p) :
            p[k] = capture.frame \/ \E j \in 1..Len(queues.fast) : p[k] = queues.fast[j]
  BY <1>3, <1>4, PutHolds, PipelineAssumption
<1> HIDE DEF p
<1>6. queues'.fast = p /\ queues'.recon = queues.recon
      /\ queues' \in [fast : Seq(Frames), recon : Seq(Frames)]
  BY <1>1, <1>4, <1>5 DEF RunTypes, p
<1>7. /\ state' = [state EXCEPT !.latest = state'.latest] /\ state'.latest \in Shown
      /\ Index(state'.latest) = source.index - 1
  BY <1>1 DEF RunTypes, CaptureInv
<1>8. /\ RunTypes' /\ ThreadTypes' /\ CaptureInv' /\ renderer.pc # "finish"
  BY <1>2, <1>6, <1>7, CarryingTypes
<1>9. Numbers /\ Numbers'
  BY <1>8, NumbersTyped, PTL
<1>10. mode = "safety" /\ PutFast = source.index - 1 /\ PutFast' = source.index
       /\ PutRecon' = PutRecon
  BY <1>1, <1>2 DEF CaptureInv, PutFast, PutRecon
<1>11. Index(state.perception) <= source.index - 1 /\ Index(state.perception) \in Int
       /\ source.index \in Int
  BY <1>9, <1>10 DEF FastInv, Numbers
<1>12. \A j \in 1..Len(queues.fast) :
         /\ OnItsWay(queues.fast[j], state.perception, source.index)
         /\ fast.pc = "append" => fast.frame.i < queues.fast[j].i
  BY <1>10, <1>11, StillOnItsWay DEF FastInv
<1>13. fast.pc = "append" =>
         OnItsWay(fast.frame, state.perception, source.index) /\ fast.frame.i < source.index
  BY <1>10, <1>11 DEF FastInv, OnItsWay, Frames
<1>14. OnItsWay(capture.frame, state.perception, source.index)
  BY <1>3, <1>11 DEF OnItsWay
<1>15. \A k \in 1..Len(p) :
         /\ OnItsWay(p[k], state.perception, source.index)
         /\ fast.pc = "append" => fast.frame.i < p[k].i
  BY <1>3, <1>5, <1>12, <1>13, <1>14
<1>16. FastInv'
  BY <1>1, <1>6, <1>10, <1>11, <1>13, <1>15 DEF FastInv
<1>17. ReconInv'
  BY <1>1, <1>6, <1>9, <1>10, ReconStays DEF Numbers
<1>18. VersionInv'
  BY <1>1, VersionsStay DEF SameVersions
<1>19. RendererInv'
  BY <1>1, <1>8 DEF RendererInv, Perceived, Judged
<1>20. QED BY <1>8, <1>16, <1>17, <1>18, <1>19

LEMMA Put3dKeepsQuiet ==
    ASSUME Bounded, Bounded', QuietInv, CapturePuts3d
    PROVE  QuietInv'
<1> USE DEF QuietInv
<1>1. /\ capture.pc = "put3d" /\ capture' = [capture EXCEPT !.pc = "store"]
      /\ UNCHANGED <<mode, source, run, state, epoch, fast, recon, people, safety, renderer,
                     gui>>
      /\ queues' = [queues EXCEPT !.recon = PutLatest(@, capture.frame, QueueSize)]
  BY DEF CapturePuts3d, CaptureStep
<1>2. capture'.pc = "store" /\ Carries
  BY <1>1 DEF Carries, Carrying, ThreadTypes
<1>3. capture.frame \in Frames /\ capture.frame.i = source.index
  BY <1>1 DEF CaptureInv, Carrying
<1>4. queues.fast \in Seq(Frames) /\ queues.recon \in Seq(Frames)
  BY DEF RunTypes
<1> DEFINE p == PutLatest(queues.recon, capture.frame, QueueSize)
<1>5. /\ p \in Seq(Frames)
      /\ \A k \in 1..Len(p) :
            p[k] = capture.frame \/ \E j \in 1..Len(queues.recon) : p[k] = queues.recon[j]
  BY <1>3, <1>4, PutHolds, PipelineAssumption
<1> HIDE DEF p
<1>6. queues'.recon = p /\ queues'.fast = queues.fast
      /\ queues' \in [fast : Seq(Frames), recon : Seq(Frames)]
  BY <1>1, <1>4, <1>5 DEF RunTypes, p
<1>7. /\ state' = [state EXCEPT !.latest = state'.latest] /\ state'.latest \in Shown
      /\ Index(state'.latest) = source.index - 1
  BY <1>1 DEF RunTypes, CaptureInv
<1>8. /\ RunTypes' /\ ThreadTypes' /\ CaptureInv' /\ renderer.pc # "finish"
  BY <1>2, <1>6, <1>7, CarryingTypes
<1>9. Numbers /\ Numbers'
  BY <1>8, NumbersTyped, PTL
<1>10. PutRecon = source.index - 1 /\ PutRecon' = source.index /\ PutFast' = PutFast
  BY <1>1, <1>2 DEF PutFast, PutRecon
<1>11. Index(state.cloud) <= source.index - 1 /\ Index(state.cloud) \in Int
       /\ source.index \in Int
  BY <1>9, <1>10 DEF ReconInv, Numbers
<1>12. \A j \in 1..Len(queues.recon) :
         /\ OnItsWay(queues.recon[j], state.cloud, source.index)
         /\ recon.pc = "infer" => recon.frame.i < queues.recon[j].i
  BY <1>10, <1>11, StillOnItsWay DEF ReconInv
<1>13. /\ recon.pc = "infer" =>
            OnItsWay(recon.frame, state.cloud, source.index) /\ recon.frame.i < source.index
       /\ recon.pending # NoFrame => OnItsWay(recon.pending, state.cloud, source.index)
  BY <1>10, <1>11 DEF ReconInv, OnItsWay, Frames
<1>14. OnItsWay(capture.frame, state.cloud, source.index)
  BY <1>3, <1>11 DEF OnItsWay
<1>15. \A k \in 1..Len(p) :
         /\ OnItsWay(p[k], state.cloud, source.index)
         /\ recon.pc = "infer" => recon.frame.i < p[k].i
  BY <1>3, <1>5, <1>12, <1>13, <1>14
<1>16. ReconInv'
  BY <1>1, <1>6, <1>10, <1>11, <1>13, <1>15 DEF ReconInv
<1>17. FastInv'
  BY <1>1, <1>6, <1>9, <1>10, FastStays DEF Numbers
<1>18. VersionInv'
  BY <1>1, VersionsStay DEF SameVersions
<1>19. RendererInv'
  BY <1>1, <1>8 DEF RendererInv, Perceived, Judged
<1>20. QED BY <1>8, <1>16, <1>17, <1>18, <1>19

LEMMA StoreKeepsQuiet ==
    ASSUME Bounded, Bounded', QuietInv, CaptureStores
    PROVE  QuietInv'
<1> USE DEF QuietInv
<1>1. /\ capture.pc = "store" /\ capture' = [capture EXCEPT !.pc = "count"]
      /\ UNCHANGED <<mode, source, run, queues, epoch, fast, recon, people, safety, renderer,
                     gui>>
      /\ state' = [state EXCEPT !.latest = capture.frame]
  BY DEF CaptureStores, CaptureStep
<1>2. capture'.pc = "count" /\ Carries
  BY <1>1 DEF Carries, Carrying, ThreadTypes
<1>3. capture.frame \in Frames /\ capture.frame.i = source.index
  BY <1>1 DEF CaptureInv, Carrying
<1>4. /\ state' = [state EXCEPT !.latest = state'.latest] /\ state'.latest \in Shown
      /\ Index(state'.latest) = source.index
  BY <1>1, <1>3, IndexOfFrame DEF RunTypes, Shown
<1>5. queues' \in [fast : Seq(Frames), recon : Seq(Frames)]
  BY <1>1 DEF RunTypes
<1>6. /\ RunTypes' /\ ThreadTypes' /\ CaptureInv' /\ renderer.pc # "finish" /\ ~run.complete
  BY <1>2, <1>4, <1>5, CarryingTypes
<1>7. Numbers
  BY NumbersTyped
<1>8. PutFast' = PutFast /\ PutRecon' = PutRecon
  BY <1>1, <1>2 DEF PutFast, PutRecon
<1>9. Index(state.latest) = source.index - 1
  BY <1>1 DEF CaptureInv
<1>10. Index(state.latest) <= Index(state.latest)'
  <2>1. Index(state.latest)' = Index(state'.latest)
    BY DEF Index
  <2>2. QED BY <1>4, <1>7, <1>9, <2>1 DEF Numbers
<1>11. PutFast <= PutFast' /\ PutRecon <= PutRecon'
  BY <1>7, <1>8 DEF Numbers
<1>12. QED
  BY <1>1, <1>4, <1>6, <1>10, <1>11, CaptureStays

LEMMA CountKeepsQuiet ==
    ASSUME Bounded, Bounded', QuietInv, CaptureCounts
    PROVE  QuietInv'
<1> USE DEF QuietInv
<1> DEFINE last == run.limit # 0 /\ run.captured + 1 >= run.limit
<1>1. /\ capture.pc = "count" /\ capture' = [capture EXCEPT !.pc = "read", !.frame = NoFrame]
      /\ run' = [run EXCEPT !.captured = @ + 1, !.final = capture.frame.i,
                            !.complete = @ \/ last]
      /\ source' = IF last /\ capture.id = run.id THEN Player!Closed(source) ELSE source
      /\ UNCHANGED <<mode, state, queues, epoch, fast, recon, people, safety, renderer, gui>>
  BY DEF CaptureCounts
<1> HIDE DEF last
<1>2. capture.frame \in Frames /\ capture.frame.i = source.index /\ source.index \in Int
  BY <1>1 DEF CaptureInv, Carrying, Bounded, Sources
<1>3. ~run.complete /\ renderer.pc # "finish"
  BY <1>1 DEF CaptureInv, RendererInv
<1>4. capture.id = 0 /\ run.id = 0
  BY DEF ThreadTypes, RunTypes
<1>5. /\ run'.complete = last /\ run'.final = source.index
      /\ run' \in [id : {0}, complete : BOOLEAN, done : BOOLEAN, final : Int, captured : Nat,
                   limit : Nat]
  <2>1. run.captured + 1 \in Nat /\ last \in BOOLEAN /\ run.complete = FALSE
    BY <1>3 DEF RunTypes, last
  <2>2. QED BY <1>1, <1>2, <2>1 DEF RunTypes
<1>6. /\ source'.index = source.index /\ source'.next = source.next
      /\ source'.length = source.length /\ source'.state # "paused"
      /\ last => source'.state = "stopped"
  <2>1. CASE last
    <3>1. source' = [source EXCEPT !.open = FALSE, !.state = "stopped"]
      BY <1>1, <1>4, <2>1 DEF Player!Closed
    <3>2. QED BY <3>1 DEF Bounded, Sources
  <2>2. CASE ~last
    BY <1>1, <2>2 DEF CaptureInv
  <2>3. QED BY <2>1, <2>2
<1>7. capture'.pc = "read" /\ capture'.last = capture.last
      /\ capture' \in [pc : {"read", "put", "put3d", "store", "count", "ended"},
                       frame : Shown, last : Int, id : {0}]
  BY <1>1 DEF ThreadTypes, Shown
<1>8. RunTypes' /\ ThreadTypes'
  BY <1>1, <1>5, <1>7 DEF RunTypes, ThreadTypes
<1>9. CaptureInv'
  BY <1>1, <1>5, <1>6, <1>7 DEF CaptureInv, Carrying
<1>10. Numbers
  BY NumbersTyped
<1>11. PutFast' = PutFast /\ PutRecon' = PutRecon
  BY <1>1, <1>6, <1>7 DEF PutFast, PutRecon
<1>12. PutFast <= PutFast' /\ PutRecon <= PutRecon'
       /\ Index(state.latest) <= Index(state.latest)'
  BY <1>1, <1>10, <1>11 DEF Numbers
<1>13. state' = [state EXCEPT !.latest = state'.latest]
  BY <1>1 DEF RunTypes
<1>14. QED
  BY <1>1, <1>3, <1>8, <1>9, <1>12, <1>13, CaptureStays

-----------------------------------------------------------------------------
(***************************************************************************)
(* The two branches.                                                       *)
(***************************************************************************)
\* What a step of a branch leaves alone.
CaptureAlone ==
    /\ UNCHANGED <<mode, source, run, epoch, capture, gui>>
    /\ state'.latest = state.latest

LEMMA CaptureIsLeft ==
    ASSUME CaptureInv, CaptureAlone
    PROVE  CaptureInv' /\ PutFast' = PutFast /\ PutRecon' = PutRecon
  BY DEF CaptureInv, CaptureAlone, Carrying, Index, PutFast, PutRecon

LEMMA EmptyQueue == Drained \in Seq(Frames) /\ Drained = <<>>
<1>1. Drained = <<>>
  BY DEF Drained
<1>2. <<>> \in Seq(Frames)
  OBVIOUS
<1>3. QED BY <1>1, <1>2

LEMMA FastTakesQuiet ==
    ASSUME Bounded, Bounded', QuietInv, FastTakes
    PROVE  QuietInv'
<1> USE DEF QuietInv
<1>1. /\ mode = "safety" /\ fast.pc = "take" /\ queues.fast # <<>>
      /\ fast' = [pc |-> "append", frame |-> Latest(queues.fast)]
      /\ queues' = [queues EXCEPT !.fast = Drained]
      /\ UNCHANGED <<mode, source, run, state, epoch, capture, recon, people, safety,
                     renderer, gui>>
  BY DEF FastTakes
<1>2. CaptureInv' /\ PutFast' = PutFast /\ PutRecon' = PutRecon
  BY <1>1, CaptureIsLeft DEF CaptureAlone
<1>3. queues.fast \in Seq(Frames) /\ Len(queues.fast) \in 1..Len(queues.fast)
  BY <1>1 DEF RunTypes
<1>4. Latest(queues.fast) \in Frames
      /\ OnItsWay(Latest(queues.fast), state.perception, PutFast)
  BY <1>3 DEF Latest, FastInv
<1>5. queues'.fast = <<>> /\ queues'.recon = queues.recon
      /\ queues' \in [fast : Seq(Frames), recon : Seq(Frames)]
  BY <1>1, EmptyQueue DEF RunTypes
<1>6. RunTypes' /\ ThreadTypes'
  BY <1>1, <1>4, <1>5 DEF RunTypes, ThreadTypes, Shown
<1>7. Len(queues'.fast) = 0
  BY <1>5
<1>8. FastInv'
  BY <1>1, <1>2, <1>4, <1>7 DEF FastInv
<1>9. Numbers /\ Numbers'
  BY <1>6, NumbersTyped, PTL
<1>10. ReconInv'
  BY <1>1, <1>2, <1>5, <1>9, ReconStays DEF Numbers
<1>11. VersionInv' /\ RendererInv'
  BY <1>1 DEF VersionInv, RendererInv, Perceived, Judged
<1>12. QED BY <1>2, <1>6, <1>8, <1>10, <1>11

LEMMA FastAppendsQuiet ==
    ASSUME Bounded, Bounded', QuietInv, FastAppends
    PROVE  QuietInv'
<1> USE DEF QuietInv
<1>1. /\ fast.pc = "append" /\ fast' = [pc |-> "take", frame |-> NoFrame]
      /\ state' = [state EXCEPT !.perception = fast.frame]
      /\ UNCHANGED <<mode, source, run, queues, epoch, capture, recon, people, safety,
                     renderer, gui>>
  BY DEF FastAppends
<1>2. /\ state'.perception = fast.frame /\ state'.latest = state.latest
      /\ state'.cloud = state.cloud /\ SameVersions
  BY <1>1 DEF RunTypes, SameVersions
<1>3. CaptureInv' /\ PutFast' = PutFast /\ PutRecon' = PutRecon
  BY <1>1, <1>2, CaptureIsLeft DEF CaptureAlone
<1>4. fast.frame \in Frames /\ Index(state.perception) < fast.frame.i
      /\ fast.frame.i <= PutFast /\ mode = "safety"
  BY <1>1 DEF FastInv, OnItsWay, Bounded
<1>5. RunTypes' /\ ThreadTypes'
  <2>1. RunTypes'
    BY <1>1, <1>4 DEF RunTypes, Shown
  <2>2. fast' \in [pc : {"take", "append"}, frame : Shown]
    BY <1>1 DEF Shown
  <2>3. QED BY <1>1, <2>1, <2>2 DEF ThreadTypes
<1>6. Numbers /\ Numbers'
  BY <1>5, NumbersTyped, PTL
<1>7. Index(state'.perception) = fast.frame.i
  BY <1>2, <1>4, IndexOfFrame
<1>8. FastInv'
  <2>1. \A k \in 1..Len(queues.fast) : OnItsWay(queues.fast[k], state'.perception, PutFast)
    BY <1>1, <1>7 DEF FastInv, OnItsWay
  <2>2. Index(state'.perception) <= PutFast
    BY <1>4, <1>7
  <2>3. QED BY <1>1, <1>3, <1>4, <2>1, <2>2 DEF FastInv
<1>9. ReconInv' /\ VersionInv'
  BY <1>1, <1>2, <1>3, <1>6, ReconStays, VersionsStay DEF Numbers
<1>10. Index(Perceived) <= Index(Perceived)'
  <2>1. Perceived = state.perception /\ Perceived' = state'.perception
    BY <1>1, <1>4 DEF Perceived
  <2>2. Index(Perceived) = Index(state.perception) /\ Index(Perceived)' = fast.frame.i
    BY <1>7, <2>1 DEF Index
  <2>3. fast.frame.i \in Nat
    BY <1>4, IndexOfFrame
  <2>4. QED BY <1>4, <1>6, <2>2, <2>3 DEF Numbers
<1>11. renderer.pc # "finish"
  <2>1. renderer.pc = "finish" => Index(state.perception) = source.index
    BY <1>4 DEF RendererInv, Perceived
  <2>2. fast.frame.i <= source.index /\ fast.frame.i \in Nat
    BY <1>4, <1>6, IndexOfFrame DEF PutFast, Numbers
  <2>3. QED BY <1>4, <1>6, <2>1, <2>2 DEF Numbers
<1>12. RendererInv'
  BY <1>1, <1>2, <1>6, <1>10, <1>11, RendererStays
<1>13. QED BY <1>3, <1>5, <1>8, <1>9, <1>12

LEMMA ReconTakesQuiet ==
    ASSUME Bounded, Bounded', QuietInv, NEW due \in BOOLEAN, ReconTakes(due)
    PROVE  QuietInv'
<1> USE DEF QuietInv
<1> DEFINE frame == IF queues.recon # <<>> THEN Latest(queues.recon) ELSE recon.pending
<1>1. /\ recon.pc = "take" /\ (recon.pending # NoFrame \/ queues.recon # <<>>)
      /\ queues' = [queues EXCEPT !.recon = Drained]
      /\ UNCHANGED <<mode, source, run, state, epoch, capture, fast, people, safety,
                     renderer, gui>>
  BY DEF ReconTakes
<1>2. recon' = IF due THEN [recon EXCEPT !.pending = NoFrame, !.pc = "infer", !.frame = frame]
               ELSE [recon EXCEPT !.pending = frame]
  BY DEF ReconTakes, ThreadTypes
<1>3. CaptureInv' /\ PutFast' = PutFast /\ PutRecon' = PutRecon
  BY <1>1, CaptureIsLeft DEF CaptureAlone
<1>4. OnItsWay(frame, state.cloud, PutRecon) /\ frame \in Frames
  <2>1. CASE queues.recon # <<>>
    <3>1. queues.recon \in Seq(Frames) /\ Len(queues.recon) \in 1..Len(queues.recon)
      BY <2>1 DEF RunTypes
    <3>2. QED BY <2>1, <3>1 DEF Latest, ReconInv, OnItsWay
  <2>2. CASE queues.recon = <<>>
    BY <1>1, <2>2 DEF ReconInv, OnItsWay
  <2>3. QED BY <2>1, <2>2
<1> HIDE DEF frame
<1>5. queues'.recon = <<>> /\ queues'.fast = queues.fast
      /\ queues' \in [fast : Seq(Frames), recon : Seq(Frames)]
  BY <1>1, EmptyQueue DEF RunTypes
<1>6. /\ recon' \in [pc : {"take", "infer"}, frame : Shown, pending : Shown]
      /\ recon'.pc = "infer" => recon'.pending = NoFrame /\ recon'.frame = frame
      /\ recon'.pending \in {NoFrame, frame}
  BY <1>1, <1>2, <1>4 DEF ThreadTypes, Shown
<1>7. RunTypes' /\ ThreadTypes'
  BY <1>1, <1>5, <1>6 DEF RunTypes, ThreadTypes
<1>8. Numbers /\ Numbers'
  BY <1>7, NumbersTyped, PTL
<1>9. ReconInv'
  <2>1. Len(queues'.recon) = 0
    BY <1>5
  <2>2. QED BY <1>1, <1>3, <1>4, <1>6, <2>1 DEF ReconInv
<1>10. FastInv'
  BY <1>1, <1>3, <1>5, <1>8, FastStays DEF Numbers
<1>11. VersionInv' /\ RendererInv'
  BY <1>1 DEF VersionInv, RendererInv, Perceived, Judged
<1>12. QED BY <1>3, <1>7, <1>9, <1>10, <1>11

\* A cloud that is stored is newer than the one before: what the renderer has seen of
\* the older one no longer counts.
LEMMA ReconStoresQuiet ==
    ASSUME Bounded, Bounded', QuietInv, ReconStores
    PROVE  QuietInv'
<1> USE DEF QuietInv
<1>1. /\ recon.pc = "infer" /\ recon' = [recon EXCEPT !.pc = "take", !.frame = NoFrame]
      /\ state' = [state EXCEPT !.cloud = recon.frame, !.version = @ + 1]
      /\ UNCHANGED <<mode, source, run, queues, epoch, capture, fast, people, safety,
                     renderer, gui>>
  BY DEF ReconStores
<1>2. /\ state'.cloud = recon.frame /\ state'.version = state.version + 1
      /\ state'.latest = state.latest /\ state'.perception = state.perception
      /\ state'.safetyVersion = state.safetyVersion
      /\ state'.peopleVersion = state.peopleVersion
  BY <1>1 DEF RunTypes
<1>3. CaptureInv' /\ PutFast' = PutFast /\ PutRecon' = PutRecon
  BY <1>1, <1>2, CaptureIsLeft DEF CaptureAlone
<1>4. recon.frame \in Frames /\ Index(state.cloud) < recon.frame.i
      /\ recon.frame.i <= PutRecon /\ recon.pending = NoFrame
  BY <1>1 DEF ReconInv, OnItsWay
<1>5. RunTypes' /\ ThreadTypes'
  <2>1. state.version + 1 \in Nat /\ recon.frame \in Shown
    BY <1>4 DEF RunTypes, Shown
  <2>2. RunTypes'
    BY <1>1, <2>1 DEF RunTypes
  <2>3. recon' \in [pc : {"take", "infer"}, frame : Shown, pending : Shown]
    BY <1>1 DEF ThreadTypes, Shown
  <2>4. QED BY <1>1, <2>2, <2>3 DEF ThreadTypes
<1>6. Numbers /\ Numbers'
  BY <1>5, NumbersTyped, PTL
<1>7. Index(state'.cloud) = recon.frame.i /\ recon.frame.i \in Nat
  BY <1>2, <1>4, IndexOfFrame
<1>8. ReconInv'
  <2>1. \A k \in 1..Len(queues.recon) : OnItsWay(queues.recon[k], state'.cloud, PutRecon)
    BY <1>1, <1>7 DEF ReconInv, OnItsWay
  <2>2. Index(state'.cloud) <= PutRecon
    BY <1>4, <1>7
  <2>3. recon'.pc = "take" /\ recon'.pending = NoFrame
    BY <1>1, <1>4 DEF ThreadTypes
  <2>4. QED BY <1>1, <1>3, <2>1, <2>2, <2>3 DEF ReconInv
<1>9. FastInv'
  BY <1>1, <1>2, <1>3, <1>6, FastStays DEF Numbers
<1>10. VersionInv'
  <2>1. safety.handled \in Int /\ safety.version \in Nat /\ people.version \in Nat
    BY DEF ThreadTypes
  <2>2. QED BY <1>1, <1>2, <1>6, <2>1 DEF VersionInv, Numbers
<1>11. RendererInv'
  <2>1. CASE renderer.pc = "check"
    <3>1. /\ renderer.seen.cloud \in Int /\ renderer.seen.cloud <= Index(state.cloud)
          /\ renderer.seen \in Seen
      BY <2>1 DEF RendererInv, Seen
    <3>2. Index(state.cloud)' = recon.frame.i
      BY <1>7 DEF Index
    <3>3. renderer.seen.cloud < recon.frame.i
      BY <1>4, <1>6, <1>7, <3>1 DEF Numbers
    <3>4. Index(Perceived)' = Index(Perceived)
      BY <1>1, <1>2 DEF Perceived
    <3>5. QED BY <1>1, <1>7, <2>1, <3>1, <3>2, <3>3, <3>4 DEF RendererInv
  <2>2. CASE renderer.pc = "finish"
    <3>1. Index(state.cloud) = source.index
      BY <2>2 DEF RendererInv
    <3>2. recon.frame.i <= source.index
      BY <1>4, <1>6, <1>7 DEF PutRecon, Numbers
    <3>3. FALSE
      BY <1>4, <1>6, <1>7, <3>1, <3>2 DEF Numbers
    <3>4. QED BY <3>3
  <2>3. QED BY <1>1, <2>1, <2>2 DEF RendererInv
<1>12. QED BY <1>3, <1>5, <1>8, <1>9, <1>10, <1>11

-----------------------------------------------------------------------------
(***************************************************************************)
(* Who judges, and who decides that the run is over.                       *)
(***************************************************************************)
\* A step that moves no frame: only judgements change.
LEMMA JudgesMoveNoFrame ==
    ASSUME Bounded, Bounded', QuietInv, CaptureAlone, RunTypes',
           UNCHANGED <<queues, fast, recon, renderer>>,
           state'.perception = state.perception, state'.cloud = state.cloud
    PROVE  /\ CaptureInv' /\ FastInv' /\ ReconInv'
           /\ (Judged => Judged') => RendererInv'
<1> USE DEF QuietInv
<1>1. CaptureInv' /\ PutFast' = PutFast /\ PutRecon' = PutRecon
  BY CaptureIsLeft
<1>2. Numbers /\ Numbers'
  BY NumbersTyped, PTL
<1>3. FastInv' /\ ReconInv'
  BY <1>1, <1>2, FastStays, ReconStays DEF Numbers, CaptureAlone
<1>4. Index(Perceived)' = Index(Perceived) /\ Index(state.cloud)' = Index(state.cloud)
  BY DEF Perceived, Index, CaptureAlone
<1>5. ASSUME Judged => Judged' PROVE RendererInv'
  BY <1>4, <1>5 DEF RendererInv, CaptureAlone
<1>6. QED BY <1>1, <1>3, <1>5

LEMMA PeopleKeepQuiet ==
    ASSUME Bounded, Bounded', QuietInv, PeopleLooks \/ PeopleStores
    PROVE  QuietInv'
<1> USE DEF QuietInv
<1>1. UNCHANGED <<mode, source, run, queues, epoch, capture, fast, recon, safety, renderer,
                  gui>>
  BY DEF PeopleLooks, PeopleStores
<1>2. /\ people.version \in Nat /\ people.handled \in Int /\ state.version \in Nat
      /\ state.peopleVersion \in Int
  BY DEF ThreadTypes, RunTypes
<1>3. CASE PeopleLooks
  <2>1. state' = state /\ people' = [people EXCEPT !.pc = "store", !.version = state.version]
    BY <1>3 DEF PeopleLooks
  <2>2. RunTypes' /\ ThreadTypes'
    <3>1. people' \in [pc : {"look", "store"}, version : Nat, handled : Int]
      BY <1>2, <2>1 DEF ThreadTypes
    <3>2. QED BY <1>1, <2>1, <3>1 DEF RunTypes, ThreadTypes
  <2>3. people'.version = state.version
    BY <2>1 DEF ThreadTypes
  <2>4. VersionInv'
    BY <1>1, <1>2, <2>1, <2>3 DEF VersionInv
  <2>5. QED
    BY <1>1, <2>1, <2>2, <2>4, JudgesMoveNoFrame DEF CaptureAlone, Judged
<1>4. CASE PeopleStores
  <2>1. /\ people.pc = "store"
        /\ people' = [pc |-> "look", version |-> 0, handled |-> people.version]
        /\ state' = [state EXCEPT !.peopleVersion = people.version]
    BY <1>4 DEF PeopleStores
  <2>2. RunTypes' /\ ThreadTypes'
    <3>1. RunTypes'
      BY <1>1, <1>2, <2>1 DEF RunTypes
    <3>2. people' \in [pc : {"look", "store"}, version : Nat, handled : Int]
      BY <1>2, <2>1
    <3>3. QED BY <1>1, <3>1, <3>2 DEF ThreadTypes
  <2>3. /\ state'.peopleVersion = people.version /\ state'.version = state.version
        /\ state'.safetyVersion = state.safetyVersion /\ state'.latest = state.latest
        /\ state'.perception = state.perception /\ state'.cloud = state.cloud
    BY <2>1 DEF RunTypes
  <2>4. VersionInv'
    BY <1>1, <1>2, <2>1, <2>3 DEF VersionInv
  <2>5. Judged => Judged'
    BY <1>1, <1>2, <2>1, <2>3 DEF Judged, VersionInv
  <2>6. QED
    BY <1>1, <2>2, <2>3, <2>4, <2>5, JudgesMoveNoFrame DEF CaptureAlone
<1>5. QED BY <1>3, <1>4

LEMMA SafetyKeepsQuiet ==
    ASSUME Bounded, Bounded', QuietInv, Safety
    PROVE  QuietInv'
<1> USE DEF QuietInv
<1>1. UNCHANGED <<mode, source, run, queues, epoch, capture, fast, recon, people, renderer,
                  gui>>
  BY DEF Safety, SafetyLooks, SafetyChecks, SafetyAligns, SafetyDecides, SafetyStep
<1>2. /\ safety.version \in Nat /\ safety.handled \in Int /\ state.version \in Nat
      /\ state.safetyVersion \in Int /\ safety.resets = state.resets
  BY DEF ThreadTypes, RunTypes
<1>3. ASSUME state' = state, VersionInv',
             safety' \in [pc : {"tick", "check", "align", "decide", "dead"}, version : Nat,
                          handled : Int, resets : {0}]
      PROVE  QuietInv'
  <2>1. RunTypes' /\ ThreadTypes'
    BY <1>1, <1>3 DEF RunTypes, ThreadTypes
  <2>2. QED
    BY <1>1, <1>3, <2>1, JudgesMoveNoFrame DEF CaptureAlone, Judged
<1>4. CASE SafetyLooks
  <2>1. state' = state /\ safety' = [safety EXCEPT !.pc = "check", !.version = state.version]
    BY <1>4 DEF SafetyLooks
  <2>2. safety' \in [pc : {"tick", "check", "align", "decide", "dead"}, version : Nat,
                     handled : Int, resets : {0}]
    BY <1>2, <2>1 DEF ThreadTypes
  <2>3. safety'.handled = safety.handled /\ safety'.version = state.version
    BY <2>1 DEF ThreadTypes
  <2>4. VersionInv'
    BY <1>1, <1>2, <2>1, <2>3 DEF VersionInv
  <2>5. QED BY <1>3, <2>1, <2>2, <2>4
<1>5. CASE SafetyChecks
  <2>1. state' = state /\ safety.pc = "check"
        /\ safety'.pc \in {"align", "decide"}
        /\ safety' = [safety EXCEPT !.pc = safety'.pc]
    BY <1>2, <1>5 DEF SafetyChecks, SafetyStep, ThreadTypes
  <2>2. safety' \in [pc : {"tick", "check", "align", "decide", "dead"}, version : Nat,
                     handled : Int, resets : {0}]
    BY <2>1 DEF ThreadTypes
  <2>3. safety'.handled = safety.handled /\ safety'.version = safety.version
    BY <2>1 DEF ThreadTypes
  <2>4. VersionInv'
    BY <1>1, <2>1, <2>3 DEF VersionInv
  <2>5. QED BY <1>3, <2>1, <2>2, <2>4
<1>6. CASE SafetyAligns
  <2>1. /\ state' = state /\ safety.pc = "align"
        /\ \/ safety' = [safety EXCEPT !.pc = "dead"]
           \/ safety' = [safety EXCEPT !.pc = "decide", !.handled = safety.version]
    BY <1>6 DEF SafetyAligns, SafetyStep
  <2>2. safety' \in [pc : {"tick", "check", "align", "decide", "dead"}, version : Nat,
                     handled : Int, resets : {0}]
    <3>1. safety.version \in Int
      BY <1>2
    <3>2. CASE safety' = [safety EXCEPT !.pc = "dead"]
      BY <3>2 DEF ThreadTypes
    <3>3. CASE safety' = [safety EXCEPT !.pc = "decide", !.handled = safety.version]
      BY <3>1, <3>3 DEF ThreadTypes
    <3>4. QED BY <2>1, <3>2, <3>3
  <2>3. safety'.handled \in {safety.handled, safety.version} /\ safety'.pc \in {"dead", "decide"}
    BY <2>1 DEF ThreadTypes
  <2>4. VersionInv'
    BY <1>1, <1>2, <2>1, <2>3 DEF VersionInv
  <2>5. QED BY <1>3, <2>1, <2>2, <2>4
<1>7. CASE SafetyDecides
  <2>1. /\ safety' = [safety EXCEPT !.pc = "tick", !.version = 0]
        /\ state' = [state EXCEPT !.safety = TRUE, !.safetyVersion = safety.handled]
    BY <1>7 DEF SafetyDecides
  <2>2. RunTypes' /\ ThreadTypes'
    <3>1. RunTypes'
      BY <1>1, <1>2, <2>1 DEF RunTypes
    <3>2. safety' \in [pc : {"tick", "check", "align", "decide", "dead"}, version : Nat,
                       handled : Int, resets : {0}]
      BY <2>1 DEF ThreadTypes
    <3>3. QED BY <1>1, <3>1, <3>2 DEF ThreadTypes
  <2>3. /\ state'.safetyVersion = safety.handled /\ state'.version = state.version
        /\ state'.peopleVersion = state.peopleVersion /\ state'.latest = state.latest
        /\ state'.perception = state.perception /\ state'.cloud = state.cloud
        /\ safety'.handled = safety.handled /\ safety'.pc = "tick"
    BY <2>1 DEF RunTypes, ThreadTypes
  <2>4. VersionInv'
    BY <1>1, <1>2, <2>3 DEF VersionInv
  <2>5. Judged => Judged'
    BY <1>1, <1>2, <2>3 DEF Judged, VersionInv
  <2>6. QED
    BY <1>1, <2>2, <2>3, <2>4, <2>5, JudgesMoveNoFrame DEF CaptureAlone
<1>8. QED BY <1>4, <1>5, <1>6, <1>7 DEF Safety

LEMMA RendererKeepsQuiet ==
    ASSUME Bounded, Bounded', QuietInv, Renderer
    PROVE  QuietInv'
<1> USE DEF QuietInv
<1>1. UNCHANGED <<mode, source, state, queues, epoch, capture, fast, recon, people, safety,
                  gui>>
  BY DEF Renderer, RendererLooks, RendererChecks, RendererFinishes
<1>2. run' = run \/ run' = [run EXCEPT !.done = TRUE]
  BY DEF Renderer, RendererLooks, RendererChecks, RendererFinishes
<1>3. RunTypes' /\ run'.final = run.final /\ run'.complete = run.complete
  <2>1. run' \in [id : {0}, complete : BOOLEAN, done : BOOLEAN, final : Int, captured : Nat,
                  limit : Nat]
    BY <1>2 DEF RunTypes
  <2>2. run'.final = run.final /\ run'.complete = run.complete
    BY <1>2 DEF RunTypes
  <2>3. QED BY <1>1, <2>1, <2>2 DEF RunTypes
<1>4. CaptureInv' /\ PutFast' = PutFast /\ PutRecon' = PutRecon
  BY <1>1, <1>3 DEF CaptureInv, Carrying, Index, PutFast, PutRecon
<1>5. FastInv' /\ ReconInv' /\ VersionInv'
  BY <1>1, <1>4 DEF FastInv, ReconInv, VersionInv, OnItsWay, Index
<1>6. Numbers
  BY NumbersTyped
<1>7. Judged' = Judged /\ Perceived' = Perceived /\ Index(Perceived)' = Index(Perceived)
      /\ Index(state.cloud)' = Index(state.cloud)
  BY <1>1 DEF Judged, Perceived, Index
<1>8. CASE RendererLooks
  <2>1. renderer' = [pc |-> "check", seen |-> Snapshot]
    BY <1>8 DEF RendererLooks
  <2>2. /\ Snapshot.last = Index(Perceived) /\ Snapshot.cloud = Index(state.cloud)
        /\ Snapshot \in Seen
    <3>1. Index(Perceived) \in Int /\ Index(state.cloud) \in Int
      BY <1>6 DEF Numbers, Perceived
    <3>2. Snapshot.handled \in BOOLEAN
      <4>1. CASE mode = "safety"
        <5>1. Snapshot.handled = (state.safety /\ state.safetyVersion >= state.version)
          BY <4>1 DEF Snapshot
        <5>2. QED BY <5>1
      <4>2. CASE mode # "safety"
        <5>1. Snapshot.handled = (state.peopleVersion >= state.version)
          BY <4>2 DEF Snapshot
        <5>2. QED BY <5>1
      <4>3. QED BY <4>1, <4>2
    <3>3. Snapshot = [last |-> Snapshot.last, cloud |-> Snapshot.cloud,
                      handled |-> Snapshot.handled]
      BY DEF Snapshot
    <3>4. Snapshot.last = Index(Perceived) /\ Snapshot.cloud = Index(state.cloud)
      BY DEF Snapshot, Perceived
    <3> HIDE DEF Snapshot
    <3>5. QED BY <3>1, <3>2, <3>3, <3>4 DEF Seen
  <2>3. Snapshot.handled => Judged
    <3>1. safety.handled \in Int
      BY DEF ThreadTypes
    <3>2. state.safetyVersion <= state.version /\ state.peopleVersion <= state.version
      BY <1>6, <3>1 DEF VersionInv, Numbers
    <3>3. CASE mode = "safety"
      <4>1. Snapshot.handled => state.safetyVersion >= state.version
        BY <3>3 DEF Snapshot
      <4>2. QED BY <1>6, <3>2, <3>3, <4>1 DEF Judged, Numbers
    <3>4. CASE mode # "safety"
      <4>1. Snapshot.handled => state.peopleVersion >= state.version
        BY <3>4 DEF Snapshot
      <4>2. QED BY <1>6, <3>2, <3>4, <4>1 DEF Judged, Numbers
    <3>5. QED BY <3>3, <3>4
  <2>4. ThreadTypes'
    BY <1>1, <2>1, <2>2 DEF ThreadTypes
  <2>5. RendererInv'
    <3>1. Index(Perceived) \in Int /\ Index(state.cloud) \in Int
      BY <1>6 DEF Numbers, Perceived
    <3>2. QED BY <1>7, <2>1, <2>2, <2>3, <3>1 DEF RendererInv
  <2>6. QED BY <1>3, <1>4, <1>5, <2>4, <2>5
<1>9. CASE RendererChecks
  <2>1. /\ renderer.pc = "check" /\ run' = run
        /\ renderer' = [pc |-> IF Over(renderer.seen) THEN "finish" ELSE "look",
                        seen |-> NoFrame]
    BY <1>9 DEF RendererChecks
  <2>2. ThreadTypes'
    BY <1>1, <2>1 DEF ThreadTypes
  <2>3. ASSUME Over(renderer.seen)
        PROVE  /\ run.complete /\ Judged
               /\ Index(Perceived) = source.index /\ Index(state.cloud) = source.index
    <3>1. run.complete /\ renderer.seen.handled /\ renderer.seen.last >= run.final
          /\ renderer.seen.cloud >= run.final
      BY <2>3 DEF Over
    <3>2. capture.pc = "read" /\ run.final = source.index
      BY <3>1 DEF CaptureInv, Carrying
    <3>3. renderer.seen.last \in Int /\ renderer.seen.cloud \in Int
          /\ renderer.seen.last <= Index(Perceived)
          /\ renderer.seen.cloud <= Index(state.cloud)
      BY <2>1 DEF RendererInv, Seen
    <3>4. Index(state.cloud) <= source.index /\ Index(Perceived) <= source.index
      BY <1>6, <3>2
         DEF ReconInv, FastInv, CaptureInv, PutFast, PutRecon, Perceived, Numbers
    <3>5. Index(state.cloud) = source.index /\ Index(Perceived) = source.index
          /\ renderer.seen.cloud = Index(state.cloud)
      BY <1>6, <3>1, <3>2, <3>3, <3>4 DEF Numbers, Perceived
    <3>6. QED BY <2>1, <3>1, <3>5 DEF RendererInv
  <2>4. RendererInv'
    BY <1>1, <1>3, <1>7, <2>1, <2>3 DEF RendererInv
  <2>5. QED BY <1>3, <1>4, <1>5, <2>2, <2>4
<1>10. CASE RendererFinishes
  <2>1. renderer' = [renderer EXCEPT !.pc = "look"]
    BY <1>10 DEF RendererFinishes
  <2>2. ThreadTypes' /\ renderer'.pc = "look"
    BY <1>1, <2>1 DEF ThreadTypes
  <2>3. QED BY <1>3, <1>4, <1>5, <2>2 DEF RendererInv
<1>11. QED BY <1>8, <1>9, <1>10 DEF Renderer

-----------------------------------------------------------------------------
LEMMA QuietInit == Init => QuietInv
<1> SUFFICES ASSUME Init PROVE QuietInv
  OBVIOUS
<1>1. PICK plan \in Plans :
        /\ source = Player!Opened(Player!Fresh("file", FALSE, plan.length))
        /\ run = [id |-> 0, complete |-> FALSE, done |-> FALSE, final |-> -1,
                  captured |-> 0, limit |-> plan.limit]
  BY DEF Init
<1>2. plan.length \in Nat \ {0} /\ plan.limit \in Nat
  BY PipelineAssumption
<1>3. source.index = -1 /\ source.next = 0 /\ source.length = plan.length
      /\ source.state = "running"
  BY <1>1 DEF Player!Opened, Player!Fresh
<1>4. RunTypes
  <2>1. <<>> \in Seq(Frames) /\ NoFrame \in Shown /\ -1 \in Int /\ 0 \in Nat
    BY EmptyQueue DEF Shown
  <2>2. run \in [id : {0}, complete : BOOLEAN, done : BOOLEAN, final : Int, captured : Nat,
                 limit : Nat]
    BY <1>1, <1>2, <2>1
  <2>3. state \in [latest : Shown, perception : Shown, cloud : Shown, version : Nat,
                   resets : {0}, safety : BOOLEAN, safetyVersion : Int, peopleVersion : Int]
    BY <2>1 DEF Init
  <2>4. queues \in [fast : Seq(Frames), recon : Seq(Frames)]
    BY <2>1 DEF Init
  <2>5. QED BY <2>2, <2>3, <2>4 DEF RunTypes, Init
<1>5. ThreadTypes
  <2>1. NoFrame \in Shown /\ -1 \in Int /\ 0 \in Nat
    BY DEF Shown
  <2>2. QED BY <2>1 DEF ThreadTypes, Init
<1>6. capture.pc = "read" /\ ~run.complete /\ run.final = -1 /\ capture.last = -1
  BY <1>1 DEF Init
<1>7. /\ Index(state.latest) = -1 /\ Index(state.perception) = -1 /\ Index(state.cloud) = -1
      /\ state.version = 0 /\ state.safetyVersion = -1 /\ state.peopleVersion = -1
      /\ Len(queues.fast) = 0 /\ Len(queues.recon) = 0 /\ queues.fast = <<>>
  BY IndexOfFrame DEF Init
<1>8. /\ fast.pc = "take" /\ recon.pc = "take" /\ recon.pending = NoFrame
      /\ people.pc = "look" /\ safety.pc = "tick" /\ safety.handled = -1
      /\ renderer.pc = "look"
  BY DEF Init
<1>9. CaptureInv
  BY <1>2, <1>3, <1>6, <1>7 DEF CaptureInv, Carrying
<1>10. FastInv /\ ReconInv
  BY <1>3, <1>6, <1>7, <1>8 DEF FastInv, ReconInv, PutFast, PutRecon
<1>11. VersionInv /\ RendererInv
  BY <1>7, <1>8 DEF VersionInv, RendererInv
<1>12. QED BY <1>4, <1>5, <1>9, <1>10, <1>11 DEF QuietInv

\* Without an incident the source is neither paused nor moved.
LEMMA QuietStep ==
    ASSUME Bounded, Bounded', QuietInv, ~Incident, [Next]_vars
    PROVE  QuietInv'
<1>1. gui.pc = "idle" /\ source.state # "paused" /\ capture.pc \notin {"clear", "reset"}
  BY DEF QuietInv, ThreadTypes, CaptureInv
<1>2. ~(Gui \/ CaptureClears \/ CaptureResets)
  BY <1>1 DEF Gui, Incident, ResumeSource, Player!Resume, GuiClears, GuiResets, GuiStep,
             CaptureClears, CaptureResets, CaptureStep
<1>3. CASE UNCHANGED vars
  BY <1>3 DEF vars, threads, QuietInv, RunTypes, ThreadTypes, CaptureInv, FastInv, ReconInv,
             VersionInv, RendererInv, Carrying, Index, OnItsWay, PutFast, PutRecon,
             Perceived, Judged
<1>4. CASE Capture
  BY <1>2, <1>4, ReadKeepsQuiet, EndKeepsQuiet, PutKeepsQuiet, Put3dKeepsQuiet,
     StoreKeepsQuiet, CountKeepsQuiet DEF Capture
<1>5. CASE FastTakes \/ FastAppends \/ Recon
  BY <1>5, FastTakesQuiet, FastAppendsQuiet, ReconTakesQuiet, ReconStoresQuiet
     DEF Recon, Incident
<1>6. CASE PeopleLooks \/ PeopleStores \/ Safety \/ Renderer
  BY <1>6, PeopleKeepQuiet, SafetyKeepsQuiet, RendererKeepsQuiet
<1>7. QED BY <1>2, <1>3, <1>4, <1>5, <1>6 DEF Next

LEMMA EndInvStep == EndInv /\ [Next]_vars => EndInv'
<1> SUFFICES ASSUME EndInv, [Next]_vars PROVE EndInv'
  OBVIOUS
<1>1. Bounded' /\ (Untroubled' => Untroubled /\ ~Incident)
  BY BoundedStep DEF EndInv
<1>2. QED BY <1>1, QuietStep DEF EndInv

LEMMA QuietEnd ==
    ASSUME Bounded, QuietInv, renderer.pc = "finish"
    PROVE  /\ Index(state.latest) = source.index /\ Index(state.cloud) = source.index
           /\ queues.fast = <<>> /\ queues.recon = <<>> /\ recon.pending = NoFrame
           /\ IF mode = "safety" THEN state.safetyVersion = state.version
              ELSE state.peopleVersion = state.version
<1> USE DEF QuietInv
<1>1. /\ run.complete /\ Judged /\ capture.pc = "read"
      /\ Index(Perceived) = source.index /\ Index(state.cloud) = source.index
  BY DEF RendererInv, CaptureInv
<1>2. Index(state.latest) = source.index /\ PutFast = source.index /\ PutRecon = source.index
  BY <1>1 DEF CaptureInv, PutFast, PutRecon
<1>3. source.index \in Int
  BY DEF Bounded, Sources
<1>4. \A f, shown : Index(shown) = source.index => ~OnItsWay(f, shown, source.index)
  BY <1>3 DEF OnItsWay, Frames
<1>5. queues.recon \in Seq(Frames) /\ queues.fast \in Seq(Frames)
  BY DEF RunTypes
<1>6. queues.recon = <<>> /\ recon.pending = NoFrame
  <2>1. Len(queues.recon) = 0
    BY <1>1, <1>2, <1>4, <1>5 DEF ReconInv
  <2>2. QED BY <1>1, <1>2, <1>4, <1>5, <2>1 DEF ReconInv
<1>7. queues.fast = <<>>
  <2>1. CASE mode = "safety"
    <3>1. Index(state.perception) = source.index
      BY <1>1, <2>1 DEF Perceived
    <3>2. Len(queues.fast) = 0
      BY <1>2, <1>4, <1>5, <3>1 DEF FastInv
    <3>3. QED BY <1>5, <3>2
  <2>2. CASE mode # "safety"
    BY <2>2 DEF FastInv
  <2>3. QED BY <2>1, <2>2
<1>8. QED BY <1>1, <1>2, <1>6, <1>7 DEF Judged

\* A run that nobody interferes with is declared over only when its last frame has been
\* perceived, reconstructed and judged, whatever the length of the file, max_frames and
\* the size of the queues.
THEOREM TheEndIsEarned == PipelineSpec => []EndIsEarned
<1>1. Init => EndInv
  BY BoundedInit, QuietInit DEF EndInv
<1>2. EndInv => EndIsEarned
  BY QuietEnd DEF EndInv, EndIsEarned
<1>3. QED
  BY <1>1, <1>2, EndInvStep, PTL DEF PipelineSpec

=============================================================================

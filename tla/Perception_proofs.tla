--------------------------- MODULE Perception_proofs ---------------------------
(***************************************************************************)
(* Proofs about the components of MCPerception, for every value of their   *)
(* constants.  A section proves the invariant of one component; it names   *)
(* the slots of that component as the component's module does (with a      *)
(* prefix where two sections would claim the same name), and these names   *)
(* are expanded everywhere.  The last section puts the sections together.  *)
(***************************************************************************)
EXTENDS MCPerception, Sequences, FiniteSets, TLAPS

vars == <<part, slots>>

-----------------------------------------------------------------------------
(* SegmentationSwitch.  A close of the worker's candidate takes the right   *)
(* backend away only if the candidate is not the installed one.  They are   *)
(* told apart by the request that created them: the installed backend is of *)
(* a request that has been handled, the request being served is a later one.*)

request == v1
generation == v2
active == v3
backend == v4
ready == v5
opened == v7
worker == v12
USE DEF request, generation, active, backend, ready, opened, worker

Backends == [model : Models, number : Nat]
RequestsMade == [generation : Nat, model : Models]

\* A backend is not the value that stands for none.
NoneIsNoBackend == None \notin Backends

Lines == [generation : Nat, active : Models, requested : Models \union {None},
          error : BOOLEAN, ready : BOOLEAN]
Workers ==
    [pc : {"start", "initialized", "told", "loop", "load", "swap", "swapped", "failed",
           "close", "ended"},
     handled : Nat, taken : RequestsMade \union {None},
     candidate : Backends \union {None}, status : Lines \union {None}]

Typed ==
    /\ generation \in Nat /\ active \in Models /\ ready \in BOOLEAN
    /\ request \in RequestsMade \union {None}
    /\ backend \in Backends
    /\ worker \in Workers

\* The request being served is later than any that has been handled, and so than
\* the one the installed backend was created for.
InTurn ==
    /\ backend.number <= worker.handled
    /\ worker.pc \in {"load", "swap", "failed"} =>
           worker.taken \in RequestsMade /\ worker.taken.generation > worker.handled

\* Only the installed backend is open, or it and the candidate.
Alone == worker.candidate = None /\ opened = {backend}
Beside ==
    /\ worker.candidate \in Backends /\ worker.candidate # backend
    /\ opened = {backend, worker.candidate}

\* What is open at each step of the worker.
Open ==
    \/ worker.pc \in {"start", "initialized", "told", "loop", "load"} /\ Alone
    \/ worker.pc \in {"swap", "swapped"} /\ Beside
    \/ worker.pc \in {"failed", "close"} /\ (Alone \/ Beside)
    \/ worker.pc = "ended" /\ opened = {}

\* Until it is decided, the candidate is the backend of the request being served.
OfRequest ==
    worker.pc \in {"swap", "failed"} /\ worker.candidate # None =>
        worker.candidate = Segmentation!Backend(worker.taken.model, worker.taken.generation)

SegInv == Typed /\ InTurn /\ Open /\ OfRequest

-----------------------------------------------------------------------------
\* The installed backend is open until the end, and nothing is open that is neither
\* it nor the candidate.
LEMMA OpenIsNoLeak == SegInv => Segmentation!NothingLeaks
  BY DEF SegInv, Open, Alone, Beside, Segmentation!NothingLeaks

LEMMA SegInvInit == Segmentation!Init => SegInv
<1> SUFFICES ASSUME Segmentation!Init PROVE SegInv
  OBVIOUS
<1>1. active \in Models /\ backend = [model |-> active, number |-> 0]
  BY DEF Segmentation!Init, Segmentation!Backend
<1>2. backend \in Backends /\ backend.number = 0
  BY <1>1 DEF Backends
<1>3. /\ worker \in Workers /\ worker.pc = "start" /\ worker.handled = 0
      /\ worker.candidate = None
  BY DEF Segmentation!Init, Workers
<1>4. generation \in Nat /\ ready \in BOOLEAN /\ request = None /\ opened = {backend}
  BY DEF Segmentation!Init
<1>5. QED
  BY <1>1, <1>2, <1>3, <1>4 DEF SegInv, Typed, InTurn, Open, Alone, OfRequest

\* A step of another thread leaves the worker, the installed backend and what is
\* open as they are.
LEMMA OthersKeepInv ==
  ASSUME SegInv, UNCHANGED <<active, backend, ready, opened, worker>>,
         generation' \in Nat, request' \in RequestsMade \union {None}
  PROVE  SegInv'
  BY DEF SegInv, Typed, InTurn, Open, Alone, Beside, OfRequest, Segmentation!Backend

\* The worker's steps by what they do to its locals.
Moves(pc, handled, taken, candidate) ==
    /\ worker'.pc = pc /\ worker'.handled = handled /\ worker'.taken = taken
    /\ worker'.candidate = candidate

\* Steps that open, close and install nothing.
Idle == {"start", "initialized", "told", "loop", "load"}

LEMMA IdleKeepsInv ==
  ASSUME SegInv, UNCHANGED <<request, generation, active, backend, opened>>,
         ready' \in BOOLEAN, worker' \in Workers, worker.pc \in Idle,
         worker'.pc \in Idle, worker'.candidate = worker.candidate,
         worker'.handled >= worker.handled,
         worker'.pc = "load" => worker'.taken \in RequestsMade
                                /\ worker'.taken.generation > worker'.handled
  PROVE  SegInv'
<1>1. worker.handled \in Nat /\ worker'.handled \in Nat /\ backend.number \in Nat
  BY DEF SegInv, Typed, Workers, Backends
<1>2. Alone
  BY DEF SegInv, Open, Idle
<1>3. Typed'
  BY DEF SegInv, Typed
<1>4. InTurn'
  BY <1>1 DEF SegInv, InTurn, Idle
<1>5. Open'
  BY <1>2 DEF Open, Alone, Idle
<1>6. OfRequest'
  BY DEF OfRequest, Idle
<1>7. QED
  BY <1>3, <1>4, <1>5, <1>6 DEF SegInv

LEMMA InitializeKeepsInv ==
  ASSUME SegInv,
         \/ Segmentation!Initialize \/ Segmentation!SkipInitialize
         \/ Segmentation!ReadAfterInitialize
     \/ Segmentation!Tell
  PROVE  SegInv'
<1>1. UNCHANGED <<request, generation, active, backend, opened>>
  BY DEF Segmentation!Initialize, Segmentation!SkipInitialize,
         Segmentation!ReadAfterInitialize, Segmentation!Tell,
     Segmentation!switchVars
<1>2. worker.pc \in Idle
  BY DEF Segmentation!Initialize, Segmentation!SkipInitialize,
         Segmentation!ReadAfterInitialize, Segmentation!Tell, Idle
<1>3. \E pc \in {"initialized", "told", "loop"}, status \in Lines \union {None} :
          worker' = [worker EXCEPT !.pc = pc, !.status = status]
  <2>1. active \in Models /\ ready \in BOOLEAN /\ worker \in Workers
        /\ request \in RequestsMade \union {None}
    BY DEF SegInv, Typed
  <2>2. worker.status \in Lines \union {None}
    BY <2>1 DEF Workers
  <2>3. \A pc : [worker EXCEPT !.pc = pc] = [worker EXCEPT !.pc = pc,
     !.status = worker.status]
    BY <2>1 DEF Workers
  <2>4. CASE Segmentation!Initialize
    <3>1. Segmentation!Status(active, None, TRUE, FALSE, 0) \in Lines
      BY <2>1 DEF Segmentation!Status, Lines
    <3>2. QED
      BY <2>2, <2>3, <2>4, <3>1 DEF Segmentation!Initialize
  <2>5. CASE Segmentation!SkipInitialize
    BY <2>2, <2>3, <2>5 DEF Segmentation!SkipInitialize
  <2>6. CASE Segmentation!ReadAfterInitialize
    <3> DEFINE line == Segmentation!Status(active,
                      IF request # None /\ request.model # active THEN request.model
                      ELSE None,
                      FALSE, TRUE, IF request # None THEN request.generation ELSE 0)
    <3>1. line \in Lines
      BY <2>1 DEF Segmentation!Status, Lines, RequestsMade
    <3>2. worker' = [worker EXCEPT !.pc = "told", !.status = line]
      BY <2>6 DEF Segmentation!ReadAfterInitialize
    <3>3. QED
      BY <3>1, <3>2
  <2>7. CASE Segmentation!Tell
    BY <2>7 DEF Segmentation!Tell
  <2>8. QED
    BY <2>4, <2>5, <2>6, <2>7
<1>4. /\ worker' \in Workers /\ worker'.pc \in {"initialized", "told", "loop"}
      /\ worker'.candidate = worker.candidate /\ worker'.handled = worker.handled
  BY <1>3 DEF SegInv, Typed, Workers
<1>5. ready' \in BOOLEAN
  BY DEF Segmentation!Initialize, Segmentation!SkipInitialize,
         Segmentation!ReadAfterInitialize, Segmentation!Tell,
     Segmentation!switchVars, SegInv, Typed
<1>6. worker'.handled >= worker.handled
  BY <1>4 DEF SegInv, Typed, Workers
<1>7. QED
  BY <1>1, <1>2, <1>4, <1>5, <1>6, IdleKeepsInv DEF Idle

LEMMA TakeRequestKeepsInv ==
  ASSUME SegInv, Segmentation!TakeRequest PROVE SegInv'
<1>1. /\ worker.pc = "loop" /\ request # None /\ request.generation > worker.handled
      /\ UNCHANGED <<request, generation, active, backend, ready, opened>>
  BY DEF Segmentation!TakeRequest
<1>2. request \in RequestsMade /\ request.generation \in Nat
  BY <1>1 DEF SegInv, Typed, RequestsMade
<1>3. worker \in Workers /\ worker.handled \in Nat /\ ready \in BOOLEAN
  BY DEF SegInv, Typed, Workers
<1> DEFINE line == Segmentation!Status(active, None, FALSE, TRUE, request.generation)
<1>4. line \in Lines
  BY <1>2 DEF Segmentation!Status, Lines, SegInv, Typed
<1> HIDE DEF line
<1>5. CASE worker' = [worker EXCEPT !.pc = "told", !.handled = request.generation,
                                    !.status = line]
  <2>1. worker' \in Workers /\ Moves("told", request.generation, worker.taken,
     worker.candidate)
    BY <1>2, <1>3, <1>4, <1>5 DEF Workers, Moves
  <2>2. QED
    BY <1>1, <1>2, <1>3, <2>1, IdleKeepsInv DEF Moves, Idle
<1>6. CASE worker' = [worker EXCEPT !.pc = "load", !.taken = request]
  <2>1. worker' \in Workers /\ Moves("load", worker.handled, request, worker.candidate)
    BY <1>2, <1>3, <1>6 DEF Workers, Moves
  <2>2. QED
    BY <1>1, <1>2, <1>3, <2>1, IdleKeepsInv DEF Moves, Idle
<1>7. QED
  BY <1>5, <1>6 DEF Segmentation!TakeRequest, line

LEMMA LoadKeepsInv ==
  ASSUME NoneIsNoBackend, SegInv, Segmentation!Load PROVE SegInv'
<1> DEFINE made == Segmentation!Backend(worker.taken.model, worker.taken.generation)
<1>1. /\ worker.pc = "load" /\ Alone
      /\ worker.taken \in RequestsMade /\ worker.taken.generation > worker.handled
  BY DEF SegInv, InTurn, Open, Segmentation!Load
<1>2. made \in Backends /\ made # backend
  <2>1. worker.handled \in Nat /\ backend.number \in Nat
    BY DEF SegInv, Typed, Workers, Backends
  <2>2. made.number > backend.number
    BY <1>1, <2>1 DEF SegInv, InTurn, Segmentation!Backend, RequestsMade
  <2>3. made \in Backends
    BY <1>1 DEF Segmentation!Backend, Backends, RequestsMade
  <2>4. QED
    BY <2>1, <2>2, <2>3
<1>3. UNCHANGED <<request, generation, active, backend, ready>>
  BY DEF Segmentation!Load, Segmentation!switchVars
<1>4. worker \in Workers
  BY DEF SegInv, Typed
<1>5. \/ /\ opened' = opened \cup {made}
         /\ \E to \in {"swap", "failed"} :
                worker' = [worker EXCEPT !.pc = to, !.candidate = made]
      \/ worker' = [worker EXCEPT !.pc = "failed"] /\ UNCHANGED opened
  BY DEF Segmentation!Load
<1> HIDE DEF made
<1>6. CASE /\ opened' = opened \cup {made}
           /\ \E to \in {"swap", "failed"} :
                worker' = [worker EXCEPT !.pc = to, !.candidate = made]
  <2>1. PICK to \in {"swap", "failed"} :
            worker' = [worker EXCEPT !.pc = to, !.candidate = made]
    BY <1>6
  <2>2. worker' \in Workers /\ Moves(to, worker.handled, worker.taken, made)
    BY <1>2, <1>4, <2>1 DEF Workers, Moves
  <2>3. Typed' /\ InTurn'
    BY <1>1, <1>3, <2>2 DEF SegInv, Typed, InTurn, Moves
  <2>4. Beside'
    BY <1>1, <1>2, <1>3, <1>6, <2>2 DEF Alone, Beside, Moves
  <2>5. OfRequest'
    BY <2>2 DEF OfRequest, Moves, made
  <2>6. QED
    BY <2>2, <2>3, <2>4, <2>5 DEF SegInv, Open, Moves
<1>7. CASE worker' = [worker EXCEPT !.pc = "failed"] /\ UNCHANGED opened
  <2>1. worker' \in Workers /\ Moves("failed", worker.handled, worker.taken,
     worker.candidate)
    BY <1>4, <1>7 DEF Workers, Moves
  <2>2. Typed' /\ InTurn'
    BY <1>1, <1>3, <2>1 DEF SegInv, Typed, InTurn, Moves
  <2>3. Alone' /\ OfRequest'
    BY <1>1, <1>3, <1>7, <2>1 DEF Alone, OfRequest, Moves
  <2>4. QED
    BY <2>1, <2>2, <2>3 DEF SegInv, Open, Moves
<1>8. QED
  BY <1>5, <1>6, <1>7

LEMMA SwapKeepsInv ==
  ASSUME NoneIsNoBackend, SegInv, Segmentation!Swap PROVE SegInv'
<1>1. /\ worker.pc = "swap" /\ Beside
      /\ worker.taken \in RequestsMade /\ worker.taken.generation > worker.handled
  BY DEF SegInv, InTurn, Open, Segmentation!Swap
<1>2. /\ worker \in Workers /\ worker.handled \in Nat
      /\ worker.taken.generation \in Nat /\ backend.number \in Nat
  BY <1>1 DEF SegInv, Typed, Workers, RequestsMade, Backends
<1>3. UNCHANGED <<request, generation, ready, opened>>
  BY DEF Segmentation!Swap
<1> DEFINE settled == [worker EXCEPT !.handled = worker.taken.generation, !.taken = None]
<1>4. CASE worker' = [settled EXCEPT !.pc = "close"] /\ UNCHANGED <<active, backend>>
  <2>1. worker' \in Workers
        /\ Moves("close", worker.taken.generation, None, worker.candidate)
    BY <1>2, <1>4 DEF Workers, Moves
  <2>2. Typed' /\ InTurn' /\ OfRequest'
    BY <1>1, <1>2, <1>3, <1>4, <2>1 DEF SegInv, Typed, InTurn, OfRequest, Moves
  <2>3. Beside'
    BY <1>1, <1>3, <1>4, <2>1 DEF Beside, Moves
  <2>4. QED
    BY <2>1, <2>2, <2>3 DEF SegInv, Open, Moves
<1>5. CASE /\ backend' = worker.candidate /\ active' = worker.candidate.model
           /\ worker' = [settled EXCEPT !.pc = "swapped", !.candidate = backend]
  <2>1. worker.candidate \in Backends /\ worker.candidate # backend /\ backend \in Backends
    BY <1>1 DEF Beside, SegInv, Typed
  <2>2. worker' \in Workers /\ Moves("swapped", worker.taken.generation, None, backend)
    BY <1>2, <1>5, <2>1 DEF Workers, Moves
  <2>3. worker.candidate.number = worker.taken.generation
    BY <1>1, <2>1 DEF SegInv, OfRequest, Segmentation!Backend, NoneIsNoBackend
  <2>4. worker.candidate.number \in Nat /\ worker.candidate.model \in Models
    BY <2>1 DEF Backends
  <2>5. Typed'
    BY <1>3, <1>5, <2>1, <2>2, <2>4 DEF SegInv, Typed
  <2>6. Beside'
    BY <1>1, <1>3, <1>5, <2>1, <2>2 DEF Beside, Moves
  <2>7. InTurn' /\ OfRequest'
    BY <1>2, <1>5, <2>2, <2>3, <2>4 DEF InTurn, OfRequest, Moves
  <2>8. QED
    BY <2>2, <2>5, <2>6, <2>7 DEF SegInv, Open, Moves
<1>6. QED
  BY <1>4, <1>5 DEF Segmentation!Swap

LEMMA SwappedKeepsInv ==
  ASSUME SegInv, Segmentation!Swapped PROVE SegInv'
<1>1. /\ worker.pc = "swapped" /\ Beside /\ worker \in Workers
      /\ UNCHANGED <<request, generation, active, backend, opened>> /\ ready' = TRUE
      /\ worker' = [worker EXCEPT !.pc = "close"]
  BY DEF SegInv, Typed, Open, Segmentation!Swapped
<1>2. worker' \in Workers
      /\ Moves("close", worker.handled, worker.taken, worker.candidate)
  BY <1>1 DEF Workers, Moves
<1>3. Typed' /\ InTurn' /\ OfRequest' /\ Beside'
  BY <1>1, <1>2 DEF SegInv, Typed, InTurn, OfRequest, Beside, Moves
<1>4. QED
  BY <1>2, <1>3 DEF SegInv, Open, Moves

LEMMA FailKeepsInv ==
  ASSUME SegInv, Segmentation!Fail PROVE SegInv'
<1>1. /\ worker.pc = "failed" /\ (Alone \/ Beside) /\ worker \in Workers
      /\ worker.taken \in RequestsMade /\ worker.taken.generation > worker.handled
      /\ UNCHANGED <<request, generation, active, backend, ready, opened>>
      /\ worker' = [worker EXCEPT !.pc = "close", !.handled = worker.taken.generation,
                                  !.taken = None]
  BY DEF SegInv, Typed, InTurn, Open, Segmentation!Fail
<1>2. /\ worker.handled \in Nat /\ worker.taken.generation \in Nat
      /\ backend.number \in Nat
  BY <1>1 DEF SegInv, Typed, Workers, RequestsMade, Backends
<1>3. worker' \in Workers
      /\ Moves("close", worker.taken.generation, None, worker.candidate)
  BY <1>1, <1>2 DEF Workers, Moves
<1>4. Typed' /\ InTurn' /\ OfRequest'
  BY <1>1, <1>2, <1>3 DEF SegInv, Typed, InTurn, OfRequest, Moves
<1>5. Alone' \/ Beside'
  BY <1>1, <1>3 DEF Alone, Beside, Moves
<1>6. QED
  BY <1>3, <1>4, <1>5 DEF SegInv, Open, Moves

\* The candidate is closed and not the installed backend.
LEMMA CloseKeepsInv ==
  ASSUME NoneIsNoBackend, SegInv, Segmentation!Close PROVE SegInv'
<1>1. /\ worker.pc = "close" /\ (Alone \/ Beside) /\ worker \in Workers
      /\ UNCHANGED <<request, generation, active, backend, ready>>
      /\ opened' = opened \ {worker.candidate}
      /\ worker' = [worker EXCEPT !.pc = "loop", !.candidate = None]
  BY DEF SegInv, Typed, Open, Segmentation!Close, Segmentation!switchVars
<1>2. opened' = {backend}
  <2>1. backend # None
    BY DEF SegInv, Typed, NoneIsNoBackend
  <2>2. QED
    BY <1>1, <2>1 DEF Alone, Beside
<1>3. worker' \in Workers /\ Moves("loop", worker.handled, worker.taken, None)
  BY <1>1 DEF Workers, Moves
<1>4. Typed' /\ InTurn' /\ OfRequest' /\ Alone'
  BY <1>1, <1>2, <1>3 DEF SegInv, Typed, InTurn, OfRequest, Alone, Moves
<1>5. QED
  BY <1>3, <1>4 DEF SegInv, Open, Moves

LEMMA ExitKeepsInv ==
  ASSUME SegInv, Segmentation!Exit PROVE SegInv'
<1>1. /\ worker.pc = "loop" /\ Alone /\ worker \in Workers
      /\ UNCHANGED <<request, generation, active, backend, ready>>
      /\ opened' = opened \ {backend} /\ worker' = [worker EXCEPT !.pc = "ended"]
  BY DEF SegInv, Typed, Open, Segmentation!Exit, Segmentation!switchVars
<1>2. worker' \in Workers /\ Moves("ended", worker.handled, worker.taken,
   worker.candidate)
  BY <1>1 DEF Workers, Moves
<1>3. Typed' /\ InTurn' /\ OfRequest' /\ opened' = {}
  BY <1>1, <1>2 DEF SegInv, Typed, InTurn, OfRequest, Alone, Moves
<1>4. QED
  BY <1>2, <1>3 DEF SegInv, Open, Moves

LEMMA WorkerKeepsInv ==
  ASSUME NoneIsNoBackend, SegInv, Segmentation!Worker PROVE SegInv'
  BY InitializeKeepsInv, TakeRequestKeepsInv, LoadKeepsInv, SwapKeepsInv,
     SwappedKeepsInv, FailKeepsInv, CloseKeepsInv, ExitKeepsInv DEF Segmentation!Worker

LEMMA SegInvKept ==
  ASSUME NoneIsNoBackend, SegInv, [Segmentation!Next]_(Segmentation!vars) PROVE SegInv'
<1> SUFFICES ASSUME ~Segmentation!Worker PROVE SegInv'
  BY WorkerKeepsInv
<1>1. CASE \E model \in Models : Segmentation!RequestModel(model)
  <2>1. PICK model \in Models : Segmentation!RequestModel(model)
    BY <1>1
  <2>2. generation \in Nat /\ request \in RequestsMade \union {None}
    BY DEF SegInv, Typed
  <2>3. [generation |-> generation + 1, model |-> model] \in RequestsMade
    BY <2>2 DEF RequestsMade
  <2>4. generation' \in Nat /\ request' \in RequestsMade \union {None}
    <3>1. CASE Segmentation!AlreadyActive(model)
      BY <2>1, <2>2, <3>1 DEF Segmentation!RequestModel
    <3>2. CASE ~Segmentation!AlreadyActive(model)
      <4>1. /\ generation' = generation + 1
            /\ request' = [generation |-> generation + 1, model |-> model]
        BY <2>1, <3>2, Zenon DEF Segmentation!RequestModel
      <4>2. QED
        BY <2>2, <2>3, <4>1
    <3>3. QED
      BY <3>1, <3>2
  <2>5. QED
    BY <2>1, <2>4, OthersKeepInv DEF Segmentation!RequestModel
<1>2. CASE Segmentation!RefuseModel \/ Segmentation!Announce \/ Segmentation!FrameArrives
   \/ Segmentation!ChangePipeline \/ Segmentation!Stop \/ UNCHANGED Segmentation!vars
  <2>1. UNCHANGED <<Segmentation!switchVars, opened, worker>>
    BY <1>2
       DEF Segmentation!RefuseModel, Segmentation!Announce, Segmentation!FrameArrives,
           Segmentation!ChangePipeline,
       Segmentation!Stop, Segmentation!vars
  <2>2. QED
    BY <2>1, OthersKeepInv DEF Segmentation!switchVars, SegInv, Typed
<1>3. QED
  BY <1>1, <1>2 DEF Segmentation!Next
-----------------------------------------------------------------------------
(* ReconstructionSwitch.  The ready flags are set and cleared apart from   *)
(* the models, which are closed, loaded half-way and replaced by a         *)
(* fallback; the invariant is what flags, models and method have to do     *)
(* with each other whenever the worker is about to commit or to infer, how *)
(* the anchor stands to the resets, and how many frames of a former input  *)
(* there are left to be given to a model.                                  *)

method == v1
requested == v2
method_ready == v3
loaded == v4
method_worker == v6
anchored == v7
resets == v8
method_gui == v9
method_frames == v5
USE DEF method, requested, method_ready, loaded, method_worker, anchored, resets,
        method_gui, method_frames

KnownMethods ==
    {"video_depth", "fast_depth", "mast3r_slam", "st4rtrack", "hybrid", "rgbd"}

\* The configuration offers no other methods.
MethodsAreKnown == DepthModes \subseteq KnownMethods

MethodWorkers ==
    [pc : {"load", "fallback", "commit", "loop", "look", "infer", "give_up"},
     mode : KnownMethods, target : KnownMethods, seen : Nat, first : BOOLEAN,
     frame : Nat \cup {None}]

MethodFrames ==
    [input : Nat, read : Nat \cup {None}, queue : Nat \cup {None}, old : Nat]

MethodTyped ==
    /\ requested \in KnownMethods /\ resets \in Nat
    /\ method_worker \in MethodWorkers /\ method_worker.seen <= resets
    /\ method_frames \in MethodFrames

\* The backend that depth is inferred with under a method.
DepthOf(mode) == IF mode \in {"hybrid", "st4rtrack"} THEN "fast_depth" ELSE mode

\* Whatever an inference under this method would use holds its model.
Fits(mode) ==
    mode # "rgbd" =>
        /\ "mast3r_slam" \in method_ready /\ mode = "mast3r_slam" => "mast3r_slam" \in loaded
        /\ "st4rtrack" \in method_ready /\ mode \in {"st4rtrack", "hybrid"}
             => "st4rtrack" \in loaded
        /\ "depth" \in method_ready /\ (mode = "st4rtrack" => "st4rtrack" \notin method_ready)
             => loaded \cap Methods!Depths = {DepthOf(mode)}

\* An anchor that is kept through a reset which the worker has noticed is a new one.
AnchorFits == anchored # None => anchored.since \in Nat /\ anchored.since >= method_worker.seen

\* The worker loads into nothing, commits what it has loaded, and has no anchor until
\* it infers.
MethodFits ==
    \/ /\ method_worker.pc \in {"load", "fallback"}
       /\ method_ready = {} /\ loaded = {} /\ anchored = None
    \/ method_worker.pc = "commit" /\ Fits(method_worker.target) /\ anchored = None
    \/ /\ method_worker.pc \in {"loop", "look", "infer", "give_up"}
       /\ Fits(method_worker.mode) /\ AnchorFits
       /\ method_worker.pc \in {"look", "infer"} => method_worker.mode # "rgbd"

\* Once the queue has been emptied, a frame of a former input has been given to a model
\* or is in one of three hands, of which the queue's was empty.
FewOldFrames ==
    method_gui # "clear" =>
        method_frames.old + Methods!Count(method_worker.frame)
            + Methods!Count(method_frames.queue) + Methods!Count(method_frames.read) <= 2

MethodInv == MethodTyped /\ MethodFits /\ FewOldFrames

-----------------------------------------------------------------------------
\* A frame counts once at most, and a frame of the present input not at all.
LEMMA CountIs ==
  /\ \A frame : Methods!Count(frame) \in {0, 1}
  /\ Methods!Count(None) = 0 /\ Methods!Count(method_frames.input) = 0
  BY DEF Methods!Count, Methods!Old

LEMMA MethodInvSays ==
  MethodInv => /\ Methods!UsesAreLoaded /\ Methods!AnchorIsCurrent
               /\ Methods!OldFramesRunOut
<1> SUFFICES ASSUME MethodInv
             PROVE  /\ Methods!UsesAreLoaded /\ Methods!AnchorIsCurrent
                    /\ Methods!OldFramesRunOut
  OBVIOUS
<1>1. Methods!UsesAreLoaded
  BY DEF MethodInv, MethodFits, Fits, DepthOf, Methods!UsesAreLoaded, Methods!UsesSlam,
         Methods!UsesSt4r, Methods!UsesDepth
<1>2. Methods!AnchorIsCurrent
  BY DEF MethodInv, MethodFits, AnchorFits, Methods!AnchorIsCurrent
<1>3. Methods!OldFramesRunOut
  <2>1. method_frames.old \in Nat
    BY DEF MethodInv, MethodTyped, MethodFrames
  <2> DEFINE a == Methods!Count(method_worker.frame)
             b == Methods!Count(method_frames.queue)
             c == Methods!Count(method_frames.read)
  <2>2. a \in {0, 1} /\ b \in {0, 1} /\ c \in {0, 1}
    BY CountIs
  <2>3. method_gui # "clear" => method_frames.old + a + b + c <= 2
    BY DEF MethodInv, FewOldFrames
  <2> HIDE DEF a, b, c
  <2>4. QED
    BY <2>1, <2>2, <2>3 DEF Methods!OldFramesRunOut
<1>4. QED
  BY <1>1, <1>2, <1>3

LEMMA MethodInvInit == MethodsAreKnown /\ Methods!Init => MethodInv
<1> SUFFICES ASSUME MethodsAreKnown, Methods!Init PROVE MethodInv
  OBVIOUS
<1>1. method \in KnownMethods
  BY DEF Methods!Init, MethodsAreKnown
<1>2. MethodTyped
  BY <1>1 DEF Methods!Init, MethodTyped, MethodWorkers, MethodFrames
<1>3. MethodFits
  BY DEF Methods!Init, MethodFits
<1>4. FewOldFrames
  <2>1. /\ method_frames.old = 0 /\ method_worker.frame = None
        /\ method_frames.queue = None /\ method_frames.read = None
    BY DEF Methods!Init
  <2>2. QED
    BY <2>1, CountIs DEF FewOldFrames
<1>5. QED
  BY <1>2, <1>3, <1>4 DEF MethodInv

\* FewOldFrames outlasts a step that keeps the input and after which no more frames
\* of a former input are given or held than before.
LEMMA FewStayFew ==
  ASSUME MethodTyped, MethodTyped', FewOldFrames, method_gui' = method_gui,
         method_frames'.old + Methods!Count(method_worker.frame)'
             + Methods!Count(method_frames.queue)' + Methods!Count(method_frames.read)'
           <= method_frames.old + Methods!Count(method_worker.frame)
             + Methods!Count(method_frames.queue) + Methods!Count(method_frames.read)
  PROVE  FewOldFrames'
<1> DEFINE a == Methods!Count(method_worker.frame)
           b == Methods!Count(method_frames.queue)
           c == Methods!Count(method_frames.read)
<1>1. a \in Int /\ b \in Int /\ c \in Int /\ a' \in Int /\ b' \in Int /\ c' \in Int
  BY DEF Methods!Count
<1>2. method_frames.old \in Int /\ method_frames'.old \in Int
  BY DEF MethodTyped, MethodFrames
<1>3. method_frames'.old + a' + b' + c' <= method_frames.old + a + b + c
  OBVIOUS
<1>4. method_gui # "clear" => method_frames.old + a + b + c <= 2
  BY DEF FewOldFrames
<1> HIDE DEF a, b, c
<1>5. method_gui' # "clear" => method_frames'.old + a' + b' + c' <= 2
  BY <1>1, <1>2, <1>3, <1>4
<1>6. QED
  BY <1>5 DEF FewOldFrames, a, b, c

\* No thread takes a frame into its hands but one of the present input.
LEMMA OldSteps ==
  ASSUME MethodTyped, MethodTyped', FewOldFrames, method_gui' = method_gui,
         method_frames'.input = method_frames.input, method_frames'.old = method_frames.old,
         method_worker'.frame \in {method_worker.frame, None},
         method_frames'.queue \in {method_frames.queue, None},
         method_frames'.read \in {method_frames.read, method_frames.input}
  PROVE  FewOldFrames'
<1> DEFINE a == Methods!Count(method_worker.frame)
           b == Methods!Count(method_frames.queue)
           c == Methods!Count(method_frames.read)
<1>1. a \in {0, 1} /\ b \in {0, 1} /\ c \in {0, 1}
  BY CountIs
<1>2. a' \in {a, 0} /\ b' \in {b, 0} /\ c' \in {c, 0}
  BY DEF Methods!Count, Methods!Old
<1>3. method_frames.old \in Int
  BY DEF MethodTyped, MethodFrames
<1> HIDE DEF a, b, c
<1>4. method_frames'.old + a' + b' + c' <= method_frames.old + a + b + c
  BY <1>1, <1>2, <1>3
<1>5. QED
  BY <1>4, FewStayFew DEF a, b, c

\* What one load leaves behind fits its outcome, the fallbacks included.
LEMMA LoadsFit ==
  ASSUME MethodInv, Methods!Load \/ Methods!FallBack
  PROVE  /\ method_worker'.pc = "commit" /\ method_worker' \in MethodWorkers
         /\ Fits(method_worker.target)' /\ anchored' = None
         /\ method_worker'.seen = method_worker.seen
         /\ method_worker'.frame = method_worker.frame
         /\ UNCHANGED <<requested, resets, method_gui, method_frames>>
<1>1. /\ method_ready = {} /\ loaded = {} /\ anchored = None
      /\ method_worker \in MethodWorkers /\ method_worker.target \in KnownMethods
  BY DEF Methods!Load, Methods!FallBack, MethodInv, MethodFits, MethodTyped, MethodWorkers
<1>2. ASSUME NEW names, NEW backends, NEW outcome \in KnownMethods,
             Methods!Loads(names, backends, outcome)
      PROVE  /\ method_worker'.pc = "commit" /\ method_worker' \in MethodWorkers
             /\ method_worker'.target = outcome
             /\ method_ready' = names /\ loaded' = backends
             /\ method_worker'.seen = method_worker.seen
             /\ method_worker'.frame = method_worker.frame
             /\ anchored' = None
             /\ UNCHANGED <<requested, resets, method_gui, method_frames>>
  BY <1>1, <1>2 DEF Methods!Loads, Methods!WorkerOnly, MethodWorkers
<1> DEFINE Goal == /\ method_worker'.pc = "commit" /\ method_worker' \in MethodWorkers
                   /\ Fits(method_worker.target)' /\ anchored' = None
                   /\ method_worker'.seen = method_worker.seen
                   /\ method_worker'.frame = method_worker.frame
                   /\ UNCHANGED <<requested, resets, method_gui, method_frames>>
<1>3. ASSUME NEW target \in KnownMethods, Methods!LoadPlain(target) PROVE Goal
  <2>1. CASE target = "rgbd"
    <3>1. Methods!Loads({"depth"}, {}, target)
      BY <1>3, <2>1 DEF Methods!LoadPlain
    <3>2. QED
      BY <3>1, <1>2, <2>1 DEF Fits
  <2>2. CASE target = "mast3r_slam"
    <3>1. Methods!Loads({"mast3r_slam"}, {"mast3r_slam"}, target)
      BY <1>3, <2>2 DEF Methods!LoadPlain
    <3>2. QED
      BY <3>1, <1>2, <2>2 DEF Fits
  <2>3. CASE target = "st4rtrack"
    <3>1. Methods!Loads({"st4rtrack"}, {"st4rtrack"}, target)
      BY <1>3, <2>3 DEF Methods!LoadPlain
    <3>2. QED
      BY <3>1, <1>2, <2>3 DEF Fits
  <2>4. CASE target = "hybrid"
    <3>1. Methods!Loads({"depth", "st4rtrack"}, {"fast_depth", "st4rtrack"}, target)
      BY <1>3, <2>4 DEF Methods!LoadPlain
    <3>2. QED
      BY <3>1, <1>2, <2>4 DEF Fits, DepthOf, Methods!Depths
  <2>5. CASE target \in {"video_depth", "fast_depth"}
    <3>1. Methods!Loads({"depth"}, {target}, target)
      BY <1>3, <2>5 DEF Methods!LoadPlain
    <3>2. QED
      BY <3>1, <1>2, <2>5 DEF Fits, DepthOf, Methods!Depths
  <2>6. QED
    BY <2>1, <2>2, <2>3, <2>4, <2>5 DEF KnownMethods
<1>4. ASSUME NEW target \in KnownMethods, Methods!LoadFallback(target) PROVE Goal
  <2>1. PICK left \in {{}, {"st4rtrack"}} :
          \/ /\ target \in {"st4rtrack", "hybrid"}
             /\ Methods!Loads({"depth"}, {"fast_depth"} \cup left,
                      IF target = "hybrid" THEN target ELSE "fast_depth")
          \/ /\ target = "video_depth" /\ left = {}
             /\ Methods!Loads({"depth"}, {"fast_depth"}, "fast_depth")
    BY <1>4 DEF Methods!LoadFallback
  <2>2. \E outcome \in {"hybrid", "fast_depth"} :
            Methods!Loads({"depth"}, {"fast_depth"} \cup left, outcome)
    BY <2>1
  <2>3. PICK outcome \in {"hybrid", "fast_depth"} :
            Methods!Loads({"depth"}, {"fast_depth"} \cup left, outcome)
    BY <2>2
  <2>4. QED
    BY <2>1, <2>3, <1>2 DEF Fits, DepthOf, Methods!Depths, KnownMethods
<1>5. CASE Methods!Load
  BY <1>1, <1>3, <1>4, <1>5 DEF Methods!Load
<1>6. CASE Methods!FallBack
  <2>1. CASE Methods!Loads({"depth"}, {"fast_depth"}, "fast_depth")
    BY <2>1, <1>2 DEF Fits, DepthOf, Methods!Depths, KnownMethods
  <2>2. CASE Methods!Loads({}, {}, method_worker.target)
    BY <2>2, <1>1, <1>2 DEF Fits
  <2>3. QED
    BY <1>6, <2>1, <2>2 DEF Methods!FallBack
<1>7. QED
  BY <1>5, <1>6

LEMMA CommitKeepsMethodInv ==
  ASSUME MethodInv, Methods!Commit PROVE MethodInv'
<1> DEFINE now == IF method_worker.first THEN resets ELSE resets + 1
<1>1. /\ method_worker.pc = "commit" /\ Fits(method_worker.target) /\ anchored = None
      /\ method_worker \in MethodWorkers /\ resets \in Nat
      /\ method_frames \in MethodFrames
  BY DEF MethodInv, MethodTyped, MethodFits, Methods!Commit
<1>2. /\ requested' = method_worker.target /\ resets' = now
      /\ method_worker' = [method_worker EXCEPT !.pc = "loop",
         !.mode = method_worker.target,
                              !.seen = now, !.first = FALSE]
      /\ UNCHANGED <<method_ready, loaded, anchored, method_gui>>
      /\ method_frames' = IF method_worker.first THEN method_frames
                          ELSE [method_frames EXCEPT !.queue = None]
  BY DEF Methods!Commit, Methods!WorkerOnly
<1>3. now \in Nat
  BY <1>1
<1> HIDE DEF now
<1>4. /\ method_worker' \in MethodWorkers /\ method_worker'.pc = "loop"
      /\ method_worker'.mode = method_worker.target /\ method_worker'.seen = now
      /\ method_worker'.frame = method_worker.frame
      /\ method_worker.target \in KnownMethods
  BY <1>1, <1>2, <1>3 DEF MethodWorkers
<1>5. /\ method_frames' \in MethodFrames
      /\ method_frames'.input = method_frames.input /\ method_frames'.old = method_frames.old
      /\ method_frames'.read = method_frames.read
      /\ method_frames'.queue \in {method_frames.queue, None}
  BY <1>1, <1>2 DEF MethodFrames
<1>6. MethodTyped' /\ MethodFits'
  BY <1>1, <1>2, <1>3, <1>4, <1>5 DEF MethodTyped, MethodFits, Fits, AnchorFits
<1>7. FewOldFrames'
  BY <1>2, <1>4, <1>5, <1>6, OldSteps DEF MethodInv
<1>8. QED
  BY <1>6, <1>7 DEF MethodInv

\* A step that touches neither the frames, the input nor the frame in hand.
LEMMA SameFrames ==
  ASSUME MethodInv, MethodTyped', UNCHANGED <<method_gui, method_frames>>,
         method_worker'.frame = method_worker.frame
  PROVE  FewOldFrames'
  BY OldSteps DEF MethodInv

\* Switching, loading and giving up.
LEMMA SwitchKeepsMethodInv ==
  ASSUME MethodInv,
         \/ Methods!StartSwitch \/ Methods!Load \/ Methods!FallBack
         \/ Methods!LoadRaises \/ Methods!GiveUp
  PROVE  MethodInv'
<1>1. /\ method_worker \in MethodWorkers /\ requested \in KnownMethods /\ resets \in Nat
      /\ method_frames \in MethodFrames /\ method_worker.seen <= resets
  BY DEF MethodInv, MethodTyped
<1>2. CASE Methods!StartSwitch
  <2>1. /\ method_ready' = {} /\ loaded' = {} /\ anchored' = None
        /\ UNCHANGED <<requested, resets, method_gui, method_frames>>
        /\ method_worker' = [method_worker EXCEPT !.pc = "load", !.target = requested,
                                                  !.frame = None]
    BY <1>2 DEF Methods!StartSwitch, Methods!Closed
  <2>2. /\ method_worker' \in MethodWorkers /\ method_worker'.pc = "load"
        /\ method_worker'.seen = method_worker.seen /\ method_worker'.frame = None
    BY <1>1, <2>1 DEF MethodWorkers
  <2>3. MethodTyped' /\ MethodFits'
    BY <1>1, <2>1, <2>2 DEF MethodTyped, MethodFits
  <2>4. FewOldFrames'
    BY <2>1, <2>2, <2>3, OldSteps DEF MethodInv
  <2>5. QED
    BY <2>3, <2>4 DEF MethodInv
<1>3. CASE Methods!Load \/ Methods!FallBack
  <2>1. MethodTyped' /\ MethodFits'
    BY <1>1, <1>3, LoadsFit DEF MethodTyped, MethodFits
  <2>2. FewOldFrames'
    BY <1>3, <2>1, LoadsFit, SameFrames
  <2>3. QED
    BY <2>1, <2>2 DEF MethodInv
<1>4. CASE Methods!LoadRaises
  <2>1. /\ method_ready' = {} /\ loaded' = {} /\ anchored' = None
        /\ UNCHANGED <<requested, resets, method_gui, method_frames>>
        /\ method_worker' = [method_worker EXCEPT !.pc = "fallback"]
    BY <1>4 DEF Methods!LoadRaises, Methods!Closed, Methods!WorkerOnly
  <2>2. /\ method_worker' \in MethodWorkers /\ method_worker'.pc = "fallback"
        /\ method_worker'.seen = method_worker.seen
        /\ method_worker'.frame = method_worker.frame
    BY <1>1, <2>1 DEF MethodWorkers
  <2>3. MethodTyped' /\ MethodFits'
    BY <1>1, <2>1, <2>2 DEF MethodTyped, MethodFits
  <2>4. QED
    BY <2>1, <2>2, <2>3, SameFrames DEF MethodInv
<1>5. CASE Methods!GiveUp
  <2>1. /\ method_worker.pc = "give_up" /\ requested' = "fast_depth"
        /\ UNCHANGED <<resets, method_ready, loaded, anchored, method_gui, method_frames>>
        /\ method_worker' = [method_worker EXCEPT !.pc = "loop"]
    BY <1>5 DEF Methods!GiveUp, Methods!WorkerOnly
  <2>2. /\ method_worker' \in MethodWorkers /\ method_worker'.pc = "loop"
        /\ method_worker'.mode = method_worker.mode
        /\ method_worker'.seen = method_worker.seen
        /\ method_worker'.frame = method_worker.frame
    BY <1>1, <2>1 DEF MethodWorkers
  <2>3. MethodTyped' /\ MethodFits'
    BY <1>1, <2>1, <2>2
       DEF MethodInv, MethodTyped, MethodFits, Fits, AnchorFits, KnownMethods
  <2>4. QED
    BY <2>1, <2>2, <2>3, SameFrames DEF MethodInv
<1>6. QED
  BY <1>2, <1>3, <1>4, <1>5

\* Giving the frame in hand to a model takes it out of the hand.
LEMMA GivesKeeps ==
  ASSUME MethodInv, NEW then \in {"loop", "give_up"}, Methods!Gives(then)
  PROVE  /\ method_worker.pc = "infer" /\ method_worker'.pc = then
         /\ method_worker'.mode = method_worker.mode
         /\ method_worker'.seen = method_worker.seen
         /\ MethodTyped' /\ FewOldFrames' /\ UNCHANGED <<requested, loaded, resets>>
<1> DEFINE given == Methods!Count(method_worker.frame)
<1>1. /\ method_worker \in MethodWorkers /\ requested \in KnownMethods /\ resets \in Nat
      /\ method_frames \in MethodFrames /\ method_worker.seen <= resets
  BY DEF MethodInv, MethodTyped
<1>2. given \in Nat
  BY CountIs
<1>3. /\ method_worker.pc = "infer"
      /\ method_worker' = [method_worker EXCEPT !.pc = then, !.frame = None]
      /\ method_frames' = [method_frames EXCEPT !.old = @ + given]
      /\ UNCHANGED <<requested, loaded, resets, method_gui>>
  BY DEF Methods!Gives, Methods!WorkerOnly
<1> HIDE DEF given
<1>4. /\ method_worker' \in MethodWorkers /\ method_worker'.pc = then
      /\ method_worker'.mode = method_worker.mode
      /\ method_worker'.seen = method_worker.seen /\ method_worker'.frame = None
  BY <1>1, <1>3 DEF MethodWorkers
<1>5. /\ method_frames' \in MethodFrames /\ method_frames'.old = method_frames.old + given
      /\ method_frames'.input = method_frames.input
      /\ method_frames'.read = method_frames.read
      /\ method_frames'.queue = method_frames.queue
  BY <1>1, <1>2, <1>3 DEF MethodFrames
<1>6. MethodTyped'
  BY <1>1, <1>3, <1>4, <1>5 DEF MethodTyped
<1>7. FewOldFrames'
  <2>1. /\ Methods!Count(method_worker.frame)' = 0
        /\ Methods!Count(method_frames.queue)' = Methods!Count(method_frames.queue)
        /\ Methods!Count(method_frames.read)' = Methods!Count(method_frames.read)
    BY <1>4, <1>5 DEF Methods!Count, Methods!Old
  <2>2. /\ Methods!Count(method_frames.queue) \in Int
        /\ Methods!Count(method_frames.read) \in Int /\ method_frames.old \in Int
    BY <1>1, CountIs DEF MethodFrames
  <2>3. /\ given = Methods!Count(method_worker.frame) /\ MethodTyped /\ FewOldFrames
    BY DEF given, MethodInv
  <2>4. QED
    BY <1>2, <1>3, <1>5, <1>6, <2>1, <2>2, <2>3, FewStayFew
<1>8. QED
  BY <1>3, <1>4, <1>6, <1>7

\* One turn of the loop: a frame is taken, a reset is noticed, the frame is used.
LEMMA TurnKeepsMethodInv ==
  ASSUME MethodInv,
         \/ Methods!TakeFrame \/ Methods!NoticeReset \/ Methods!Postpone
         \/ Methods!InferSt4r \/ Methods!Infer \/ Methods!InferFails
  PROVE  MethodInv'
<1>1. /\ method_worker \in MethodWorkers /\ requested \in KnownMethods /\ resets \in Nat
      /\ method_frames \in MethodFrames /\ method_worker.seen <= resets
  BY DEF MethodInv, MethodTyped
<1>2. CASE Methods!TakeFrame
  <2>1. /\ method_worker.pc = "loop" /\ method_worker.mode # "rgbd"
        /\ method_worker' = [method_worker EXCEPT !.pc = "look",
             !.frame = IF method_frames.queue # None THEN method_frames.queue ELSE @]
        /\ method_frames' = [method_frames EXCEPT !.queue = None]
        /\ UNCHANGED <<requested, resets, method_ready, loaded, anchored, method_gui>>
    BY <1>2 DEF Methods!TakeFrame, Methods!switchVars, Methods!WorkerOnly
  <2>2. /\ method_worker' \in MethodWorkers /\ method_worker'.pc = "look"
        /\ method_worker'.mode = method_worker.mode
        /\ method_worker'.seen = method_worker.seen
        /\ method_worker'.frame = IF method_frames.queue # None THEN method_frames.queue
                                  ELSE method_worker.frame
    BY <1>1, <2>1 DEF MethodWorkers, MethodFrames
  <2>3. /\ method_frames' \in MethodFrames /\ method_frames'.old = method_frames.old
        /\ method_frames'.input = method_frames.input
        /\ method_frames'.read = method_frames.read /\ method_frames'.queue = None
    BY <1>1, <2>1 DEF MethodFrames
  <2>4. MethodTyped' /\ MethodFits'
    BY <1>1, <2>1, <2>2, <2>3 DEF MethodInv, MethodTyped, MethodFits, Fits, AnchorFits
  <2>5. FewOldFrames'
    <3>1. CASE method_frames.queue = None
      BY <2>1, <2>2, <2>3, <2>4, <3>1, OldSteps DEF MethodInv
    <3>2. CASE method_frames.queue # None
      <4>1. method_worker'.frame = method_frames.queue
        BY <2>2, <3>2
      <4>2. /\ Methods!Count(method_worker.frame)' = Methods!Count(method_frames.queue)
            /\ Methods!Count(method_frames.queue)' = 0
            /\ Methods!Count(method_frames.read)' = Methods!Count(method_frames.read)
        BY <2>3, <4>1 DEF Methods!Count, Methods!Old
      <4>3. /\ Methods!Count(method_frames.queue) \in Int
            /\ Methods!Count(method_frames.read) \in Int
            /\ Methods!Count(method_worker.frame) \in Nat /\ method_frames.old \in Int
        BY <1>1, CountIs DEF MethodFrames
      <4>4. QED
        BY <2>1, <2>3, <2>4, <4>2, <4>3, FewStayFew DEF MethodInv
    <3>3. QED
      BY <3>1, <3>2
  <2>6. QED
    BY <2>4, <2>5 DEF MethodInv
<1>3. CASE Methods!NoticeReset
  <2>1. /\ method_worker.pc = "look"
        /\ anchored' = IF method_worker.seen = resets THEN anchored ELSE None
        /\ UNCHANGED <<requested, resets, method_ready, loaded, method_gui, method_frames>>
        /\ method_worker' = [method_worker EXCEPT !.pc = "infer", !.seen = resets]
    BY <1>3 DEF Methods!NoticeReset, Methods!switchVars, Methods!WorkerOnly
  <2>2. /\ method_worker' \in MethodWorkers /\ method_worker'.pc = "infer"
        /\ method_worker'.mode = method_worker.mode /\ method_worker'.seen = resets
        /\ method_worker'.frame = method_worker.frame
    BY <1>1, <2>1 DEF MethodWorkers
  <2>3. MethodTyped' /\ MethodFits'
    BY <1>1, <2>1, <2>2 DEF MethodInv, MethodTyped, MethodFits, Fits, AnchorFits
  <2>4. QED
    BY <2>1, <2>2, <2>3, SameFrames DEF MethodInv
<1>4. CASE Methods!Postpone
  <2>1. /\ method_worker.pc = "infer" /\ method_worker' = [method_worker EXCEPT !.pc = "loop"]
        /\ UNCHANGED <<requested, resets, method_ready, loaded, anchored>>
        /\ UNCHANGED <<method_gui, method_frames>>
    BY <1>4 DEF Methods!Postpone, Methods!switchVars, Methods!WorkerOnly
  <2>2. /\ method_worker' \in MethodWorkers /\ method_worker'.pc = "loop"
        /\ method_worker'.mode = method_worker.mode
        /\ method_worker'.seen = method_worker.seen
        /\ method_worker'.frame = method_worker.frame
    BY <1>1, <2>1 DEF MethodWorkers
  <2>3. MethodTyped' /\ MethodFits'
    BY <1>1, <2>1, <2>2 DEF MethodInv, MethodTyped, MethodFits, Fits, AnchorFits
  <2>4. QED
    BY <2>1, <2>2, <2>3, SameFrames DEF MethodInv
<1>5. Methods!Anchor.since = resets
  BY DEF Methods!Anchor
<1>6. CASE Methods!InferSt4r
  <2>1. Methods!Gives("loop") /\ anchored' \in {anchored, Methods!Anchor}
        /\ method_ready' = method_ready
    BY <1>6 DEF Methods!InferSt4r
  <2>2. MethodFits'
    BY <1>1, <1>5, <2>1, GivesKeeps DEF MethodInv, MethodFits, Fits, AnchorFits
  <2>3. QED
    BY <2>1, <2>2, GivesKeeps DEF MethodInv
<1>7. CASE Methods!Infer
  <2>1. Methods!Gives("loop") /\ UNCHANGED <<anchored, method_ready>>
    BY <1>7 DEF Methods!Infer
  <2>2. MethodFits'
    BY <1>1, <2>1, GivesKeeps DEF MethodInv, MethodFits, Fits, AnchorFits
  <2>3. QED
    BY <2>1, <2>2, GivesKeeps DEF MethodInv
<1>8. CASE Methods!InferFails
  <2>1. anchored' \in {anchored, Methods!Anchor}
    BY <1>8 DEF Methods!InferFails
  <2>2. PICK then \in {"loop", "give_up"} :
          /\ Methods!Gives(then)
          /\ method_ready' \in {method_ready, method_ready \ {"mast3r_slam"}}
          /\ then = "give_up" => method_worker.mode = "mast3r_slam"
    BY <1>8 DEF Methods!InferFails
  <2>3. /\ method_worker.pc = "infer" /\ method_worker'.pc = then
        /\ method_worker'.mode = method_worker.mode
        /\ method_worker'.seen = method_worker.seen
        /\ MethodTyped' /\ FewOldFrames' /\ UNCHANGED <<requested, loaded, resets>>
    BY <2>2, GivesKeeps
  <2>4. Fits(method_worker.mode)'
    BY <2>2, <2>3 DEF MethodInv, MethodFits, Fits
  <2>5. AnchorFits'
    BY <1>1, <1>5, <2>1, <2>3 DEF MethodInv, MethodFits, AnchorFits
  <2>6. QED
    BY <2>3, <2>4, <2>5 DEF MethodInv, MethodFits
<1>9. QED
  BY <1>2, <1>3, <1>4, <1>6, <1>7, <1>8

\* The dashboard's thread and capture.
LEMMA OthersKeepMethodInv ==
  ASSUME MethodsAreKnown, MethodInv,
         \/ \E asked \in DepthModes : Methods!RequestMethod(asked)
         \/ Methods!ChangeInput \/ Methods!ClearQueue \/ Methods!CountReset
         \/ Methods!CaptureRead \/ Methods!CapturePut \/ UNCHANGED Methods!vars
  PROVE  MethodInv'
<1>1. /\ method_worker \in MethodWorkers /\ requested \in KnownMethods /\ resets \in Nat
      /\ method_frames \in MethodFrames /\ method_worker.seen <= resets
  BY DEF MethodInv, MethodTyped
<1>2. /\ UNCHANGED <<method_ready, loaded, method_worker, anchored>>
      /\ requested' \in KnownMethods /\ resets' \in {resets, resets + 1}
  BY <1>1 DEF Methods!RequestMethod, Methods!ChangeInput, Methods!ClearQueue,
        Methods!CountReset, Methods!CaptureRead, Methods!CapturePut, Methods!vars,
        Methods!switchVars, MethodsAreKnown
<1>3. ASSUME method_frames' \in MethodFrames PROVE MethodTyped' /\ MethodFits'
  <2>1. resets' \in Nat /\ method_worker.seen \in Nat /\ method_worker.seen <= resets'
    BY <1>1, <1>2 DEF MethodWorkers
  <2>2. MethodTyped'
    BY <1>1, <1>2, <1>3, <2>1 DEF MethodTyped
  <2>3. MethodFits'
    BY <1>2 DEF MethodInv, MethodFits, Fits, AnchorFits
  <2>4. QED
    BY <2>2, <2>3
<1>4. CASE (\E asked \in DepthModes : Methods!RequestMethod(asked)) \/ UNCHANGED Methods!vars
  <2>1. UNCHANGED <<method_gui, method_frames>>
    BY <1>4 DEF Methods!RequestMethod, Methods!vars
  <2>2. QED
    BY <1>1, <1>2, <1>3, <2>1, SameFrames DEF MethodInv
<1>5. CASE Methods!ChangeInput
  <2>1. /\ method_gui' = "clear"
        /\ method_frames' = [method_frames EXCEPT !.input = @ + 1]
    BY <1>5 DEF Methods!ChangeInput
  <2>2. method_frames' \in MethodFrames
    BY <1>1, <2>1 DEF MethodFrames
  <2>3. QED
    BY <1>3, <2>1, <2>2 DEF MethodInv, FewOldFrames
<1>6. CASE Methods!ClearQueue
  <2>1. method_frames' = [method_frames EXCEPT !.queue = None, !.old = 0]
    BY <1>6 DEF Methods!ClearQueue
  <2>2. /\ method_frames' \in MethodFrames /\ method_frames'.old = 0
        /\ method_frames'.queue = None
    BY <1>1, <2>1 DEF MethodFrames
  <2>3. /\ Methods!Count(method_worker.frame)' \in {0, 1}
        /\ Methods!Count(method_frames.queue)' = 0
        /\ Methods!Count(method_frames.read)' \in {0, 1}
    BY <2>2 DEF Methods!Count, Methods!Old
  <2>4. FewOldFrames'
    BY <2>2, <2>3 DEF FewOldFrames
  <2>5. QED
    BY <1>3, <2>2, <2>4 DEF MethodInv
<1>7. CASE Methods!CountReset
  <2>1. /\ method_gui = "reset" /\ method_gui' = "idle" /\ UNCHANGED method_frames
    BY <1>7 DEF Methods!CountReset
  <2>2. FewOldFrames'
    BY <1>2, <2>1 DEF MethodInv, FewOldFrames, Methods!Count, Methods!Old
  <2>3. QED
    BY <1>1, <1>3, <2>1, <2>2 DEF MethodInv
<1>8. CASE Methods!CaptureRead
  <2>1. /\ method_frames' = [method_frames EXCEPT !.read = method_frames.input]
        /\ method_frames.read = None /\ method_gui' = method_gui
    BY <1>8 DEF Methods!CaptureRead
  <2>2. /\ method_frames' \in MethodFrames /\ method_frames'.old = method_frames.old
        /\ method_frames'.input = method_frames.input
        /\ method_frames'.read = method_frames.input
        /\ method_frames'.queue = method_frames.queue
    BY <1>1, <2>1 DEF MethodFrames
  <2>3. QED
    BY <1>2, <1>3, <2>1, <2>2, OldSteps DEF MethodInv
<1>9. CASE Methods!CapturePut
  <2>1. /\ method_frames' = [method_frames EXCEPT !.queue = method_frames.read, !.read = None]
        /\ method_gui' = method_gui
    BY <1>9 DEF Methods!CapturePut
  <2>2. /\ method_frames' \in MethodFrames /\ method_frames'.old = method_frames.old
        /\ method_frames'.input = method_frames.input
        /\ method_frames'.read = None
        /\ method_frames'.queue = method_frames.read
    BY <1>1, <2>1 DEF MethodFrames
  <2>3. /\ Methods!Count(method_frames.queue)' = Methods!Count(method_frames.read)
        /\ Methods!Count(method_frames.read)' = 0
        /\ Methods!Count(method_worker.frame)' = Methods!Count(method_worker.frame)
    BY <1>2, <2>2 DEF Methods!Count, Methods!Old
  <2>4. /\ Methods!Count(method_frames.queue) \in Nat
        /\ Methods!Count(method_frames.read) \in Int
        /\ Methods!Count(method_worker.frame) \in Int /\ method_frames.old \in Int
    BY <1>1, CountIs DEF MethodFrames
  <2>5. QED
    BY <1>3, <2>1, <2>2, <2>3, <2>4, FewStayFew DEF MethodInv
<1>10. QED
  BY <1>4, <1>5, <1>6, <1>7, <1>8, <1>9

LEMMA MethodInvKept ==
  ASSUME MethodsAreKnown, MethodInv, [Methods!Next]_(Methods!vars) PROVE MethodInv'
  BY CommitKeepsMethodInv, SwitchKeepsMethodInv, TurnKeepsMethodInv, OthersKeepMethodInv
     DEF Methods!Next, Methods!Worker
-----------------------------------------------------------------------------
(* Mast3rSlam.  The adapter and the process pass one token back and forth: *)
(* a request that is written, then served, then an answer that is written, *)
(* until the caller has it or has given up and closed the process.         *)

calls == v1
client == v2
usable == v3
process == v4
stdin == v5
stdout == v6
USE DEF calls, client, usable, process, stdin, stdout

SlamRequests == [command : {"start", "infer", "reset"}, number : Nat]
SlamMaps == [keyframes : Nat, sequence : {0, 1}]
SlamProcesses ==
    [pc : {"starting", "read", "infer", "reset", "exited"}, map : SlamMaps,
     serves : SlamRequests \union {None}]

\* Neither a request nor a process is the value that stands for none.
NoneIsNoRecord == None \notin SlamRequests /\ None \notin SlamProcesses

SlamTyped ==
    /\ calls \in Nat /\ usable \in BOOLEAN
    /\ client \in SlamRequests \union {None}
    /\ process \in SlamProcesses \union {None}

\* Where the token is while a request is under way at a process that is alive.
Written == stdout = <<>> /\ stdin = <<client>> /\ process.pc = "read"
           /\ client.command # "start"
Served == stdout = <<>> /\ stdin = <<>> /\ process.serves = client
          /\ process.pc = (IF client.command = "start" THEN "starting" ELSE client.command)
Replied(ok) == stdout = <<[to |-> client.number, ok |-> ok]>>

Token ==
    /\ stdout = <<>> \/ (client # None /\ \E ok \in BOOLEAN : Replied(ok))
    /\ Slam!available =>
          \/ client = None /\ stdin = <<>> /\ process.pc = "read"
          \/ client # None /\ (Written \/ Served)
          \/ stdout # <<>> /\ stdin = <<>> /\ process.pc = "read"

\* A map that holds a keyframe of an inference that failed belongs to a method that
\* is out of use, or whose failure the caller is about to read.
Spoiled == process.map.sequence = 0 /\ process.map.keyframes # 0
MapIsClean ==
    /\ client # None /\ client.command = "infer" => usable
    /\ client # None /\ client.command = "start" /\ Slam!available => ~Spoiled
    /\ Slam!available /\ Spoiled =>
          ~usable \/ (client # None /\ client.command = "infer" /\ Replied(FALSE))

SlamInv == SlamTyped /\ Token /\ MapIsClean

-----------------------------------------------------------------------------
LEMMA SlamInvSays == SlamInv => Slam!AnswersMatch /\ Slam!SkippedResetIsClean
<1> SUFFICES ASSUME SlamInv PROVE Slam!AnswersMatch /\ Slam!SkippedResetIsClean
  OBVIOUS
<1>1. Slam!AnswersMatch
  <2>1. CASE stdout = <<>>
    <3>1. Len(stdout) = 0 /\ DOMAIN stdout = {}
      BY <2>1
    <3>2. QED
      BY <3>1 DEF Slam!AnswersMatch
  <2>2. ASSUME NEW ok \in BOOLEAN, client # None, Replied(ok) PROVE Slam!AnswersMatch
    <3>1. Len(stdout) = 1 /\ DOMAIN stdout = {1} /\ stdout[1].to = client.number
      BY <2>2 DEF Replied
    <3>2. QED
      BY <2>2, <3>1 DEF Slam!AnswersMatch
  <2>3. QED
    BY <2>1, <2>2 DEF SlamInv, Token
<1>2. Slam!SkippedResetIsClean
  BY DEF SlamInv, MapIsClean, Spoiled, Slam!SkippedResetIsClean
<1>3. QED
  BY <1>1, <1>2

LEMMA SlamInvInit == Slam!Init => SlamInv
<1> SUFFICES ASSUME Slam!Init PROVE SlamInv
  OBVIOUS
<1>1. calls = 0 /\ client = None /\ usable = FALSE /\ process = None /\ stdout = <<>>
  BY DEF Slam!Init
<1>2. ~Slam!available
  BY <1>1 DEF Slam!available
<1>3. QED
  BY <1>1, <1>2 DEF SlamInv, SlamTyped, Token, MapIsClean

\* The calls of the adapter.
LEMMA AskingKeepsSlamInv ==
  ASSUME NoneIsNoRecord, SlamInv, Slam!Load \/ Slam!Send("infer") \/ Slam!Send("reset")
  PROVE  SlamInv'
<1>1. ASSUME NEW command \in {"start", "infer", "reset"}, Slam!Call(command)
      PROVE  /\ client = None /\ calls' = calls + 1 /\ calls' \in Nat
             /\ client' = [command |-> command, number |-> calls + 1]
             /\ client' \in SlamRequests /\ client' # None /\ usable' = usable
             /\ stdout = <<>>
  <2>1. /\ client = None /\ calls' = calls + 1 /\ usable' = usable
        /\ client' = [command |-> command, number |-> calls + 1]
    BY <1>1 DEF Slam!Call, Slam!Request
  <2>2. calls \in Nat
    BY DEF SlamInv, SlamTyped
  <2>3. client' \in SlamRequests
    BY <2>1, <2>2 DEF SlamRequests
  <2>4. QED
    BY <2>1, <2>2, <2>3 DEF NoneIsNoRecord, SlamInv, Token
<1>2. CASE Slam!Load
  <2>1. Slam!Call("start")
    BY <1>2 DEF Slam!Load
  <2>2. /\ process' = [pc |-> "starting", map |-> [keyframes |-> 0, sequence |-> 0],
                       serves |-> [command |-> "start", number |-> calls + 1]]
        /\ stdin' = <<>> /\ stdout' = <<>>
    BY <1>2 DEF Slam!Load, Slam!EmptyMap, Slam!Request
  <2>3. calls \in Nat /\ usable \in BOOLEAN
    BY DEF SlamInv, SlamTyped
  <2>4. process' \in SlamProcesses /\ process'.serves = client'
        /\ process'.map.keyframes = 0 /\ process'.pc = "starting"
    BY <1>1, <2>1, <2>2, <2>3 DEF SlamProcesses, SlamRequests, SlamMaps
  <2>5. SlamTyped'
    BY <1>1, <2>1, <2>3, <2>4 DEF SlamTyped
  <2>6. client'.command = "start"
    BY <1>1, <2>1
  <2>7. Token' /\ MapIsClean'
    BY <1>1, <2>1, <2>2, <2>4, <2>6 DEF Token, Served, MapIsClean, Spoiled
  <2>8. QED
    BY <2>5, <2>7 DEF SlamInv
<1>3. ASSUME NEW command \in {"infer", "reset"}, Slam!Send(command) PROVE SlamInv'
  <2>1. /\ Slam!Call(command) /\ Slam!available /\ (command = "infer" => usable)
        /\ stdin' = Append(stdin, [command |-> command, number |-> calls + 1])
        /\ UNCHANGED <<process, stdout>>
    BY <1>3 DEF Slam!Send, Slam!Request
  <2>2. client = None /\ stdout = <<>> /\ stdin = <<>> /\ process.pc = "read"
    BY <1>1, <2>1 DEF SlamInv, Token
  <2>3. stdin' = <<client'>> /\ client'.command = command
    BY <1>1, <2>1, <2>2
  <2>4. SlamTyped'
    BY <1>1, <2>1 DEF SlamInv, SlamTyped
  <2>5. Token'
    BY <1>1, <2>1, <2>2, <2>3 DEF Token, Written
  <2>6. MapIsClean'
    BY <1>1, <2>1, <2>2, <2>3 DEF SlamInv, MapIsClean, Spoiled, Slam!available
  <2>7. QED
    BY <2>4, <2>5, <2>6 DEF SlamInv
<1>4. QED
  BY <1>2, <1>3

\* The caller reads the answer, or gives up.
LEMMA HearingKeepsSlamInv ==
  ASSUME NoneIsNoRecord, SlamInv,
         Slam!FindMissing \/ Slam!Close \/ Slam!Receive \/ Slam!FindEof \/ Slam!TimeOut
  PROVE  SlamInv'
<1> USE DEF Slam!available
<1>1. CASE Slam!FindMissing
  BY <1>1 DEF Slam!FindMissing, SlamInv, SlamTyped, Token, MapIsClean
<1>2. ASSUME client' = None, calls' = calls, usable' \in BOOLEAN, Slam!Closed
      PROVE  SlamInv'
  BY <1>2 DEF Slam!Closed, SlamInv, SlamTyped, Token, MapIsClean
<1>3. CASE Slam!Close
  BY <1>2, <1>3 DEF Slam!Close
<1>4. ASSUME NEW ok \in BOOLEAN, client # None,
   Slam!UsableIf(ok) PROVE usable' \in BOOLEAN
  BY <1>4 DEF Slam!UsableIf, SlamInv, SlamTyped
<1>5. CASE Slam!TimeOut
  BY <1>2, <1>4, <1>5 DEF Slam!TimeOut
<1>6. CASE Slam!FindEof
  <2>1. client' = None /\ calls' = calls /\ usable' \in BOOLEAN /\ stdout = <<>>
        /\ ~Slam!available
    BY <1>4, <1>6 DEF Slam!FindEof
  <2>2. CASE UNCHANGED <<process, stdin, stdout>>
    BY <2>1, <2>2 DEF SlamInv, SlamTyped, Token, MapIsClean
  <2>3. QED
    BY <1>2, <1>6, <2>1, <2>2 DEF Slam!FindEof
<1>7. CASE Slam!Receive
  <2>1. PICK ok \in BOOLEAN : Replied(ok)
    BY <1>7 DEF Slam!Receive, SlamInv, Token
  <2>2. Head(stdout).ok = ok /\ Tail(stdout) = <<>> /\ stdout # <<>>
    BY <2>1 DEF Replied
  <2>3. client # None /\ client' = None /\ calls' = calls /\ Slam!UsableIf(ok)
        /\ usable' \in BOOLEAN
    BY <1>4, <1>7, <2>2 DEF Slam!Receive
  <2>4. CASE Slam!Closed
    BY <1>2, <2>3, <2>4
  <2>5. CASE /\ stdout' = Tail(stdout) /\ UNCHANGED <<process, stdin>>
             /\ (ok \/ client.command = "infer")
    <3>1. Slam!available => stdin = <<>> /\ process.pc = "read"
      BY <2>2, <2>3 DEF SlamInv, Token, Written, Served
    <3>2. SlamTyped' /\ Token'
      BY <2>2, <2>3, <2>5, <3>1 DEF SlamInv, SlamTyped, Token
    <3>3. Slam!available /\ Spoiled => ~usable'
      <4>1. CASE client.command = "reset"
        BY <2>3, <4>1 DEF Slam!UsableIf, SlamInv, MapIsClean
      <4>2. CASE client.command = "start"
        BY <2>3, <4>2 DEF SlamInv, MapIsClean
      <4>3. CASE client.command = "infer"
        <5>1. usable' = ok
          BY <2>3, <4>3 DEF Slam!UsableIf
        <5>2. Replied(FALSE) => ~ok
          BY <2>1, <2>2 DEF Replied
        <5>3. QED
          BY <2>3, <4>3, <5>1, <5>2 DEF SlamInv, MapIsClean
      <4>4. QED
        BY <2>3, <4>1, <4>2, <4>3 DEF SlamInv, SlamTyped, SlamRequests
    <3>4. MapIsClean'
      BY <2>3, <2>5, <3>3 DEF MapIsClean, Spoiled
    <3>5. QED
      BY <3>2, <3>4 DEF SlamInv
  <2>6. QED
    BY <1>7, <2>2, <2>4, <2>5 DEF Slam!Receive
<1>8. QED
  BY <1>1, <1>3, <1>5, <1>6, <1>7

\* The process answers what it serves.
LEMMA ReplyKeepsSlamInv ==
  ASSUME NoneIsNoRecord, SlamInv, Slam!available, process.pc \in {"starting",
     "infer", "reset"},
         UNCHANGED <<calls, client, usable>>, NEW ok \in BOOLEAN, NEW map \in SlamMaps,
         Slam!Reply(ok, map),
         map.sequence = 0 /\ map.keyframes # 0 =>
             \/ process.pc = "infer" /\ ~ok
             \/ process.pc = "reset" /\ map = process.map
  PROVE  SlamInv'
<1>1. client # None /\ Served /\ process \in SlamProcesses
  BY DEF SlamInv, SlamTyped, Token, Written, Slam!available
<1>2. stdout' = <<[to |-> client.number, ok |-> ok]>> /\ stdin' = stdin
  BY <1>1 DEF Slam!Reply, Slam!Answer, Served
<1>3. process' \in SlamProcesses /\ process'.pc = "read" /\ process'.map = map
  BY <1>1 DEF Slam!Reply, SlamProcesses
<1>4. SlamTyped'
  BY <1>3 DEF SlamInv, SlamTyped
<1>5. Token'
  BY <1>1, <1>2, <1>3 DEF Token, Replied, Served
<1>6. MapIsClean'
  <2>1. CASE ~(map.sequence = 0 /\ map.keyframes # 0)
    BY <1>3, <2>1 DEF SlamInv, MapIsClean, Spoiled
  <2>2. CASE process.pc = "infer" /\ ~ok
    <3>1. client.command = "infer"
      BY <1>1, <2>2 DEF Served, SlamInv, SlamTyped, SlamRequests
    <3>2. Replied(FALSE)'
      BY <1>2, <2>2 DEF Replied
    <3>3. QED
      BY <1>1, <3>1, <3>2 DEF SlamInv, MapIsClean
  <2>3. CASE process.pc = "reset" /\ map = process.map
    <3>1. client.command = "reset"
      BY <1>1, <2>3 DEF Served, SlamInv, SlamTyped, SlamRequests
    <3>2. QED
      BY <1>3, <2>3, <3>1 DEF SlamInv, MapIsClean, Spoiled
  <2>4. QED
    BY <2>1, <2>2, <2>3
<1>7. QED
  BY <1>4, <1>5, <1>6 DEF SlamInv

LEMMA ProcessKeepsSlamInv ==
  ASSUME NoneIsNoRecord, SlamInv, Slam!Worker PROVE SlamInv'
<1>1. Slam!available /\ process \in SlamProcesses /\ UNCHANGED <<calls, client, usable>>
  BY DEF Slam!Worker, Slam!Start, Slam!ReadMessage, Slam!ResetMap, Slam!Infer, Slam!Die,
     Slam!Serving, Slam!available, SlamInv, SlamTyped
<1>2. process.map \in SlamMaps /\ process.map.keyframes \in Nat
      /\ process.map.sequence \in {0, 1}
  BY <1>1 DEF SlamProcesses, SlamMaps
<1>3. Slam!EmptyMap \in SlamMaps /\ Slam!EmptyMap.keyframes = 0
  BY DEF Slam!EmptyMap, SlamMaps
\* A process that leaves, whatever it has said before.
<1>4. ASSUME process' \in SlamProcesses, process'.pc = "exited", stdin' = stdin,
             stdout' = <<>> \/ (client # None /\ \E ok \in BOOLEAN : Replied(ok)')
      PROVE  SlamInv'
  BY <1>1, <1>4 DEF SlamInv, SlamTyped, Token, MapIsClean, Slam!available
<1>5. CASE Slam!Start
  <2>1. process.pc = "starting"
    BY <1>5 DEF Slam!Start, Slam!Serving
  <2>2. CASE Slam!Reply(TRUE, Slam!EmptyMap)
    BY <1>1, <1>3, <2>1, <2>2, ReplyKeepsSlamInv
  <2>3. CASE /\ stdout' = Append(stdout, Slam!Answer(process.serves, FALSE))
             /\ process' = [process EXCEPT !.pc = "exited"] /\ UNCHANGED stdin
    <3>1. client # None /\ Served
      BY <1>1, <2>1 DEF SlamInv, Token, Written
    <3>2. Replied(FALSE)'
      BY <1>1, <2>3, <3>1 DEF Served, Replied, Slam!Answer
    <3>3. process' \in SlamProcesses /\ process'.pc = "exited"
      BY <1>1, <2>3 DEF SlamProcesses
    <3>4. QED
      BY <1>4, <2>3, <3>1, <3>2, <3>3
  <2>4. QED
    BY <1>5, <2>2, <2>3 DEF Slam!Start
<1>6. CASE Slam!ReadMessage
  <2>1. /\ process.pc = "read" /\ stdin # <<>> /\ stdin' = Tail(stdin) /\ stdout' = stdout
        /\ process' = [process EXCEPT !.pc = Head(stdin).command,
           !.serves = Head(stdin)]
    BY <1>6 DEF Slam!ReadMessage, Slam!Serving
  <2>2. client # None /\ Written
    BY <1>1, <2>1 DEF SlamInv, Token, Served
  <2>3. /\ stdin' = <<>> /\ client \in SlamRequests
        /\ client.command \in {"infer", "reset"}
        /\ process' = [process EXCEPT !.pc = client.command, !.serves = client]
    BY <2>1, <2>2 DEF Written, SlamInv, SlamTyped, SlamRequests
  <2>4. /\ process' \in SlamProcesses /\ process'.pc = client.command
        /\ process'.serves = client /\ process'.map = process.map
    BY <1>1, <2>3 DEF SlamProcesses
  <2>5. SlamTyped' /\ Token'
    BY <1>1, <2>1, <2>2, <2>3, <2>4 DEF SlamInv, SlamTyped, Token, Written, Served
  <2>6. MapIsClean'
    BY <1>1, <2>1, <2>4 DEF SlamInv, MapIsClean, Spoiled, Replied
  <2>7. QED
    BY <2>5, <2>6 DEF SlamInv
<1>7. CASE Slam!ResetMap
  <2>1. process.pc = "reset"
        /\ Slam!Reply(TRUE,
           IF process.map.sequence > 0 THEN Slam!EmptyMap ELSE process.map)
    BY <1>7 DEF Slam!ResetMap, Slam!Serving
  <2>2. QED
    BY <1>1, <1>2, <1>3, <2>1, ReplyKeepsSlamInv
<1>8. CASE Slam!Infer
  <2>1. process.pc = "infer"
    BY <1>8 DEF Slam!Infer, Slam!Serving
  <2>2. Slam!Grown(process.map) \in SlamMaps
    BY <1>2 DEF Slam!Grown, SlamMaps
  <2>3. \A map \in SlamMaps : Slam!Tracked(map) \in SlamMaps /\ Slam!Tracked(map).sequence = 1
    BY DEF Slam!Tracked, SlamMaps
  <2>4. \/ \E map \in SlamMaps : Slam!Reply(TRUE, Slam!Tracked(map))
        \/ \E map \in SlamMaps : Slam!Reply(FALSE, map)
    BY <1>2, <1>8, <2>2 DEF Slam!Infer, Slam!InferFirst, Slam!InferNext
  <2>5. ASSUME NEW map \in SlamMaps, Slam!Reply(TRUE, Slam!Tracked(map)) PROVE SlamInv'
    <3> DEFINE tracked == Slam!Tracked(map)
    <3>1. tracked \in SlamMaps /\ tracked.sequence = 1 /\ Slam!Reply(TRUE, tracked)
      BY <2>3, <2>5
    <3>2. tracked.sequence # 0
      BY <3>1
    <3> HIDE DEF tracked
    <3>3. QED
      BY <1>1, <2>1, <3>1, <3>2, ReplyKeepsSlamInv
  <2>6. ASSUME NEW map \in SlamMaps, Slam!Reply(FALSE, map) PROVE SlamInv'
    BY <1>1, <2>1, <2>6, ReplyKeepsSlamInv
  <2>7. QED
    BY <2>4, <2>5, <2>6
<1>9. CASE Slam!Die
  <2>1. /\ process' = [process EXCEPT !.pc = "exited", !.serves = None]
        /\ UNCHANGED <<stdin, stdout>>
    BY <1>9 DEF Slam!Die
  <2>2. process' \in SlamProcesses /\ process'.pc = "exited"
    BY <1>1, <2>1 DEF SlamProcesses
  <2>3. QED
    BY <1>1, <1>4, <2>1, <2>2 DEF SlamInv, Token, Replied
<1>10. QED
  BY <1>5, <1>6, <1>7, <1>8, <1>9 DEF Slam!Worker

LEMMA SlamInvKept ==
  ASSUME NoneIsNoRecord, SlamInv, [Slam!Next]_(Slam!vars) PROVE SlamInv'
<1>1. CASE UNCHANGED Slam!vars
  BY <1>1 DEF Slam!vars, Slam!available, SlamInv, SlamTyped, Token, Written, Served,
     Replied, MapIsClean, Spoiled
<1>2. QED
  BY <1>1, AskingKeepsSlamInv, HearingKeepsSlamInv, ProcessKeepsSlamInv
     DEF Slam!Next, Slam!Adapter
-----------------------------------------------------------------------------
(* BackgroundFilter.  A frame is bridged only if the count of frames       *)
(* without evidence, which it has just raised, has not passed the limit,   *)
(* and that count starts again only when a window settles.                 *)

invalid == v7
bridged == v9
factor == v5
USE DEF invalid, bridged, factor

HoldIsCount == AlignmentHold \in Nat

DriftInv ==
    /\ bridged \in Nat /\ invalid \in Nat
    /\ bridged <= invalid /\ bridged <= AlignmentHold

LEMMA DriftInvSays == DriftInv => Background!LockIsBridgedBriefly
  BY DEF DriftInv, Background!LockIsBridgedBriefly

LEMMA DriftInvInit == HoldIsCount /\ Background!Init => DriftInv
  BY DEF HoldIsCount, Background!Init, DriftInv

LEMMA DriftInvKept ==
  ASSUME HoldIsCount, DriftInv, [Background!Next]_(Background!filterVars) PROVE DriftInv'
<1> USE DEF HoldIsCount, DriftInv
<1>1. CASE UNCHANGED <<invalid, bridged>>
  BY <1>1
<1>2. CASE Background!Hold
  BY <1>2 DEF Background!Hold
<1>3. ASSUME NEW w, Background!Follow(w) PROVE DriftInv'
  <2> DEFINE arrived == factor' = Background!Target(w)
  <2>1. IF arrived THEN invalid' = 0 /\ bridged' = 0 ELSE UNCHANGED <<invalid, bridged>>
    BY <1>3, Zenon DEF Background!Follow
  <2> HIDE DEF arrived
  <2>2. QED
    BY <1>1, <2>1
<1>4. ASSUME NEW candidate, Background!FillWindow(candidate) PROVE DriftInv'
  BY <1>1, <1>2, <1>4 DEF Background!FillWindow
<1>5. ASSUME NEW candidate, Background!Validate(candidate) PROVE DriftInv'
  BY <1>2, <1>3, <1>4, <1>5, Zenon DEF Background!Validate
<1>6. CASE Background!Subtract
  BY <1>5, <1>6 DEF Background!Subtract
<1>7. CASE Background!WarmUp \/ Background!Calibrate \/ Background!NothingMatches
           \/ UNCHANGED Background!filterVars
  BY <1>1, <1>7
     DEF Background!WarmUp, Background!Calibrate, Background!NothingMatches,
         Background!filterVars
<1>8. QED
  BY <1>6, <1>7 DEF Background!Next
-----------------------------------------------------------------------------
(* SensorSync.  Before the clock restarts nothing the worker has processed *)
(* is of a later stamp than the clock, and what is taken up now is not     *)
(* older than MaxDataAge; so it is not much older than the last one.       *)

epoch == v1
clock == v2
arriving == v3
unpaired == v4
pending == v5
done == v6
queue == v7
last == v8
reset == v9
USE DEF epoch, clock, arriving, unpaired, pending, done, queue, last, reset

\* Data old enough to look like a reset is rejected for its age.  The configuration
\* keeps to it: max_data_age_sec is 0.35, the reset threshold 1.
SyncConstants ==
    /\ MaxDataAge \in Int /\ ResetThreshold \in Int /\ MaxDataAge <= ResetThreshold
    /\ QueueSize \in Nat \ {0} /\ None \notin Int

Messages == [kind : {"cloud", "rgb"}, stamp : Int, epoch : {1, 2}]
Bundles == [stamp : Int, epoch : {1, 2}]

SyncInv ==
    /\ epoch \in {1, 2} /\ clock \in Int
    /\ arriving \subseteq Messages /\ unpaired \subseteq Messages
    /\ pending \subseteq Messages
    /\ queue \in Seq(Bundles)
    /\ last \in Int \union {None}
    /\ epoch = 1 => last = None \/ last <= clock
    /\ reset # 1

LEMMA SyncInvSays == SyncInv => Sync!OnlyRestartsReset
  BY DEF SyncInv, Sync!OnlyRestartsReset

LEMMA SyncInvInit == SyncConstants /\ Sync!Init => SyncInv
<1> SUFFICES ASSUME SyncConstants, Sync!Init PROVE SyncInv
  OBVIOUS
<1>1. <<>> \in Seq(Bundles)
  OBVIOUS
<1>2. None # 1
  BY DEF SyncConstants
<1>3. QED
  BY <1>1, <1>2 DEF Sync!Init, SyncInv

\* A full queue loses a bundle and stays a queue of bundles.
LEMMA EnqueuedIsQueue ==
  ASSUME SyncConstants, NEW q \in Seq(Bundles), NEW bundle \in Bundles
  PROVE  Sync!Enqueued(q, bundle) \in Seq(Bundles)
<1>1. CASE Len(q) = QueueSize
  <2>1. q # <<>>
    BY <1>1 DEF SyncConstants
  <2>2. Tail(q) \in Seq(Bundles)
    BY <2>1
  <2>3. QED
    BY <1>1, <2>2 DEF Sync!Enqueued
<1>2. CASE Len(q) # QueueSize
  BY <1>2 DEF Sync!Enqueued
<1>3. QED
  BY <1>1, <1>2

LEMMA BundleOfMessage ==
  ASSUME NEW message \in Messages PROVE Sync!Bundle(message) \in Bundles
  BY DEF Sync!Bundle, Messages, Bundles

LEMMA SensingKeepsSyncInv ==
  ASSUME SyncInv, Sync!Sense \/ Sync!ClockRestarts PROVE SyncInv'
<1>1. CASE Sync!Sense
  <2>1. clock' = clock + 1 /\ clock' \in Int /\ epoch \in {1, 2}
    BY <1>1 DEF Sync!Sense, SyncInv
  <2>2. PICK kinds \in (SUBSET {"cloud", "rgb"}) \ {{}} :
            arriving' = arriving \cup {Sync!Stamped(k, clock') : k \in kinds}
    BY <1>1 DEF Sync!Sense
  <2>3. \A k \in kinds : Sync!Stamped(k, clock') \in Messages
    BY <2>1, <2>2 DEF Sync!Stamped, Messages
  <2>4. arriving' \subseteq Messages
    BY <2>2, <2>3 DEF SyncInv
  <2>5. UNCHANGED <<epoch, unpaired, pending, done, queue, last, reset>>
    BY <1>1 DEF Sync!Sense
  <2>6. epoch' = 1 => last' = None \/ last' <= clock'
    BY <2>1, <2>5 DEF SyncInv
  <2>7. QED
    BY <2>1, <2>4, <2>5, <2>6 DEF SyncInv
<1>2. CASE Sync!ClockRestarts
  BY <1>2 DEF Sync!ClockRestarts, SyncInv
<1>3. QED
  BY <1>1, <1>2

LEMMA PairingKeepsSyncInv ==
  ASSUME SyncConstants, SyncInv,
         Sync!Receive \/ Sync!FlushFallbacks \/ Sync!ForgetProcessed
  PROVE  SyncInv'
<1>1. ASSUME UNCHANGED <<epoch, clock, last, reset>>, arriving' \subseteq Messages,
             unpaired' \subseteq Messages, pending' \subseteq Messages,
             queue' \in Seq(Bundles)
      PROVE  SyncInv'
  BY <1>1 DEF SyncInv
<1>2. CASE Sync!Receive
  <2> DEFINE Raw(message) == IF message.kind = "cloud"
                       THEN {m \in pending : m.stamp # message.stamp} \cup {message}
                       ELSE pending
             Other(message) == CHOOSE m \in Sync!Partner(message) : TRUE
  <2>1. PICK message \in arriving :
          /\ arriving' = arriving \ {message}
          /\ IF Sync!Partner(message) # {}
               THEN /\ Sync!OnSynchronized(message, Other(message))
                    /\ pending' = {m \in Raw(message) : m.stamp # message.stamp}
               ELSE /\ unpaired' = unpaired \cup {message}
                    /\ pending' = Raw(message)
                    /\ UNCHANGED <<done, queue>>
          /\ UNCHANGED <<epoch, clock, last, reset>>
    BY <1>2 DEF Sync!Receive
  <2>2. message \in Messages /\ arriving' \subseteq Messages
    BY <2>1 DEF SyncInv
  <2>3. Raw(message) \subseteq Messages
    BY <2>2 DEF SyncInv
  <2> HIDE DEF Raw
  <2>4. CASE Sync!Partner(message) = {}
    BY <1>1, <2>1, <2>2, <2>3, <2>4 DEF SyncInv
  <2>5. CASE Sync!Partner(message) # {}
    <3> DEFINE other == Other(message)
    <3>1. other \in Sync!Partner(message)
      BY <2>5
    <3>2. Sync!OnSynchronized(message, other)
          /\ pending' = {m \in Raw(message) : m.stamp # message.stamp}
      BY <2>1, <2>5
    <3> HIDE DEF other
    <3>3. other \in Messages /\ other.kind # message.kind
      BY <3>1 DEF Sync!Partner, SyncInv
    <3> DEFINE cloud == CHOOSE m \in {message, other} : m.kind = "cloud"
    <3>4. \E m \in {message, other} : m.kind = "cloud"
      BY <2>2, <3>3 DEF Messages
    <3>5. cloud \in {message, other}
      BY <3>4
    <3>6. queue' = Sync!Enqueued(queue, Sync!Bundle(cloud))
          /\ unpaired' = {m \in unpaired : m.stamp > message.stamp}
      BY <3>2 DEF Sync!OnSynchronized
    <3> HIDE DEF cloud
    <3>7. Sync!Bundle(cloud) \in Bundles
      BY <2>2, <3>3, <3>5, BundleOfMessage
    <3>8. queue' \in Seq(Bundles)
      BY <3>6, <3>7, EnqueuedIsQueue DEF SyncInv
    <3>9. pending' \subseteq Messages /\ unpaired' \subseteq Messages
      BY <2>3, <3>2, <3>6 DEF SyncInv
    <3>10. QED
      BY <1>1, <2>1, <2>2, <3>8, <3>9
  <2>6. QED
    BY <2>4, <2>5
<1>3. CASE Sync!FlushFallbacks
  <2>1. PICK message \in pending :
          /\ pending' = pending \ {message} /\ Sync!EmitFallback(message)
          /\ UNCHANGED <<epoch, clock, arriving, unpaired, last, reset>>
    BY <1>3 DEF Sync!FlushFallbacks
  <2>2. Sync!Bundle(message) \in Bundles
    BY <2>1, BundleOfMessage DEF SyncInv
  <2>3. queue' \in Seq(Bundles)
    BY <2>1, <2>2, EnqueuedIsQueue DEF Sync!EmitFallback, SyncInv
  <2>4. QED
    BY <1>1, <2>1, <2>3 DEF SyncInv
<1>4. CASE Sync!ForgetProcessed
  BY <1>1, <1>4 DEF Sync!ForgetProcessed, SyncInv
<1>5. QED
  BY <1>2, <1>3, <1>4

LEMMA ProcessingKeepsSyncInv ==
  ASSUME SyncConstants, SyncInv, Sync!ProcessBundle PROVE SyncInv'
<1> DEFINE bundle == Head(queue)
           verdict == Sync!Verdict(bundle.stamp)
<1>1. /\ queue # <<>> /\ queue' = Tail(queue)
      /\ last' = IF verdict \in {"next", "reset"} THEN bundle.stamp ELSE last
      /\ reset' = IF verdict = "reset" THEN epoch ELSE reset
      /\ UNCHANGED <<epoch, clock, arriving, unpaired, pending, done>>
  BY DEF Sync!ProcessBundle
<1>2. bundle \in Bundles /\ queue' \in Seq(Bundles)
  BY <1>1 DEF SyncInv
<1>3. bundle.stamp \in Int
  BY <1>2 DEF Bundles
<1> HIDE DEF bundle
<1>4. verdict \in {"next", "reset"} =>
          bundle.stamp <= clock /\ clock - bundle.stamp <= MaxDataAge
  BY DEF Sync!Verdict, Sync!ValidTimestamp
<1>5. verdict = "reset" => last # None /\ last - bundle.stamp > ResetThreshold
  BY DEF Sync!Verdict
<1> HIDE DEF verdict
<1>6. verdict = "reset" => epoch = 2
  BY <1>3, <1>4, <1>5 DEF SyncConstants, SyncInv
<1>7. last' \in Int \union {None} /\ reset' # 1
  BY <1>1, <1>3, <1>6 DEF SyncInv
<1>8. epoch' = 1 => last' = None \/ last' <= clock'
  BY <1>1, <1>4 DEF SyncInv
<1>9. QED
  BY <1>1, <1>2, <1>7, <1>8 DEF SyncInv

LEMMA SyncInvKept ==
  ASSUME SyncConstants, SyncInv, [Sync!Next]_(Sync!syncVars) PROVE SyncInv'
<1>1. CASE UNCHANGED Sync!syncVars
  BY <1>1 DEF Sync!syncVars, SyncInv
<1>2. QED
  BY <1>1, SensingKeepsSyncInv, PairingKeepsSyncInv,
     ProcessingKeepsSyncInv DEF Sync!Next
-----------------------------------------------------------------------------
(* ObstacleSwitch.  Whose relationship the bridge retains is changed only  *)
(* under the bridge's own mode, whatever the pipeline's mode is by then.   *)

MuxInv == \E mode, holder : v10 = [mode |-> mode, holds |-> holder]

LEMMA MuxInvInit == Mux!Init => MuxInv
  BY DEF Mux!Init, MuxInv

\* The bridge as it is, in another mode, or with what its mode lets in.
BridgeSteps ==
    \/ v10' = v10
    \/ \E mode : v10' = [v10 EXCEPT !.mode = mode]
    \/ v10.mode # "yolo" /\ v10' = [v10 EXCEPT !.holds = "edge"]
    \/ v10.mode = "yolo" /\ v10' = [v10 EXCEPT !.holds = "yolo"]

LEMMA MuxSteps == ASSUME [Mux!Next]_(Mux!vars) PROVE BridgeSteps
<1>1. CASE UNCHANGED Mux!vars
  BY <1>1 DEF Mux!vars, BridgeSteps
<1>2. CASE \E mode \in ObstacleModes : Mux!Ask(mode)
  BY <1>2 DEF Mux!Ask, BridgeSteps
<1>3. CASE Mux!Gui
  BY <1>3 DEF Mux!Gui, Mux!AskMux, Mux!Announce, Mux!Control, Mux!ControlFails,
              Mux!Relate, Mux!SetRelationshipMode, BridgeSteps
<1>4. CASE Mux!Worker
  BY <1>4 DEF Mux!Worker, Mux!ReadModes, Mux!Branch, Mux!YoloPublishes, BridgeSteps
<1>5. CASE Mux!Announce("ros") \/ Mux!CheckStale \/ Mux!Age
  BY <1>5 DEF Mux!Announce, Mux!CheckStale, Mux!Age, BridgeSteps
<1>6. CASE \E source \in Mux!Sources : Mux!OnSource(source)
  BY <1>6 DEF Mux!OnSource, BridgeSteps
<1>7. CASE Mux!EdgeCloud \/ Mux!EdgeSample
  BY <1>7 DEF Mux!EdgeCloud, Mux!EdgeSample, BridgeSteps
<1>8. QED
  BY <1>1, <1>2, <1>3, <1>4, <1>5, <1>6, <1>7 DEF Mux!Next

LEMMA MuxInvKept ==
  ASSUME MuxInv, [Mux!Next]_(Mux!vars) PROVE MuxInv' /\ Mux!NoEcho
<1>1. BridgeSteps
  BY MuxSteps
<1>2. PICK mode, holder : v10 = [mode |-> mode, holds |-> holder]
  BY DEF MuxInv
<1>3. CASE v10' = v10
  BY <1>2, <1>3 DEF MuxInv, Mux!NoEcho
<1>4. CASE \E m : v10' = [v10 EXCEPT !.mode = m]
  <2>1. PICK m : v10' = [v10 EXCEPT !.mode = m]
    BY <1>4
  <2>2. v10' = [mode |-> m, holds |-> holder]
    BY <1>2, <2>1
  <2>3. QED
    BY <1>2, <2>2 DEF MuxInv, Mux!NoEcho
<1>5. CASE v10.mode # "yolo" /\ v10' = [v10 EXCEPT !.holds = "edge"]
  <2>1. v10' = [mode |-> mode, holds |-> "edge"]
    BY <1>2, <1>5
  <2>2. QED
    BY <1>2, <1>5, <2>1 DEF MuxInv, Mux!NoEcho
<1>6. CASE v10.mode = "yolo" /\ v10' = [v10 EXCEPT !.holds = "yolo"]
  <2>1. v10' = [mode |-> mode, holds |-> "yolo"]
    BY <1>2, <1>6
  <2>2. QED
    BY <1>2, <1>6, <2>1 DEF MuxInv, Mux!NoEcho
<1>7. QED
  BY <1>1, <1>3, <1>4, <1>5, <1>6 DEF BridgeSteps

-----------------------------------------------------------------------------
(* ArmPlacement.  The first tag found on a plane stays with the plane; and *)
(* as units are metric from the tag on, no later cloud rebases the plane.  *)

scene == v5
placed == v6
commands == v8
USE DEF scene, placed, commands

Planes == Int \union {None}

ArmInv ==
    /\ scene \in [bev : BOOLEAN, plane : Planes, tag : Planes, metric : BOOLEAN]
    /\ commands \in [fits : Int, commands : Int]
    /\ scene.tag # None => scene.tag = scene.plane /\ scene.metric
    /\ placed \in [plane : Planes, tag : Planes]
    /\ placed.tag # None => placed.tag = placed.plane

LEMMA ArmInvSays == ArmInv => Arm!AnchorIsOfThePlane
  BY DEF ArmInv, Arm!AnchorIsOfThePlane

LEMMA ArmInvInit == Arm!Init => ArmInv
  BY DEF Arm!Init, ArmInv, Planes

LEMMA SceneWith ==
  ASSUME NEW s \in [bev : BOOLEAN, plane : Planes, tag : Planes, metric : BOOLEAN],
         NEW plane, NEW metric
  PROVE  [s EXCEPT !.plane = plane, !.metric = metric]
           = [bev |-> s.bev, plane |-> plane, tag |-> s.tag, metric |-> metric]
<1> DEFINE once == [s EXCEPT !.plane = plane]
<1>1. once = [bev |-> s.bev, plane |-> plane, tag |-> s.tag, metric |-> s.metric]
  OBVIOUS
<1>2. [s EXCEPT !.plane = plane, !.metric = metric] = [once EXCEPT !.metric = metric]
  OBVIOUS
<1> HIDE DEF once
<1>3. [once EXCEPT !.metric = metric]
        = [bev |-> s.bev, plane |-> plane, tag |-> s.tag, metric |-> metric]
  BY <1>1
<1>4. QED
  BY <1>2, <1>3

LEMMA SceneDropped ==
  ASSUME NEW s \in [bev : BOOLEAN, plane : Planes, tag : Planes, metric : BOOLEAN],
         NEW value, NEW metric
  PROVE  [s EXCEPT !.plane = value, !.tag = value, !.metric = metric]
           = [bev |-> s.bev, plane |-> value, tag |-> value, metric |-> metric]
<1> DEFINE once == [s EXCEPT !.plane = value]
           twice == [once EXCEPT !.tag = value]
<1>1. once = [bev |-> s.bev, plane |-> value, tag |-> s.tag, metric |-> s.metric]
  OBVIOUS
<1>2. [s EXCEPT !.plane = value, !.tag = value, !.metric = metric]
        = [twice EXCEPT !.metric = metric]
  OBVIOUS
<1> HIDE DEF once
<1>3. twice = [bev |-> s.bev, plane |-> value, tag |-> value, metric |-> s.metric]
  BY <1>1
<1> HIDE DEF twice
<1>4. [twice EXCEPT !.metric = metric]
        = [bev |-> s.bev, plane |-> value, tag |-> value, metric |-> metric]
  BY <1>3
<1>5. QED
  BY <1>2, <1>4

\* A scene that keeps its tag to its plane, and the arm that is told of it or not.
LEMMA ArmSteps ==
  ASSUME ArmInv,
         scene' \in [bev : BOOLEAN, plane : Planes, tag : Planes, metric : BOOLEAN],
         scene'.tag # None => scene'.tag = scene'.plane /\ scene'.metric,
         commands' \in [fits : Int, commands : Int],
         Arm!SpatialContext(scene') \/ UNCHANGED placed
  PROVE  ArmInv'
<1>1. CASE Arm!SpatialContext(scene')
  <2>1. placed' = [plane |-> scene'.plane, tag |-> scene'.tag]
    BY <1>1 DEF Arm!SpatialContext
  <2>2. placed' \in [plane : Planes, tag : Planes]
    BY <2>1
  <2>3. QED
    BY <2>1, <2>2 DEF ArmInv
<1>2. CASE UNCHANGED placed
  BY <1>2 DEF ArmInv
<1>3. QED
  BY <1>1, <1>2

LEMMA DrawKeepsArmInv ==
  ASSUME ArmInv, None \notin Int, NEW fitted \in BOOLEAN, Arm!Draw(fitted)
  PROVE  ArmInv' /\ Arm!PlaceIsLatched
<1> DEFINE rebase == Arm!NeedsRebase(scene, v4)
           based == [scene EXCEPT !.plane = IF rebase THEN None ELSE @,
                                  !.metric = @ \/ rebase]
           fits == Arm!MayFit(based, v4) /\ fitted
           plane == IF fits THEN commands.fits + 1 ELSE based.plane
           onPlane == [based EXCEPT !.plane = plane]
           tag == Arm!TagAfter(onPlane, v4)
<1>1. /\ commands' = IF fits THEN [commands EXCEPT !.fits = @ + 1] ELSE commands
      /\ scene' = [based EXCEPT !.plane = plane, !.tag = tag]
      /\ Arm!SpatialContext(scene')
  BY DEF Arm!Draw
<1>2. rebase = (v4 = "tagged" /\ ~scene.metric)
  BY DEF Arm!NeedsRebase
<1>3. /\ rebase \in BOOLEAN
      /\ based = [bev |-> scene.bev, plane |-> IF rebase THEN None ELSE scene.plane,
                  tag |-> scene.tag, metric |-> scene.metric \/ rebase]
      /\ based.plane \in Planes
  <2>1. rebase \in BOOLEAN
    BY <1>2
  <2> DEFINE basis == IF rebase THEN None ELSE scene.plane
             flag == scene.metric \/ rebase
  <2>2. based = [scene EXCEPT !.plane = basis, !.metric = flag]
    BY Zenon
  <2> HIDE DEF rebase, flag
  <2>3. based = [bev |-> scene.bev, plane |-> basis, tag |-> scene.tag, metric |-> flag]
    <3> HIDE DEF basis, based
    <3>1. QED
      BY <2>2, SceneWith, Zenon DEF ArmInv
  <2> USE DEF flag
  <2>4. (IF rebase THEN None ELSE scene.plane) \in Planes
    BY DEF ArmInv, Planes
  <2>5. QED
    BY <2>1, <2>3, <2>4
<1>4. fits => scene.bev /\ based.plane = None
  BY <1>3 DEF Arm!MayFit
<1> HIDE DEF rebase
<1>5. plane \in Planes
  BY <1>3 DEF ArmInv, Planes
<1> HIDE DEF based, fits
<1>6. onPlane = [bev |-> scene.bev, plane |-> plane, tag |-> scene.tag,
                 metric |-> scene.metric \/ rebase]
  BY <1>3
<1> HIDE DEF plane, onPlane
<1>7. tag = IF scene.bev /\ plane # None /\ v4 = "tagged" /\ scene.tag = None
              THEN plane ELSE scene.tag
  BY <1>6 DEF Arm!TagAfter
<1>8. tag \in Planes
  BY <1>5, <1>7 DEF ArmInv
<1> HIDE DEF tag
<1>9. scene' = [bev |-> scene.bev, plane |-> plane, tag |-> tag,
                metric |-> scene.metric \/ rebase]
  BY <1>1, <1>3
<1>10. scene.tag # None => ~rebase /\ plane = scene.plane /\ tag = scene.tag
  <2>1. HAVE scene.tag # None
  <2>2. ~rebase
    BY <1>2, <2>1 DEF ArmInv, rebase
  <2>3. based.plane = scene.plane /\ scene.plane # None
    BY <1>3, <2>1, <2>2 DEF ArmInv
  <2>4. ~fits
    BY <1>4, <2>3
  <2>5. QED
    BY <1>7, <2>1, <2>2, <2>3, <2>4 DEF plane
<1>11. tag # None => tag = plane /\ (scene.metric \/ rebase)
  <2>1. HAVE tag # None
  <2>2. CASE scene.tag # None
    BY <1>10, <2>2 DEF ArmInv
  <2>3. CASE scene.tag = None
    BY <1>2, <1>7, <2>1, <2>3 DEF rebase
  <2>4. QED
    BY <2>2, <2>3
<1>12. commands' \in [fits : Int, commands : Int]
  BY <1>1 DEF ArmInv
<1>13. ArmInv'
  <2>1. scene' \in [bev : BOOLEAN, plane : Planes, tag : Planes, metric : BOOLEAN]
    BY <1>3, <1>5, <1>8, <1>9 DEF ArmInv
  <2>2. scene'.tag # None => scene'.tag = scene'.plane /\ scene'.metric
    BY <1>9, <1>11
  <2>3. QED
    BY <1>1, <1>12, <2>1, <2>2, ArmSteps
<1>14. Arm!PlaceIsLatched
  BY <1>9, <1>10 DEF Arm!PlaceIsLatched
<1>15. QED
  BY <1>13, <1>14

LEMMA CommandKeepsArmInv ==
  ASSUME ArmInv,
         (\E enabled \in BOOLEAN : Arm!SetBev(enabled)) \/ Arm!Recalibrate
             \/ Arm!ResetPipeline \/ Arm!ResetScene
  PROVE  ArmInv' /\ Arm!PlaceIsLatched
<1>1. Arm!Command => commands' \in [fits : Int, commands : Int]
  BY DEF Arm!Command, ArmInv
<1>2. Arm!Recalibrated(scene) =
          [bev |-> scene.bev, plane |-> None, tag |-> None, metric |-> FALSE]
  <2> DEFINE none == None
             no == FALSE
  <2>1. Arm!Recalibrated(scene) = [scene EXCEPT !.plane = none, !.tag = none, !.metric = no]
    BY Zenon DEF Arm!Recalibrated
  <2> HIDE DEF none, no
  <2> scene \in [bev : BOOLEAN, plane : Planes, tag : Planes, metric : BOOLEAN]
    BY DEF ArmInv
  <2>2. [scene EXCEPT !.plane = none, !.tag = none, !.metric = no]
          = [bev |-> scene.bev, plane |-> none, tag |-> none, metric |-> no]
    BY SceneDropped, Zenon
  <2>3. QED
    BY <2>1, <2>2, Zenon DEF none, no
<1>3. Arm!Recalibrated(scene)
          \in [bev : BOOLEAN, plane : Planes, tag : Planes, metric : BOOLEAN]
  BY <1>2 DEF ArmInv, Planes
<1>4. ASSUME NEW enabled \in BOOLEAN, Arm!SetBev(enabled)
      PROVE  ArmInv' /\ Arm!PlaceIsLatched
  <2>1. scene' = [bev |-> enabled, plane |-> scene.plane, tag |-> scene.tag,
                  metric |-> scene.metric]
    BY <1>4 DEF Arm!SetBev, ArmInv
  <2>2. scene' \in [bev : BOOLEAN, plane : Planes, tag : Planes, metric : BOOLEAN]
    BY <2>1 DEF ArmInv
  <2>3. scene'.tag # None => scene'.tag = scene'.plane /\ scene'.metric
    BY <2>1 DEF ArmInv
  <2>4. ArmInv'
    BY <1>1, <1>4, <2>2, <2>3, ArmSteps DEF Arm!SetBev
  <2>5. QED
    BY <2>1, <2>4 DEF Arm!PlaceIsLatched
<1>5. ASSUME Arm!Recalibrate PROVE ArmInv' /\ Arm!PlaceIsLatched
  <2>1. scene' = Arm!Recalibrated(scene)
    BY <1>5 DEF Arm!Recalibrate
  <2>2. ArmInv'
    BY <1>1, <1>2, <1>3, <1>5, <2>1, ArmSteps DEF Arm!Recalibrate
  <2>3. QED
    BY <1>2, <1>5, <2>1, <2>2 DEF Arm!PlaceIsLatched, Arm!Recalibrate
<1>6. ASSUME Arm!ResetPipeline PROVE ArmInv' /\ Arm!PlaceIsLatched
  <2>1. UNCHANGED <<scene, placed>>
    BY <1>6 DEF Arm!ResetPipeline
  <2>2. ArmInv'
    BY <1>1, <1>6, <2>1 DEF Arm!ResetPipeline, ArmInv
  <2>3. QED
    BY <2>1, <2>2 DEF Arm!PlaceIsLatched
<1>7. ASSUME Arm!ResetScene PROVE ArmInv' /\ Arm!PlaceIsLatched
  <2>1. scene' = Arm!Recalibrated(scene) /\ UNCHANGED <<commands, v4>>
    BY <1>7 DEF Arm!ResetScene
  <2>2. commands' \in [fits : Int, commands : Int]
    BY <2>1 DEF ArmInv
  <2>3. ArmInv'
    BY <1>2, <1>3, <1>7, <2>1, <2>2, ArmSteps DEF Arm!ResetScene
  <2>4. QED
    BY <1>2, <2>1, <2>3 DEF Arm!PlaceIsLatched
<1>8. QED
  BY <1>4, <1>5, <1>6, <1>7

\* Frames, clouds that are read and the joints leave the place alone.
LEMMA OthersKeepArmInv ==
  ASSUME ArmInv,
         \/ UNCHANGED Arm!vars
         \/ Arm!TakeFrame \/ \E seen \in Arm!Sightings : Arm!StoreCloud(seen)
         \/ Arm!ReadCloud
         \/ \E matched \in Arm!Matches : Arm!JointState(matched)
         \/ Arm!JointsAge \/ Arm!ManualJoint \/ Arm!ZeroPose
         \/ \E follow \in BOOLEAN : Arm!SetFollow(follow)
  PROVE  ArmInv' /\ Arm!PlaceIsLatched
<1>1. UNCHANGED <<scene, placed>>
  BY DEF Arm!vars, Arm!TakeFrame, Arm!StoreCloud, Arm!ReadCloud, Arm!JointState,
         Arm!JointsAge, Arm!ManualJoint, Arm!ZeroPose, Arm!SetFollow
<1>2. UNCHANGED commands \/ Arm!Command
  BY DEF Arm!vars, Arm!TakeFrame, Arm!StoreCloud, Arm!ReadCloud, Arm!JointState,
         Arm!JointsAge, Arm!ManualJoint, Arm!ZeroPose, Arm!SetFollow
<1>3. commands' \in [fits : Int, commands : Int]
  BY <1>2 DEF Arm!Command, ArmInv
<1>4. QED
  BY <1>1, <1>3 DEF ArmInv, Arm!PlaceIsLatched

LEMMA ArmInvKept ==
  ASSUME ArmInv, None \notin Int, [Arm!Next]_(Arm!vars)
  PROVE  ArmInv' /\ Arm!PlaceIsLatched
  BY DrawKeepsArmInv, CommandKeepsArmInv, OthersKeepArmInv DEF Arm!Next

-----------------------------------------------------------------------------
(* VideoSource.  The position of an open file is one past the frame shown  *)
(* last; the delay stays between its bounds, so that doubling and capping  *)
(* it never makes it smaller.                                              *)

Inputs == [kind : Video!Kinds, loop : BOOLEAN, length : Int, state : Video!States,
           open : BOOLEAN, index : Int, next : Int, delay : Int]

\* The initial delay (1 second) is below the largest (10).
DelaysFit == MinDelay \in Nat /\ MaxDelay \in Int /\ MinDelay <= MaxDelay

Counted(s) ==
    /\ s \in Inputs
    /\ MinDelay <= s.delay /\ s.delay <= MaxDelay
    /\ s.kind = "file" /\ s.open => s.next = s.index + 1

VideoInv == Counted(v1)

LEMMA VideoInvSays == VideoInv => Video!FramesAreCounted
  BY DEF VideoInv, Counted, Video!FramesAreCounted, Video!Live

LEMMA VideoInvInit == DelaysFit /\ Video!Init => VideoInv
<1> SUFFICES ASSUME DelaysFit, Video!Init PROVE VideoInv
  OBVIOUS
<1>1. PICK kind \in Video!Kinds, loop \in BOOLEAN, length \in 1 .. 3 :
          v1 = Video!Fresh(kind, loop, length)
  BY DEF Video!Init
<1> DEFINE first == -1
           zero == 0
           shut == FALSE
<1>2. first \in Int /\ zero \in Int /\ length \in Int /\ shut \in BOOLEAN
  BY <1>1
<1>3. v1 = [kind |-> kind, loop |-> loop, length |-> length, state |-> "stopped",
            open |-> shut, index |-> first, next |-> zero, delay |-> MinDelay]
  BY <1>1, Zenon DEF Video!Fresh
<1> HIDE DEF first, zero
<1>4. v1 \in Inputs
  BY <1>1, <1>2, <1>3 DEF Inputs, DelaysFit, Video!States
<1>5. v1.delay = MinDelay /\ v1.open = FALSE
  BY <1>3
<1>6. QED
  BY <1>4, <1>5 DEF VideoInv, Counted, DelaysFit

\* What each change of a source does to the fields the invariant speaks of.
LEMMA ClosedIs ==
  ASSUME NEW s, Counted(s), DelaysFit
  PROVE  /\ Counted(Video!Closed(s))
         /\ Video!Closed(s).delay = s.delay /\ Video!Closed(s).kind = s.kind
<1> s \in Inputs
  BY DEF Counted
<1>1. Video!Closed(s) \in Inputs
  BY DEF Inputs, Video!Closed, Video!States
<1>2. /\ Video!Closed(s).delay = s.delay /\ Video!Closed(s).kind = s.kind
      /\ Video!Closed(s).open = FALSE
  BY DEF Inputs, Video!Closed
<1>3. QED
  BY <1>1, <1>2 DEF Counted

LEMMA OpenedIs ==
  ASSUME NEW s, Counted(s), DelaysFit
  PROVE  /\ Counted(Video!Opened(s))
         /\ Video!Opened(s).delay = MinDelay /\ Video!Opened(s).index = -1
<1> s \in Inputs
  BY DEF Counted
<1> DEFINE first == -1
           zero == 0
<1>1. first \in Int /\ zero \in Int /\ MinDelay \in Int /\ zero = first + 1
  BY DEF DelaysFit
<1>2. Video!Opened(s) = [s EXCEPT !.open = TRUE, !.index = first, !.next = zero,
                                  !.delay = MinDelay, !.state = "running"]
  BY Zenon DEF Video!Opened
<1> HIDE DEF first, zero
<1>3. Video!Opened(s) \in Inputs
  BY <1>1, <1>2 DEF Inputs, Video!States
<1>4. /\ Video!Opened(s).delay = MinDelay /\ Video!Opened(s).index = first
      /\ Video!Opened(s).next = zero
  BY <1>2 DEF Inputs
<1>5. Counted(Video!Opened(s))
  BY <1>1, <1>3, <1>4 DEF Counted, DelaysFit
<1>6. QED
  BY <1>4, <1>5 DEF first

LEMMA UnopenedIs ==
  ASSUME NEW s, Counted(s), DelaysFit
  PROVE  /\ Counted(Video!Unopened(s))
         /\ \/ Video!Unopened(s).delay = s.delay
            \/ Video!Unopened(s).delay = MinDelay /\ Video!Unopened(s).index = -1
<1>1. CASE s.kind = "network"
  <2> DEFINE shut == Video!Closed(s)
             first == -1
  <2>1. Counted(shut) /\ shut.kind = "network"
    BY <1>1, ClosedIs
  <2>2. first \in Int /\ MinDelay \in Int
    BY DEF DelaysFit
  <2>3. Video!Unopened(s) = [shut EXCEPT !.index = first, !.delay = MinDelay,
                                         !.state = "running"]
    BY <1>1, Zenon DEF Video!Unopened
  <2> HIDE DEF first, shut
  <2> shut \in Inputs
    BY <2>1 DEF Counted
  <2>4. Video!Unopened(s) \in Inputs
    BY <2>2, <2>3 DEF Inputs, Video!States
  <2>5. /\ Video!Unopened(s).delay = MinDelay /\ Video!Unopened(s).index = first
        /\ Video!Unopened(s).kind = shut.kind
    BY <2>3 DEF Inputs
  <2>6. Counted(Video!Unopened(s))
    BY <2>1, <2>4, <2>5 DEF Counted, DelaysFit
  <2>7. QED
    BY <2>5, <2>6 DEF first
<1>2. CASE s.kind # "network"
  BY <1>2, ClosedIs DEF Video!Unopened
<1>3. QED
  BY <1>1, <1>2

LEMMA RewoundIs ==
  ASSUME NEW s, Counted(s), DelaysFit
  PROVE  /\ Counted(Video!Rewound(s))
         /\ Video!Rewound(s).delay = s.delay /\ Video!Rewound(s).kind = s.kind
<1> s \in Inputs
  BY DEF Counted
<1> DEFINE first == -1
           zero == 0
<1>1. first \in Int /\ zero \in Int /\ zero = first + 1
  OBVIOUS
<1>2. Video!Rewound(s) = [s EXCEPT !.index = first, !.next = zero, !.state = "running"]
  BY Zenon DEF Video!Rewound
<1> HIDE DEF first, zero
<1>3. Video!Rewound(s) \in Inputs
  BY <1>1, <1>2 DEF Inputs, Video!States
<1>4. /\ Video!Rewound(s).delay = s.delay /\ Video!Rewound(s).kind = s.kind
      /\ Video!Rewound(s).index = first /\ Video!Rewound(s).next = zero
  BY <1>2 DEF Inputs
<1>5. QED
  BY <1>1, <1>3, <1>4 DEF Counted

\* The larger and the smaller of two.
LEMMA CappedDouble ==
  ASSUME DelaysFit, NEW d \in Int, MinDelay <= d, d <= MaxDelay
  PROVE  LET next == Video!Min({Video!Max({2 * d, MinDelay}), MaxDelay})
         IN  next \in Int /\ d <= next /\ next <= MaxDelay
<1> DEFINE greater == Video!Max({2 * d, MinDelay})
           next == Video!Min({greater, MaxDelay})
<1>1. 2 * d \in Int /\ MinDelay \in Int /\ 2 * d >= MinDelay
  BY DEF DelaysFit
<1>2. greater \in {2 * d, MinDelay} /\ \A y \in {2 * d, MinDelay} : greater >= y
  <2>1. \E x \in {2 * d, MinDelay} : \A y \in {2 * d, MinDelay} : x >= y
    BY <1>1
  <2>2. QED
    BY <2>1 DEF Video!Max
<1>3. greater \in Int /\ greater >= 2 * d
  BY <1>1, <1>2
<1> HIDE DEF greater
<1>4. next \in {greater, MaxDelay} /\ \A y \in {greater, MaxDelay} : next <= y
  <2>1. MaxDelay \in Int
    BY DEF DelaysFit
  <2>2. \E x \in {greater, MaxDelay} : \A y \in {greater, MaxDelay} : x <= y
    BY <1>3, <2>1
  <2>3. QED
    BY <2>2 DEF Video!Min
<1> HIDE DEF next
<1>5. next \in Int /\ d <= next /\ next <= MaxDelay
  BY <1>3, <1>4 DEF DelaysFit
<1>6. QED
  BY <1>5 DEF next, greater

LEMMA BackedOffIs ==
  ASSUME NEW s, Counted(s), DelaysFit
  PROVE  Counted(Video!BackedOff(s)) /\ s.delay <= Video!BackedOff(s).delay
<1> s \in Inputs
  BY DEF Counted
<1> DEFINE longer == Video!Min({Video!Max({2 * s.delay, MinDelay}), MaxDelay})
<1>1. longer \in Int /\ s.delay <= longer /\ longer <= MaxDelay
  BY CappedDouble DEF Counted, Inputs
<1>2. Video!BackedOff(s) = [s EXCEPT !.open = FALSE, !.delay = longer]
  BY Zenon DEF Video!BackedOff
<1> HIDE DEF longer
<1>3. Video!BackedOff(s) \in Inputs
  BY <1>1, <1>2 DEF Inputs
<1>4. Video!BackedOff(s).delay = longer /\ Video!BackedOff(s).open = FALSE
  BY <1>2 DEF Inputs
<1>5. Counted(Video!BackedOff(s))
  BY <1>1, <1>3, <1>4 DEF Counted, DelaysFit, Inputs
<1>6. QED
  BY <1>1, <1>4, <1>5

LEMMA DecodedIs ==
  ASSUME NEW s, Counted(s), DelaysFit
  PROVE  /\ Counted(Video!Decoded(s))
         /\ \/ Video!Decoded(s).delay = s.delay
            \/ /\ Video!Decoded(s).delay = MinDelay /\ s.kind = "network"
               /\ Video!Decoded(s).index = s.index + 1
<1> s \in Inputs
  BY DEF Counted
<1> DEFINE shown == s.index + 1
           coming == IF Video!Live(s) THEN s.next ELSE s.next + 1
           wait == IF s.kind = "network" THEN MinDelay ELSE s.delay
<1>1. shown \in Int /\ coming \in Int /\ wait \in Int
  BY DEF Inputs, DelaysFit
<1>2. MinDelay <= wait /\ wait <= MaxDelay
  BY DEF Counted, DelaysFit
<1>3. s.kind = "file" /\ s.open => coming = shown + 1
  BY DEF Counted, Inputs, Video!Live
<1>4. Video!Decoded(s) = [s EXCEPT !.index = shown, !.next = coming, !.delay = wait]
  BY Zenon DEF Video!Decoded
<1>5. wait = s.delay \/ (wait = MinDelay /\ s.kind = "network")
  OBVIOUS
<1> HIDE DEF shown, coming, wait
<1>6. Video!Decoded(s) \in Inputs
  BY <1>1, <1>4 DEF Inputs
<1>7. /\ Video!Decoded(s).index = shown /\ Video!Decoded(s).next = coming
      /\ Video!Decoded(s).delay = wait /\ Video!Decoded(s).kind = s.kind
      /\ Video!Decoded(s).open = s.open
  BY <1>4 DEF Inputs
<1>8. QED
  BY <1>2, <1>3, <1>5, <1>6, <1>7 DEF Counted, shown

\* A source that is open in the eyes of a grab; the delay is the caller's.
LEMMA GrabKeeps ==
  ASSUME NEW s, Counted(s), DelaysFit, NEW frame, Video!Grab(s, frame)
  PROVE  /\ Counted(v1')
         /\ \/ s.delay <= v1'.delay
            \/ v1'.delay = MinDelay /\ v1'.index = s.index + 1
<1>1. s \in Inputs
  BY DEF Counted
<1>2. CASE v1' = Video!Decoded(s)
  <2>1. s.delay \in Int
    BY <1>1 DEF Inputs
  <2>2. QED
    BY <1>2, <2>1, DecodedIs
<1>3. CASE s.kind = "file" /\ v1' = Video!Decoded(Video!Rewound(s))
  <2>1. Counted(Video!Rewound(s)) /\ Video!Rewound(s).delay = s.delay
          /\ Video!Rewound(s).kind = "file" /\ s.delay \in Int
    BY <1>1, <1>3, RewoundIs DEF Inputs
  <2>2. Counted(v1') /\ v1'.delay = s.delay
    BY <1>3, <2>1, DecodedIs
  <2>3. QED
    BY <2>1, <2>2
<1>4. CASE v1' = Video!BackedOff(s)
  BY <1>4, BackedOffIs
<1>5. CASE v1' = [s EXCEPT !.state = "ended"]
  <2>1. v1' \in Inputs
    BY <1>1, <1>5 DEF Inputs, Video!States
  <2>2. /\ v1'.delay = s.delay /\ v1'.kind = s.kind /\ v1'.open = s.open
        /\ v1'.index = s.index /\ v1'.next = s.next /\ s.delay \in Int
    BY <1>1, <1>5 DEF Inputs
  <2>3. QED
    BY <2>1, <2>2 DEF Counted
<1>6. QED
  BY <1>2, <1>3, <1>4, <1>5 DEF Video!Grab, Video!GrabFrame, Video!GrabNothing

LEMMA OpenKeeps ==
  ASSUME VideoInv, DelaysFit, Video!Open
  PROVE  /\ VideoInv'
         /\ \/ v1.delay <= v1'.delay
            \/ v1'.delay = MinDelay /\ v1'.index = -1
<1>1. v1.delay \in Int
  BY DEF VideoInv, Counted, Inputs
<1>2. QED
  BY <1>1, OpenedIs, UnopenedIs DEF Video!Open, VideoInv

LEMMA ReadKeeps ==
  ASSUME VideoInv, DelaysFit, NEW frame, Video!Read(frame)
  PROVE  /\ VideoInv'
         /\ \/ v1.delay <= v1'.delay
            \/ v1'.delay = MinDelay /\ v1'.index = v1.index + 1
<1>1. v1 \in Inputs /\ v1.delay \in Int
  BY DEF VideoInv, Counted, Inputs
<1>2. CASE v1.kind = "ros2"
  <2>1. CASE v1' = [v1 EXCEPT !.index = @ + 1]
    <3> DEFINE shown == v1.index + 1
    <3>1. shown \in Int
      BY <1>1 DEF Inputs
    <3> HIDE DEF shown
    <3>2. v1' = [v1 EXCEPT !.index = shown]
      BY <2>1 DEF shown
    <3>3. v1' \in Inputs
      BY <1>1, <3>1, <3>2 DEF Inputs
    <3>4. v1'.delay = v1.delay /\ v1'.kind = v1.kind
      BY <1>1, <3>2 DEF Inputs
    <3>5. QED
      BY <1>1, <1>2, <3>3, <3>4 DEF VideoInv, Counted
  <2>2. CASE v1' = v1
    BY <1>1, <2>2 DEF VideoInv
  <2>3. QED
    BY <1>2, <2>1, <2>2 DEF Video!Read, Video!ReadTopic
<1>3. CASE v1.kind # "ros2" /\ v1.open
  BY <1>3, GrabKeeps DEF Video!Read, VideoInv
<1>4. CASE v1.kind = "network" /\ Video!Reconnect(frame)
  <2> DEFINE open == [v1 EXCEPT !.open = TRUE]
  <2>1. open \in Inputs
    BY <1>1 DEF Inputs
  <2>2. open.kind = v1.kind /\ open.delay = v1.delay /\ open.index = v1.index
    BY <1>1 DEF Inputs
  <2> HIDE DEF open
  <2>3. Counted(open)
    BY <1>4, <2>1, <2>2 DEF VideoInv, Counted
  <2>4. CASE Video!Grab(open, frame)
    BY <2>2, <2>3, <2>4, GrabKeeps DEF VideoInv
  <2>5. CASE v1' = Video!BackedOff(v1)
    BY <2>5, BackedOffIs DEF VideoInv
  <2>6. QED
    BY <1>4, <2>4, <2>5 DEF Video!Reconnect, open
<1>5. QED
  BY <1>2, <1>3, <1>4 DEF Video!Read

LEMMA ControlsKeep ==
  ASSUME VideoInv, DelaysFit,
         \/ Video!Pause \/ Video!Resume \/ Video!Stop
         \/ \E position \in 0 .. v1.length - 1 : Video!Seek(position)
  PROVE  VideoInv' /\ v1.delay = v1'.delay
<1>1. v1 \in Inputs
  BY DEF VideoInv, Counted
<1>2. ASSUME NEW state \in Video!States, v1' = [v1 EXCEPT !.state = state]
      PROVE  VideoInv' /\ v1.delay = v1'.delay
  <2>1. v1' \in Inputs
    BY <1>1, <1>2 DEF Inputs
  <2>2. /\ v1'.delay = v1.delay /\ v1'.kind = v1.kind /\ v1'.open = v1.open
        /\ v1'.index = v1.index /\ v1'.next = v1.next
    BY <1>1, <1>2 DEF Inputs
  <2>3. QED
    BY <2>1, <2>2 DEF VideoInv, Counted
<1>3. CASE Video!Pause \/ Video!Resume
  BY <1>2, <1>3 DEF Video!Pause, Video!Resume, Video!States
<1>4. CASE Video!Stop
  BY <1>4, ClosedIs DEF Video!Stop, VideoInv
<1>5. ASSUME NEW position \in 0 .. v1.length - 1, Video!Seek(position)
      PROVE  VideoInv' /\ v1.delay = v1'.delay
  <2> DEFINE before == position - 1
  <2>1. position \in Int /\ before \in Int /\ position = before + 1
    BY <1>1 DEF Inputs
  <2>2. v1' = [v1 EXCEPT !.next = position, !.index = before]
    BY <1>5 DEF Video!Seek
  <2> HIDE DEF before
  <2>3. v1' \in Inputs
    BY <1>1, <2>1, <2>2 DEF Inputs
  <2>4. v1'.delay = v1.delay /\ v1'.index = before /\ v1'.next = position
    BY <1>1, <2>2 DEF Inputs
  <2>5. QED
    BY <2>1, <2>3, <2>4 DEF VideoInv, Counted
<1>6. QED
  BY <1>3, <1>4, <1>5

LEMMA VideoInvKept ==
  ASSUME VideoInv, DelaysFit, [Video!Next]_v1 PROVE VideoInv' /\ Video!BackOffIsKept
<1>1. v1 \in Inputs /\ v1.delay \in Int /\ (VideoInv' => v1'.delay \in Int)
  BY DEF VideoInv, Counted, Inputs
<1>2. ASSUME VideoInv', \/ v1.delay <= v1'.delay
                        \/ v1'.delay = MinDelay /\ v1'.index \in {-1, v1.index + 1}
      PROVE  VideoInv' /\ Video!BackOffIsKept
  BY <1>1, <1>2 DEF Video!BackOffIsKept
<1>3. CASE v1' = v1
  BY <1>1, <1>2, <1>3 DEF VideoInv
<1>4. CASE Video!Open
  BY <1>2, <1>4, OpenKeeps
<1>5. CASE Video!Pause \/ Video!Resume \/ Video!Stop
              \/ \E position \in 0 .. v1.length - 1 : Video!Seek(position)
  <2>1. VideoInv' /\ v1.delay = v1'.delay
    BY <1>5, ControlsKeep
  <2>2. QED
    BY <1>1, <1>2, <2>1
<1>6. CASE Video!Restart
  <2>1. CASE v1' = Video!Rewound(v1)
    <3>1. VideoInv' /\ v1.delay = v1'.delay
      BY <2>1, RewoundIs DEF VideoInv
    <3>2. QED
      BY <1>1, <1>2, <3>1
  <2>2. QED
    BY <1>4, <1>6, <2>1 DEF Video!Restart
<1>7. ASSUME NEW frame, Video!Read(frame) PROVE VideoInv' /\ Video!BackOffIsKept
  BY <1>2, <1>7, ReadKeeps
<1>8. QED
  BY <1>3, <1>4, <1>5, <1>6, <1>7 DEF Video!Next

-----------------------------------------------------------------------------
(* RosPublishers.  The runtime counts exactly the users that hold it, so   *)
(* only the last of them shuts it down.  The age in a message of the state *)
(* still held is the time from when the state was given to when the        *)
(* message was sent.                                                       *)

now == v1
runtime == v2
handle == v3
rosRelation == v6
USE DEF now, runtime, handle, rosRelation

RosConstants == Interval \in Nat /\ None \notin Int

Runtimes == [live : Int \union {None}, users : Int, made : Int]
States == [perception : Int, at : Int]
Aged == [perception : Int, age : Int, sent : Int]
Relations == [given : Int, latest : States \union {None}, due : Int,
              message : Aged \union {None}]

Holds(h, user) == IF h[user] = None THEN 0 ELSE 1

\* Each user that holds a runtime holds the live one, and is counted.
HeldInCommon(r, h) ==
    /\ r \in Runtimes /\ h \in [Ros!Users -> Int \union {None}]
    /\ \A user \in Ros!Users : h[user] # None => h[user] = r.live
    /\ r.users = Holds(h, "cloud") + Holds(h, "relation") + Holds(h, "camera")

AgesAreTrue(relation) ==
    /\ relation \in Relations
    /\ relation.latest # None => relation.latest.perception <= relation.given
    /\ relation.message # None => relation.message.perception <= relation.given
    /\ (/\ relation.latest # None /\ relation.message # None
        /\ relation.latest.perception = relation.message.perception) =>
          relation.message.age = relation.message.sent - relation.latest.at

RosInv == now \in Int /\ HeldInCommon(runtime, handle) /\ AgesAreTrue(rosRelation)

LEMMA RosInvSays == RosInv => Ros!RuntimeIsShared
  BY DEF RosInv, HeldInCommon, Ros!RuntimeIsShared

LEMMA RosInvInit == RosConstants /\ Ros!RosInit => RosInv
<1> SUFFICES ASSUME RosConstants, Ros!RosInit PROVE RosInv
  OBVIOUS
<1>1. now \in Int
  BY DEF Ros!RosInit
<1>2. HeldInCommon(runtime, handle)
  <2>1. runtime \in Runtimes
    BY DEF Ros!RosInit, Runtimes
  <2>2. handle \in [Ros!Users -> Int \union {None}]
    BY DEF Ros!RosInit
  <2>3. \A user \in Ros!Users : handle[user] = None
    BY DEF Ros!RosInit
  <2>4. {"cloud", "relation", "camera"} = Ros!Users
    BY DEF Ros!Users, Ros!Publishers
  <2>5. runtime.users = 0
    BY DEF Ros!RosInit
  <2>6. Holds(handle, "cloud") = 0 /\ Holds(handle, "relation") = 0
          /\ Holds(handle, "camera") = 0
    BY <2>3, <2>4 DEF Holds
  <2>7. QED
    BY <2>1, <2>2, <2>3, <2>5, <2>6 DEF HeldInCommon
<1>3. AgesAreTrue(rosRelation)
  BY DEF Ros!RosInit, AgesAreTrue, Relations
<1>4. QED
  BY <1>1, <1>2, <1>3 DEF RosInv

LEMMA ThreeUsers == Ros!Users = {"cloud", "relation", "camera"}
  BY DEF Ros!Users, Ros!Publishers

\* A user that holds nothing enters the live runtime, or a new one.
LEMMA EnterKeepsCount ==
  ASSUME RosConstants, NEW user \in Ros!Users, HeldInCommon(runtime, handle),
         Ros!Enter(user)
  PROVE  HeldInCommon(runtime', handle')
<1> DEFINE home == IF runtime.live = None THEN runtime.made + 1 ELSE runtime.live
           made == IF runtime.live = None THEN runtime.made + 1 ELSE runtime.made
           users == runtime.users + 1
<1>1. /\ runtime \in Runtimes /\ handle \in [Ros!Users -> Int \union {None}]
      /\ handle[user] = None
  BY DEF HeldInCommon, Ros!Enter
<1>2. home \in Int /\ home # None /\ made \in Int /\ users \in Int
  BY <1>1 DEF Runtimes, RosConstants
<1>3. runtime' = [live |-> home, users |-> users, made |-> made]
  BY DEF Ros!Enter, Ros!Acquired
<1> HIDE DEF home, made, users
<1>4. runtime' \in Runtimes /\ runtime'.live = home /\ runtime'.users = users
  BY <1>2, <1>3 DEF Runtimes
<1>5. handle' = [handle EXCEPT ![user] = home]
  BY <1>4 DEF Ros!Enter
<1>6. handle' \in [Ros!Users -> Int \union {None}]
  BY <1>1, <1>2, <1>5
<1>7. ASSUME NEW other \in Ros!Users, handle'[other] # None
      PROVE  handle'[other] = runtime'.live
  <2>1. CASE other = user
    BY <1>1, <1>4, <1>5, <2>1
  <2>2. CASE other # user
    <3>1. handle[other] # None /\ handle'[other] = handle[other]
      BY <1>1, <1>5, <1>7, <2>2
    <3>2. handle[other] = runtime.live
      BY <3>1 DEF HeldInCommon
    <3>3. home = runtime.live
      BY <3>1, <3>2 DEF home
    <3>4. QED
      BY <1>4, <3>1, <3>2, <3>3
  <2>3. QED
    BY <2>1, <2>2
<1>8. /\ Holds(handle, user) = 0 /\ Holds(handle', user) = 1
      /\ \A other \in Ros!Users \ {user} : Holds(handle', other) = Holds(handle, other)
  BY <1>1, <1>2, <1>5 DEF Holds
<1>9. \A other \in Ros!Users : Holds(handle, other) \in {0, 1}
  BY DEF Holds
<1>10. users = Holds(handle', "cloud") + Holds(handle', "relation")
                 + Holds(handle', "camera")
  <2>1. runtime.users = Holds(handle, "cloud") + Holds(handle, "relation")
                          + Holds(handle, "camera")
    BY DEF HeldInCommon
  <2>2. CASE user = "cloud"
    BY <1>8, <1>9, <2>1, <2>2, ThreeUsers DEF users
  <2>3. CASE user = "relation"
    BY <1>8, <1>9, <2>1, <2>3, ThreeUsers DEF users
  <2>4. CASE user = "camera"
    BY <1>8, <1>9, <2>1, <2>4, ThreeUsers DEF users
  <2>5. QED
    BY <2>2, <2>3, <2>4, ThreeUsers
<1>11. QED
  BY <1>4, <1>6, <1>7, <1>10 DEF HeldInCommon

\* Its last user's release, and no other, ends the live runtime.
LEMMA LeaveKeepsCount ==
  ASSUME RosConstants, NEW user \in Ros!Users, HeldInCommon(runtime, handle),
         Ros!Leave(user)
  PROVE  HeldInCommon(runtime', handle')
<1> DEFINE fewer == runtime.users - 1
           users == Ros!Max({fewer, 0})
           home == IF runtime.users <= 1 THEN None ELSE runtime.live
<1>1. /\ runtime \in Runtimes /\ handle \in [Ros!Users -> Int \union {None}]
      /\ handle[user] # None /\ handle[user] = runtime.live /\ runtime.users \in Int
  BY DEF HeldInCommon, Ros!Leave, Runtimes
<1>2. handle' = [handle EXCEPT ![user] = None]
  BY DEF Ros!Leave
<1>3. /\ Holds(handle, user) = 1 /\ Holds(handle', user) = 0
      /\ \A other \in Ros!Users \ {user} : Holds(handle', other) = Holds(handle, other)
  BY <1>1, <1>2 DEF Holds
<1>4. \A other \in Ros!Users :
          /\ Holds(handle, other) \in {0, 1} /\ Holds(handle', other) \in {0, 1}
          /\ handle'[other] # None => Holds(handle', other) = 1
  BY DEF Holds
<1>5. fewer = Holds(handle', "cloud") + Holds(handle', "relation")
                + Holds(handle', "camera")
  <2>1. runtime.users = Holds(handle, "cloud") + Holds(handle, "relation")
                          + Holds(handle, "camera")
    BY DEF HeldInCommon
  <2>2. CASE user = "cloud"
    BY <1>3, <1>4, <2>1, <2>2, ThreeUsers
  <2>3. CASE user = "relation"
    BY <1>3, <1>4, <2>1, <2>3, ThreeUsers
  <2>4. CASE user = "camera"
    BY <1>3, <1>4, <2>1, <2>4, ThreeUsers
  <2>5. QED
    BY <2>2, <2>3, <2>4, ThreeUsers
<1>6. fewer \in Int /\ fewer >= 0
  BY <1>4, <1>5, ThreeUsers
<1>7. users = fewer
  <2>1. users \in {fewer, 0} /\ \A y \in {fewer, 0} : users >= y
    <3> HIDE DEF fewer
    <3>1. \E x \in {fewer, 0} : \A y \in {fewer, 0} : x >= y
      BY <1>6
    <3>2. QED
      BY <3>1 DEF Ros!Max
  <2> HIDE DEF fewer, users
  <2>2. QED
    BY <1>6, <2>1
<1>8. runtime' = [runtime EXCEPT !.users = users, !.live = home]
  BY <1>1, Zenon DEF Ros!Leave, Ros!Released
<1>9. home \in Int \union {None} /\ users \in Int
  BY <1>1, <1>6, <1>7 DEF Runtimes
<1> HIDE DEF users, home, fewer
<1>10. runtime' \in Runtimes
  BY <1>1, <1>8, <1>9 DEF Runtimes
<1>11. runtime'.users = fewer /\ runtime'.live = home
  BY <1>1, <1>7, <1>8 DEF Runtimes
<1>12. handle' \in [Ros!Users -> Int \union {None}]
  BY <1>1, <1>2
<1>13. ASSUME NEW other \in Ros!Users, handle'[other] # None
       PROVE  handle'[other] = runtime'.live
  <2>1. other # user /\ handle'[other] = handle[other]
    BY <1>1, <1>2, <1>13
  <2>2. handle[other] = runtime.live
    BY <1>13, <2>1 DEF HeldInCommon
  <2>3. fewer >= 1
    BY <1>4, <1>5, <1>13, ThreeUsers
  <2>4. home = runtime.live
    BY <1>1, <2>3 DEF home, fewer
  <2>5. QED
    BY <1>11, <2>1, <2>2, <2>4
<1>14. QED
  BY <1>5, <1>10, <1>11, <1>12, <1>13 DEF HeldInCommon

LEMMA GiveKeepsAges ==
  ASSUME now \in Int, AgesAreTrue(rosRelation), Ros!GiveState
  PROVE  AgesAreTrue(rosRelation') /\ Ros!AgeIsHonest
<1> DEFINE number == rosRelation.given + 1
           state == [perception |-> number, at |-> now]
<1>1. rosRelation \in Relations
  BY DEF AgesAreTrue
<1>2. number \in Int /\ number > rosRelation.given /\ rosRelation.given \in Int
  BY <1>1 DEF Relations
<1>3. rosRelation' = [rosRelation EXCEPT !.given = number, !.latest = state]
  BY Zenon DEF Ros!GiveState
<1>4. state \in States /\ state.perception = number
  BY <1>2 DEF States
<1> HIDE DEF number, state
<1>5. rosRelation' \in Relations
  BY <1>1, <1>2, <1>3, <1>4 DEF Relations
<1>6. /\ rosRelation'.given = number /\ rosRelation'.latest = state
      /\ rosRelation'.message = rosRelation.message
  BY <1>1, <1>3 DEF Relations
<1>7. rosRelation.message # None => /\ rosRelation.message \in Aged
                                    /\ rosRelation.message.perception \in Int
                                    /\ rosRelation.message.perception < number
  BY <1>1, <1>2 DEF AgesAreTrue, Relations, Aged
<1>8. AgesAreTrue(rosRelation')
  BY <1>2, <1>4, <1>5, <1>6, <1>7 DEF AgesAreTrue
<1>9. Ros!AgeIsHonest
  BY <1>6 DEF Ros!AgeIsHonest
<1>10. QED
  BY <1>8, <1>9

LEMMA RepeatKeepsAges ==
  ASSUME RosConstants, now \in Int, AgesAreTrue(rosRelation), Ros!RepeatState
  PROVE  AgesAreTrue(rosRelation') /\ Ros!AgeIsHonest
<1> DEFINE latest == rosRelation.latest
           said == [perception |-> latest.perception, age |-> now - latest.at,
                    sent |-> now]
           message == IF latest = None THEN rosRelation.message ELSE said
           next == rosRelation.due + Interval
           due == Ros!Max({next, now})
<1>1. rosRelation \in Relations /\ rosRelation.given \in Int
  BY DEF AgesAreTrue, Relations
<1>2. rosRelation' = [rosRelation EXCEPT !.due = due, !.message = message]
  BY Zenon DEF Ros!RepeatState
<1>3. due \in Int
  <2>1. next \in Int
    BY <1>1 DEF RosConstants, Relations
  <2> HIDE DEF next
  <2>2. \E x \in {next, now} : \A y \in {next, now} : x >= y
    BY <2>1
  <2>3. due \in {next, now}
    BY <2>2 DEF Ros!Max
  <2>4. QED
    BY <2>1, <2>3
<1>4. latest # None => latest \in States /\ latest.perception \in Int /\ latest.at \in Int
  BY <1>1 DEF Relations, States
<1>5. latest # None => said \in Aged
  BY <1>4 DEF Aged
<1>6. said.perception = latest.perception /\ said.age = now - latest.at /\ said.sent = now
  OBVIOUS
<1> HIDE DEF due, said
<1>7. message \in Aged \union {None}
  BY <1>1, <1>5 DEF Relations
<1>8. latest # None => message = said
  OBVIOUS
<1>9. latest = None => message = rosRelation.message
  OBVIOUS
<1> HIDE DEF message
<1>10. rosRelation' \in Relations
  BY <1>1, <1>2, <1>3, <1>7 DEF Relations
<1>11. /\ rosRelation'.given = rosRelation.given /\ rosRelation'.latest = latest
       /\ rosRelation'.message = message
  BY <1>1, <1>2 DEF Relations
<1>12. CASE latest = None
  <2>1. AgesAreTrue(rosRelation')
    BY <1>9, <1>10, <1>11, <1>12 DEF AgesAreTrue
  <2>2. QED
    BY <1>9, <1>11, <1>12, <2>1 DEF Ros!AgeIsHonest
<1>13. CASE latest # None
  <2>1. AgesAreTrue(rosRelation')
    BY <1>6, <1>8, <1>10, <1>11, <1>13 DEF AgesAreTrue
  <2> DEFINE before == rosRelation.message
  <2>2. ASSUME before # None, before.perception = said.perception
        PROVE  said.age - before.age = said.sent - before.sent
    <3>1. before \in Aged /\ before.age \in Int /\ before.sent \in Int
      BY <1>1, <2>2 DEF Relations, Aged
    <3>2. before.age = before.sent - latest.at
      BY <1>6, <1>13, <2>2 DEF AgesAreTrue
    <3>3. QED
      BY <1>4, <1>6, <1>13, <3>1, <3>2
  <2>3. Ros!AgeIsHonest
    BY <1>8, <1>11, <1>13, <2>2 DEF Ros!AgeIsHonest
  <2>4. QED
    BY <2>1, <2>3
<1>14. QED
  BY <1>12, <1>13

\* Closing the publisher drops the state, and the message sent last stays.
LEMMA CloseKeepsAges ==
  ASSUME AgesAreTrue(rosRelation),
         rosRelation' = rosRelation \/ rosRelation' = [rosRelation EXCEPT !.latest = None]
  PROVE  AgesAreTrue(rosRelation') /\ Ros!AgeIsHonest
<1>1. rosRelation \in Relations
  BY DEF AgesAreTrue
<1>2. CASE rosRelation' = rosRelation
  BY <1>2 DEF Ros!AgeIsHonest
<1>3. CASE rosRelation' = [rosRelation EXCEPT !.latest = None]
  <2>1. rosRelation' \in Relations
    BY <1>1, <1>3 DEF Relations
  <2>2. /\ rosRelation'.given = rosRelation.given /\ rosRelation'.latest = None
        /\ rosRelation'.message = rosRelation.message
    BY <1>1, <1>3 DEF Relations
  <2>3. QED
    BY <2>1, <2>2 DEF AgesAreTrue, Ros!AgeIsHonest
<1>4. QED
  BY <1>2, <1>3

LEMMA RosInvKept ==
  ASSUME RosInv, RosConstants, [Ros!RosNext]_(Ros!rosVars) PROVE RosInv' /\ Ros!AgeIsHonest
<1>1. now \in Int /\ HeldInCommon(runtime, handle) /\ AgesAreTrue(rosRelation)
  BY DEF RosInv
<1>2. ASSUME now' \in Int, HeldInCommon(runtime', handle'),
             AgesAreTrue(rosRelation') /\ Ros!AgeIsHonest
      PROVE  RosInv' /\ Ros!AgeIsHonest
  BY <1>2 DEF RosInv, HeldInCommon, AgesAreTrue, Holds
<1>3. ASSUME UNCHANGED <<runtime, handle, rosRelation>>, now' \in Int
      PROVE  RosInv' /\ Ros!AgeIsHonest
  BY <1>1, <1>2, <1>3, CloseKeepsAges
<1>4. CASE UNCHANGED Ros!rosVars
  BY <1>1, <1>3, <1>4 DEF Ros!rosVars
<1>5. ASSUME NEW p \in Ros!Publishers, Ros!StartPublisher(p) PROVE RosInv' /\ Ros!AgeIsHonest
  <2>1. p \in Ros!Users /\ Ros!Enter(p) /\ UNCHANGED <<now, rosRelation>>
    BY <1>5 DEF Ros!StartPublisher, Ros!Users
  <2>2. QED
    BY <1>1, <1>2, <2>1, EnterKeepsCount, CloseKeepsAges
<1>6. ASSUME NEW p \in Ros!Publishers, Ros!StopWorker(p) PROVE RosInv' /\ Ros!AgeIsHonest
  BY <1>1, <1>3, <1>6 DEF Ros!StopWorker
<1>7. ASSUME NEW p \in Ros!Publishers, Ros!ClosePublisher(p) PROVE RosInv' /\ Ros!AgeIsHonest
  <2>1. p \in Ros!Users /\ Ros!Leave(p) /\ UNCHANGED now
    BY <1>7 DEF Ros!ClosePublisher, Ros!Users
  <2>2. rosRelation' = rosRelation \/ rosRelation' = [rosRelation EXCEPT !.latest = None]
    BY <1>7 DEF Ros!ClosePublisher
  <2>3. QED
    BY <1>1, <1>2, <2>1, <2>2, LeaveKeepsCount, CloseKeepsAges
<1>8. CASE Ros!OpenCamera
  <2>1. "camera" \in Ros!Users /\ Ros!Enter("camera") /\ UNCHANGED <<now, rosRelation>>
    BY <1>8, ThreeUsers DEF Ros!OpenCamera
  <2>2. QED
    BY <1>1, <1>2, <2>1, EnterKeepsCount, CloseKeepsAges
<1>9. CASE Ros!CloseCamera
  <2>1. "camera" \in Ros!Users /\ Ros!Leave("camera") /\ UNCHANGED <<now, rosRelation>>
    BY <1>9, ThreeUsers DEF Ros!CloseCamera
  <2>2. QED
    BY <1>1, <1>2, <2>1, LeaveKeepsCount, CloseKeepsAges
<1>10. CASE Ros!GiveCloud \/ Ros!TakeCloud
                \/ \E outcome \in {"sent", "empty", "raised"} : Ros!SendCloud(outcome)
  BY <1>1, <1>3, <1>10 DEF Ros!GiveCloud, Ros!TakeCloud, Ros!SendCloud
<1>11. CASE Ros!GiveState
  <2>1. UNCHANGED <<now, runtime, handle>>
    BY <1>11 DEF Ros!GiveState
  <2>2. QED
    BY <1>1, <1>2, <1>11, <2>1, GiveKeepsAges
<1>12. CASE Ros!RepeatState
  <2>1. UNCHANGED <<now, runtime, handle>>
    BY <1>12 DEF Ros!RepeatState
  <2>2. QED
    BY <1>1, <1>2, <1>12, <2>1, RepeatKeepsAges
<1>13. CASE Ros!Tick
  BY <1>1, <1>3, <1>13 DEF Ros!Tick
<1>14. QED
  BY <1>4, <1>5, <1>6, <1>7, <1>8, <1>9, <1>10, <1>11, <1>12, <1>13 DEF Ros!RosNext

-----------------------------------------------------------------------------
(* SafetyBranch.  While STOP is latched no DEGRADED has come since, and    *)
(* the calm judgements are at least the releases counted.  A track that    *)
(* has become static needs as many fast observations in a row as the       *)
(* count of dynamic hits lacks, a dynamic one as many slow ones as it has. *)

filters == v1
latched == v2
releases == v3
level == v4
calm == v5
steady == v6
degraded == v7
USE DEF filters, latched, releases, level, calm, steady, degraded

SafetyConstants == MinimumDynamicHits \in Int /\ ReleaseUpdates \in Int

Calmer == {"SAFE", "CAUTION", "WARNING"}
Judgements == Calmer \union {"STOP", "DEGRADED"}

LevelInv ==
    /\ latched \in Judgements /\ level \in Judgements
    /\ releases \in Int /\ calm \in Int /\ degraded \in BOOLEAN
    /\ latched = "DEGRADED" => degraded /\ releases = 0
    /\ latched = "STOP" => ~degraded /\ calm >= releases
    /\ latched \in Calmer /\ ~degraded => calm >= ReleaseUpdates
    /\ level \in Calmer /\ ~degraded => calm >= ReleaseUpdates
    /\ level = "STOP" => latched = "STOP" \/ calm >= ReleaseUpdates

Moving == [missing : Int, dynamic : Int, motion : {"static", "dynamic"}]

\* What the count of a track says of the observations since its motion changed.
Balanced(track, since) ==
    /\ track \in Moving
    /\ track.motion = "static" =>
          /\ 0 <= track.dynamic /\ track.dynamic < MinimumDynamicHits
          /\ since # 0 => track.dynamic < since
    /\ track.motion = "dynamic" =>
          /\ 1 <= track.dynamic /\ track.dynamic <= MinimumDynamicHits
          /\ since # 0 => MinimumDynamicHits < track.dynamic + since

TracksInv ==
    /\ filters \in [TrackIds -> Moving \union {None}]
    /\ steady \in [TrackIds -> Nat]
    /\ MinimumDynamicHits > 0 =>
          \A id \in TrackIds : filters[id] # None => Balanced(filters[id], steady[id])

DecisionInv == LevelInv /\ TracksInv

LEMMA DecisionInvSays == DecisionInv => Safety!StopIsReleasedLate
  BY DEF DecisionInv, LevelInv, Calmer, Safety!StopIsReleasedLate, Safety!Released

LEMMA DecisionInvInit == SafetyConstants /\ Safety!Init => DecisionInv
<1> SUFFICES ASSUME SafetyConstants, Safety!Init PROVE DecisionInv
  OBVIOUS
<1>1. LevelInv
  <2>1. /\ latched = "SAFE" /\ level = "SAFE" /\ releases = 0 /\ calm = ReleaseUpdates
        /\ degraded = FALSE
    BY DEF Safety!Init
  <2>2. degraded \in BOOLEAN
    BY <2>1
  <2>3. QED
    BY <2>1, <2>2 DEF LevelInv, Calmer, Judgements, SafetyConstants
<1>2. TracksInv
  BY DEF Safety!Init, TracksInv
<1>3. QED
  BY <1>1, <1>2 DEF DecisionInv

\* The levels and their order; a worst zone exists however many there are.
LEMMA FourLevels ==
  /\ Safety!Levels = Calmer \union {"STOP"}
  /\ Safety!Severities["SAFE"] = 0 /\ Safety!Severities["CAUTION"] = 1
  /\ Safety!Severities["WARNING"] = 2 /\ Safety!Severities["STOP"] = 3
<1>1. Safety!Levels = {"SAFE", "CAUTION", "WARNING", "STOP"}
  BY DEF Safety!Levels, Safety!Severities
<1>2. QED
  BY <1>1 DEF Safety!Severities, Calmer

LEMMA RawIsLevel ==
  ASSUME NEW live, NEW zones \in [live -> Safety!Levels], NEW blocked \in BOOLEAN
  PROVE  Safety!Raw(zones, blocked) \in Safety!Levels
<1>1. CASE blocked
  BY <1>1, FourLevels DEF Safety!Raw
<1>2. CASE ~blocked
  <2> DEFINE shown == {"SAFE"} \cup {zones[id] : id \in DOMAIN zones}
             Worst(l) == l \in shown /\ \A id \in DOMAIN zones :
                            Safety!Severities[zones[id]] <= Safety!Severities[l]
  <2>1. \A id \in DOMAIN zones : zones[id] \in Safety!Levels
    OBVIOUS
  <2>2. \A l \in Safety!Levels : Safety!Severities[l] \in 0 .. 3
    BY FourLevels DEF Calmer
  <2>3. \E l \in Safety!Levels : Worst(l)
    <3>1. CASE "STOP" \in shown
      BY <2>1, <2>2, <3>1, FourLevels
    <3>2. CASE "STOP" \notin shown /\ "WARNING" \in shown
      <4>1. \A id \in DOMAIN zones : zones[id] \in Calmer
        BY <2>1, <3>2, FourLevels
      <4>2. QED
        BY <3>2, <4>1, FourLevels DEF Calmer
    <3>3. CASE "STOP" \notin shown /\ "WARNING" \notin shown /\ "CAUTION" \in shown
      <4>1. \A id \in DOMAIN zones : zones[id] \in {"SAFE", "CAUTION"}
        BY <2>1, <3>3, FourLevels DEF Calmer
      <4>2. QED
        BY <3>3, <4>1, FourLevels DEF Calmer
    <3>4. CASE "STOP" \notin shown /\ "WARNING" \notin shown /\ "CAUTION" \notin shown
      <4>1. \A id \in DOMAIN zones : zones[id] = "SAFE"
        BY <2>1, <3>4, FourLevels DEF Calmer
      <4>2. QED
        BY <4>1, FourLevels DEF Calmer
    <3>5. QED
      BY <3>1, <3>2, <3>3, <3>4
  <2>4. QED
    BY <1>2, <2>3 DEF Safety!Raw
<1>3. QED
  BY <1>1, <1>2

\* One judgement after another.
LEMMA DecideKeepsLevelInv ==
  ASSUME LevelInv, SafetyConstants, NEW raw \in Judgements, Safety!Decide(raw)
  PROVE  LevelInv'
<1>1. /\ level' = latched' /\ Safety!Debounce(raw)
      /\ calm' = IF raw = "STOP" THEN 0 ELSE IF calm < ReleaseUpdates THEN calm + 1 ELSE calm
      /\ degraded' = (raw # "STOP" /\ (degraded \/ raw = "DEGRADED"))
  BY DEF Safety!Decide
<1>2. degraded' \in BOOLEAN
  BY <1>1
<1>3. calm' \in Int
  BY <1>1 DEF LevelInv
<1>4. CASE raw = "DEGRADED"
  <2>1. latched' = "DEGRADED" /\ releases' = 0 /\ degraded'
    BY <1>1, <1>4 DEF Safety!Debounce
  <2>2. QED
    BY <1>1, <1>2, <1>3, <2>1 DEF LevelInv, Judgements, Calmer
<1>5. CASE raw = "STOP"
  <2>1. latched' = "STOP" /\ releases' = 0
    BY <1>1, <1>5, FourLevels DEF Safety!Debounce, LevelInv, Judgements, Calmer
  <2>2. ~degraded' /\ calm' = 0
    BY <1>1, <1>5
  <2>3. QED
    BY <1>1, <1>2, <1>3, <2>1, <2>2 DEF LevelInv, Judgements, Calmer
<1>6. CASE raw \in Calmer
  <2>1. raw # "STOP" /\ raw # "DEGRADED" /\ raw \in Judgements
    BY <1>6 DEF Calmer
  <2>2. degraded' = degraded
    BY <1>1, <2>1 DEF LevelInv
  <2>3. calm' = IF calm < ReleaseUpdates THEN calm + 1 ELSE calm
    BY <1>1, <2>1
  <2>4. CASE latched = "DEGRADED"
    <3>1. latched' = raw /\ releases' = releases /\ degraded' /\ releases \in Int
      BY <1>1, <2>1, <2>2, <2>4 DEF Safety!Debounce, LevelInv
    <3>2. QED
      BY <1>1, <1>2, <1>3, <1>6, <2>1, <3>1 DEF LevelInv, Calmer
  <2>5. CASE latched = "STOP"
    <3>1. ~(Safety!Severities[raw] >= Safety!Severities[latched])
      BY <1>6, <2>5, FourLevels DEF Calmer
    <3>2. CASE releases + 1 >= ReleaseUpdates
      <4>1. latched' = raw /\ releases' = 0
        BY <1>1, <2>1, <2>5, <3>1, <3>2 DEF Safety!Debounce, Safety!Required
      <4>2. ~degraded' => calm' >= ReleaseUpdates
        BY <2>2, <2>3, <2>5, <3>2 DEF LevelInv, SafetyConstants
      <4>3. QED
        BY <1>1, <1>2, <1>3, <1>6, <2>1, <4>1, <4>2 DEF LevelInv, Calmer
    <3>3. CASE ~(releases + 1 >= ReleaseUpdates)
      <4>1. latched' = "STOP" /\ releases' = releases + 1
        BY <1>1, <2>1, <2>5, <3>1, <3>3 DEF Safety!Debounce, Safety!Required
      <4>2. ~degraded' /\ calm' >= releases'
        BY <2>2, <2>3, <2>5, <3>3, <4>1 DEF LevelInv, SafetyConstants
      <4>3. releases' \in Int
        BY <4>1 DEF LevelInv
      <4>4. QED
        BY <1>1, <1>2, <1>3, <4>1, <4>2, <4>3 DEF LevelInv, Judgements, Calmer
    <3>4. QED
      BY <3>2, <3>3
  <2>6. CASE latched \in Calmer
    <3>1. latched' \in Calmer
      BY <1>1, <1>6, <2>1, <2>6 DEF Safety!Debounce, Calmer
    <3>2. releases' \in Int
      BY <1>1, <2>1, <2>6 DEF Safety!Debounce, LevelInv, Calmer
    <3>3. ~degraded' => calm' >= ReleaseUpdates
      BY <2>2, <2>3, <2>6 DEF LevelInv, SafetyConstants
    <3>4. QED
      BY <1>1, <1>2, <1>3, <3>1, <3>2, <3>3 DEF LevelInv, Judgements, Calmer
  <2>7. QED
    BY <2>4, <2>5, <2>6 DEF LevelInv, Judgements
<1>7. QED
  BY <1>4, <1>5, <1>6 DEF Judgements

\* The motion of an observed track, and how often it can have changed.
LEMMA MotionStep ==
  ASSUME SafetyConstants, NEW track \in Moving, NEW speed \in {"fast", "between", "slow"}
  PROVE  LET after == Safety!MotionAfter(track, speed) IN
         /\ after \in Moving /\ after.missing = track.missing
         /\ \A since \in Nat : MinimumDynamicHits > 0 /\ Balanced(track, since) =>
               /\ after.motion = track.motion =>
                     Balanced(after, IF since # 0 /\ since <= MinimumDynamicHits
                                       THEN since + 1 ELSE since)
               /\ after.motion # track.motion =>
                     Balanced(after, 1) /\ (since = 0 \/ since >= MinimumDynamicHits)
<1> DEFINE after == Safety!MotionAfter(track, speed)
<1>1. track.dynamic \in Int /\ track.missing \in Int /\ MinimumDynamicHits \in Int
  BY DEF Moving, SafetyConstants
<1>2. CASE track.motion = "static"
  <2> DEFINE count == IF speed = "fast" THEN track.dynamic + 1 ELSE 0
             motion == IF count >= MinimumDynamicHits THEN "dynamic" ELSE "static"
  <2>1. after = [track EXCEPT !.dynamic = count, !.motion = motion]
    BY <1>2, Zenon DEF Safety!MotionAfter
  <2>2. count \in Int /\ motion \in {"static", "dynamic"}
    BY <1>1
  <2>3. /\ count = track.dynamic + 1 \/ count = 0
        /\ motion = "dynamic" => count >= MinimumDynamicHits
        /\ motion = "static" => count < MinimumDynamicHits
    BY <1>1
  <2> HIDE DEF count, motion, after
  <2>4. after \in Moving /\ after.missing = track.missing
    BY <2>1, <2>2 DEF Moving
  <2>5. after.dynamic = count /\ after.motion = motion
    BY <2>1 DEF Moving
  <2>6. ASSUME NEW since \in Nat, MinimumDynamicHits > 0, Balanced(track, since)
        PROVE  /\ after.motion = track.motion =>
                     Balanced(after, IF since # 0 /\ since <= MinimumDynamicHits
                                       THEN since + 1 ELSE since)
               /\ after.motion # track.motion =>
                     Balanced(after, 1) /\ (since = 0 \/ since >= MinimumDynamicHits)
    <3>1. 0 <= track.dynamic /\ track.dynamic < MinimumDynamicHits
            /\ (since # 0 => track.dynamic < since)
      BY <1>2, <2>6 DEF Balanced
    <3>2. CASE motion = "static"
      <4>1. 0 <= count /\ count < MinimumDynamicHits
        BY <1>1, <2>2, <2>3, <3>1, <3>2
      <4>2. ASSUME NEW later \in Nat, later # 0 => since # 0,
                   later = since + 1 \/ since > MinimumDynamicHits \/ since = 0,
                   later # 0 => later >= since
            PROVE  later # 0 => count < later
        BY <1>1, <2>2, <2>3, <3>1, <4>1, <4>2
      <4>3. Balanced(after, IF since # 0 /\ since <= MinimumDynamicHits
                              THEN since + 1 ELSE since)
        BY <1>1, <2>4, <2>5, <3>2, <4>1, <4>2 DEF Balanced
      <4>4. QED
        BY <1>2, <2>5, <3>2, <4>3
    <3>3. CASE motion = "dynamic"
      <4>1. count = MinimumDynamicHits /\ (since # 0 => since >= MinimumDynamicHits)
        BY <1>1, <2>2, <2>3, <2>6, <3>1, <3>3
      <4>2. Balanced(after, 1)
        BY <1>1, <2>4, <2>5, <2>6, <3>3, <4>1 DEF Balanced
      <4>3. QED
        BY <1>2, <2>5, <3>3, <4>1, <4>2
    <3>4. QED
      BY <2>2, <3>2, <3>3
  <2>7. QED
    BY <2>4, <2>6 DEF after
<1>3. CASE track.motion = "dynamic" /\ speed = "slow"
  <2> DEFINE count == Safety!Bigger(track.dynamic - 1, 0)
             motion == IF count = 0 THEN "static" ELSE "dynamic"
  <2>1. after = [track EXCEPT !.dynamic = count, !.motion = motion]
    BY <1>3, Zenon DEF Safety!MotionAfter
  <2>2. count \in Int /\ motion \in {"static", "dynamic"}
    BY <1>1 DEF Safety!Bigger
  <2>3. /\ track.dynamic >= 1 => count = track.dynamic - 1
        /\ motion = "static" <=> count = 0
    BY <1>1 DEF Safety!Bigger
  <2> HIDE DEF count, motion, after
  <2>4. after \in Moving /\ after.missing = track.missing
    BY <2>1, <2>2 DEF Moving
  <2>5. after.dynamic = count /\ after.motion = motion
    BY <2>1 DEF Moving
  <2>6. ASSUME NEW since \in Nat, MinimumDynamicHits > 0, Balanced(track, since)
        PROVE  /\ after.motion = track.motion =>
                     Balanced(after, IF since # 0 /\ since <= MinimumDynamicHits
                                       THEN since + 1 ELSE since)
               /\ after.motion # track.motion =>
                     Balanced(after, 1) /\ (since = 0 \/ since >= MinimumDynamicHits)
    <3>1. /\ 1 <= track.dynamic /\ track.dynamic <= MinimumDynamicHits
          /\ since # 0 => MinimumDynamicHits < track.dynamic + since
          /\ count = track.dynamic - 1
      BY <1>1, <1>3, <2>3, <2>6 DEF Balanced
    <3>2. CASE motion = "dynamic"
      <4>1. 1 <= count /\ count <= MinimumDynamicHits
        BY <1>1, <2>2, <2>3, <3>1, <3>2
      <4>2. ASSUME NEW later \in Nat, later # 0 => since # 0,
                   later = since + 1 \/ since > MinimumDynamicHits \/ since = 0,
                   later # 0 => later >= since
            PROVE  later # 0 => MinimumDynamicHits < count + later
        BY <1>1, <2>2, <3>1, <4>1, <4>2
      <4>3. Balanced(after, IF since # 0 /\ since <= MinimumDynamicHits
                              THEN since + 1 ELSE since)
        BY <1>1, <2>4, <2>5, <3>2, <4>1, <4>2 DEF Balanced
      <4>4. QED
        BY <1>3, <2>5, <3>2, <4>3
    <3>3. CASE motion = "static"
      <4>1. count = 0 /\ (since # 0 => since >= MinimumDynamicHits)
        BY <1>1, <2>2, <2>3, <2>6, <3>1, <3>3
      <4>2. Balanced(after, 1)
        BY <1>1, <2>4, <2>5, <2>6, <3>3, <4>1 DEF Balanced
      <4>3. QED
        BY <1>3, <2>5, <3>3, <4>1, <4>2
    <3>4. QED
      BY <2>2, <3>2, <3>3
  <2>7. QED
    BY <2>4, <2>6 DEF after
<1>4. CASE track.motion = "dynamic" /\ speed # "slow"
  <2>1. after = [track EXCEPT !.dynamic = MinimumDynamicHits]
    BY <1>4, Zenon DEF Safety!MotionAfter
  <2> HIDE DEF after
  <2>2. after \in Moving /\ after.missing = track.missing
    BY <1>1, <2>1 DEF Moving
  <2>3. after.dynamic = MinimumDynamicHits /\ after.motion = "dynamic"
    BY <1>4, <2>1 DEF Moving
  <2>4. \A since \in Nat : MinimumDynamicHits > 0 => Balanced(after, since)
    BY <1>1, <2>2, <2>3 DEF Balanced
  <2>5. \A since \in Nat : (IF since # 0 /\ since <= MinimumDynamicHits
                              THEN since + 1 ELSE since) \in Nat
    OBVIOUS
  <2>6. QED
    BY <1>4, <2>2, <2>3, <2>4, <2>5 DEF after
<1>5. QED
  BY <1>2, <1>3, <1>4 DEF Moving

\* An observed track and one that is missed, with what is known of its past.
TracksStep(track, since, after, then) ==
    /\ after \in Moving \union {None} /\ then \in Nat
    /\ MinimumDynamicHits > 0 =>
          /\ after # None => Balanced(after, then)
          /\ track # None /\ after # None /\ after.motion # track.motion =>
                since = 0 \/ since >= MinimumDynamicHits

LEMMA ObservedStep ==
  ASSUME SafetyConstants, NEW track \in Moving \union {None}, NEW since \in Nat,
         MinimumDynamicHits > 0 /\ track # None => Balanced(track, since),
         NEW speed \in {"fast", "between", "slow"}, NEW after,
         after = Safety!Observed(track, speed), NEW then,
         then = IF after = None \/ track = None THEN 0
                ELSE IF after.motion # track.motion THEN 1
                ELSE IF since # 0 /\ since <= MinimumDynamicHits THEN since + 1 ELSE since
  PROVE  TracksStep(track, since, after, then)
<1>1. then \in Nat
  OBVIOUS
<1>2. CASE track = None
  <2>1. after = [missing |-> 0, dynamic |-> 0, motion |-> "static"] /\ then = 0
    BY <1>2 DEF Safety!Observed
  <2>2. after \in Moving /\ after.dynamic = 0 /\ after.motion = "static"
    BY <2>1 DEF Moving
  <2>3. MinimumDynamicHits > 0 => Balanced(after, then)
    BY <2>1, <2>2 DEF Balanced, SafetyConstants
  <2>4. QED
    BY <1>2, <2>1, <2>2, <2>3 DEF TracksStep
<1>3. CASE track # None
  <2> DEFINE moved == Safety!MotionAfter(track, speed)
             later == IF since # 0 /\ since <= MinimumDynamicHits THEN since + 1 ELSE since
  <2>1. track \in Moving
    BY <1>3
  <2>2. moved \in Moving
    BY <2>1, MotionStep
  <2>3. MinimumDynamicHits > 0 =>
          /\ moved.motion = track.motion => Balanced(moved, later)
          /\ moved.motion # track.motion =>
                Balanced(moved, 1) /\ (since = 0 \/ since >= MinimumDynamicHits)
    BY <1>3, <2>1, MotionStep
  <2>4. after = [moved EXCEPT !.missing = 0]
    BY <1>3 DEF Safety!Observed
  <2>5. then = IF after = None THEN 0
               ELSE IF after.motion # track.motion THEN 1 ELSE later
    BY <1>3
  <2> HIDE DEF moved, later
  <2>6. after \in Moving /\ after.dynamic = moved.dynamic /\ after.motion = moved.motion
    BY <2>2, <2>4 DEF Moving
  <2>7. \A n : Balanced(moved, n) => Balanced(after, n)
    BY <2>6 DEF Balanced
  <2>8. QED
    BY <1>1, <2>3, <2>5, <2>6, <2>7 DEF TracksStep
<1>4. QED
  BY <1>2, <1>3

LEMMA CoastedStep ==
  ASSUME SafetyConstants, NEW track \in Moving \union {None}, NEW since \in Nat,
         MinimumDynamicHits > 0 /\ track # None => Balanced(track, since),
         NEW after, after = Safety!Coasted(track), NEW then,
         then = IF after = None \/ track = None THEN 0
                ELSE IF after.motion # track.motion THEN 1 ELSE since
  PROVE  TracksStep(track, since, after, then)
<1>1. CASE after = None
  BY <1>1 DEF TracksStep
<1>2. CASE after # None
  <2> DEFINE missed == track.missing + 1
  <2>1. track # None /\ track \in Moving /\ after = [track EXCEPT !.missing = missed]
    BY <1>2 DEF Safety!Coasted
  <2>2. missed \in Int
    BY <2>1 DEF Moving
  <2> HIDE DEF missed
  <2>3. after \in Moving /\ after.dynamic = track.dynamic /\ after.motion = track.motion
    BY <2>1, <2>2 DEF Moving
  <2>4. then = since
    BY <1>2, <2>1, <2>3
  <2>5. MinimumDynamicHits > 0 => Balanced(after, since)
    BY <2>1, <2>3 DEF Balanced
  <2>6. QED
    BY <2>1, <2>3, <2>4, <2>5 DEF TracksStep
<1>3. QED
  BY <1>1, <1>2

LEMMA UpdateKeepsTracksInv ==
  ASSUME SafetyConstants, TracksInv, NEW seen \in SUBSET TrackIds,
         NEW speed \in [TrackIds -> {"fast", "between", "slow"}],
         Safety!UpdateTracks(seen, speed)
  PROVE  TracksInv' /\ Safety!MotionIsSteady
<1>1. ASSUME NEW id \in TrackIds
      PROVE  TracksStep(filters[id], steady[id], filters'[id], steady'[id])
  <2>1. /\ filters[id] \in Moving \union {None} /\ steady[id] \in Nat
        /\ MinimumDynamicHits > 0 /\ filters[id] # None => Balanced(filters[id], steady[id])
    BY DEF TracksInv
  <2>2. CASE id \in seen
    <3>1. filters'[id] = Safety!Observed(filters[id], speed[id])
      BY <2>2 DEF Safety!UpdateTracks
    <3>2. steady'[id] = IF filters'[id] = None \/ filters[id] = None THEN 0
                        ELSE IF filters'[id].motion # filters[id].motion THEN 1
                        ELSE IF steady[id] # 0 /\ steady[id] <= MinimumDynamicHits
                               THEN steady[id] + 1 ELSE steady[id]
      BY <2>2 DEF Safety!UpdateTracks
    <3>3. speed[id] \in {"fast", "between", "slow"}
      OBVIOUS
    <3>4. QED
      BY <2>1, <3>1, <3>2, <3>3, ObservedStep
  <2>3. CASE id \notin seen
    <3>1. filters'[id] = Safety!Coasted(filters[id])
      BY <2>3 DEF Safety!UpdateTracks
    <3>2. steady'[id] = IF filters'[id] = None \/ filters[id] = None THEN 0
                        ELSE IF filters'[id].motion # filters[id].motion THEN 1
                        ELSE steady[id]
      BY <2>3 DEF Safety!UpdateTracks
    <3>3. QED
      BY <2>1, <3>1, <3>2, CoastedStep
  <2>4. QED
    BY <2>2, <2>3
<1>2. DOMAIN filters' = TrackIds /\ DOMAIN steady' = TrackIds
  BY DEF Safety!UpdateTracks
<1>3. /\ filters' = [id \in TrackIds |-> filters'[id]]
      /\ steady' = [id \in TrackIds |-> steady'[id]]
  BY DEF Safety!UpdateTracks
<1>4. filters' \in [TrackIds -> Moving \union {None}] /\ steady' \in [TrackIds -> Nat]
  BY <1>1, <1>3 DEF TracksStep
<1>5. TracksInv'
  BY <1>1, <1>4 DEF TracksInv, TracksStep
<1>6. Safety!MotionIsSteady
  <2>1. SUFFICES ASSUME NEW id \in TrackIds, filters[id] # None, filters'[id] # None,
                        filters'[id].motion # filters[id].motion
                 PROVE  steady[id] = 0 \/ steady[id] >= MinimumDynamicHits
    BY DEF Safety!MotionIsSteady
  <2>2. CASE MinimumDynamicHits > 0
    BY <1>1, <2>1, <2>2 DEF TracksStep
  <2>3. CASE ~(MinimumDynamicHits > 0)
    BY <2>3 DEF TracksInv, SafetyConstants
  <2>4. QED
    BY <2>2, <2>3
<1>7. QED
  BY <1>5, <1>6

\* The level that is announced after STOP.
LEMMA StopLeftLate ==
  ASSUME LevelInv, LevelInv', SafetyConstants, NEW raw \in Judgements, Safety!Decide(raw)
  PROVE  Safety!StopGivesWayLate
<1> SUFFICES ASSUME level = "STOP", level' \in Calmer PROVE calm' >= ReleaseUpdates
  BY DEF LevelInv, Judgements, Safety!StopGivesWayLate
<1>1. /\ level' = latched' /\ Safety!Debounce(raw)
      /\ calm' = IF raw = "STOP" THEN 0 ELSE IF calm < ReleaseUpdates THEN calm + 1 ELSE calm
      /\ degraded' = (raw # "STOP" /\ (degraded \/ raw = "DEGRADED"))
  BY DEF Safety!Decide
<1>2. raw # "DEGRADED"
  BY <1>1 DEF Safety!Debounce, Calmer
<1>3. CASE latched = "STOP"
  <2>1. ~degraded'
    BY <1>1, <1>2, <1>3 DEF LevelInv
  <2>2. QED
    BY <2>1 DEF LevelInv
<1>4. CASE calm >= ReleaseUpdates
  <2>1. CASE raw = "STOP"
    <3>1. latched' = "STOP"
      BY <1>1, <2>1, FourLevels DEF Safety!Debounce, LevelInv, Judgements, Calmer
    <3>2. QED
      BY <1>1, <3>1 DEF Calmer
  <2>2. CASE raw # "STOP"
    BY <1>1, <1>4, <2>2 DEF LevelInv, SafetyConstants
  <2>3. QED
    BY <2>1, <2>2
<1>5. QED
  BY <1>3, <1>4 DEF LevelInv

LEMMA SameTracksAreSteady ==
  ASSUME UNCHANGED <<filters, steady>>, TracksInv PROVE TracksInv' /\ Safety!MotionIsSteady
  BY DEF TracksInv, Safety!MotionIsSteady

LEMMA DecisionInvKept ==
  ASSUME DecisionInv, SafetyConstants, [Safety!Next]_(Safety!vars)
  PROVE  DecisionInv' /\ Safety!MotionIsSteady /\ Safety!StopGivesWayLate
<1>1. LevelInv /\ TracksInv
  BY DEF DecisionInv
<1>2. CASE UNCHANGED Safety!vars
  <2>1. UNCHANGED <<filters, steady>> /\ LevelInv' /\ Safety!StopGivesWayLate
    BY <1>1, <1>2 DEF Safety!vars, LevelInv, Safety!StopGivesWayLate
  <2>2. QED
    BY <1>1, <2>1, SameTracksAreSteady DEF DecisionInv
<1>3. ASSUME NEW valid \in BOOLEAN, Safety!Tick(valid)
      PROVE  DecisionInv' /\ Safety!MotionIsSteady /\ Safety!StopGivesWayLate
  <2>1. TracksInv' /\ Safety!MotionIsSteady
    <3>1. CASE \E seen \in SUBSET TrackIds,
                 speed \in [TrackIds -> {"fast", "between", "slow"}] :
                 Safety!UpdateTracks(seen, speed)
      BY <1>1, <3>1, UpdateKeepsTracksInv
    <3>2. CASE Safety!PredictTracks
      BY <1>1, <3>2, SameTracksAreSteady DEF Safety!PredictTracks
    <3>3. QED
      BY <1>3, <3>1, <3>2 DEF Safety!Tick
  <2> DEFINE live == {id \in TrackIds : filters'[id] # None}
  <2>2. PICK zones \in [live -> Safety!Levels], blocked \in BOOLEAN :
            Safety!Decide(Safety!Judged(Safety!Raw(zones, blocked), valid))
    BY <1>3, Zenon DEF Safety!Tick
  <2> DEFINE worst == Safety!Raw(zones, blocked)
  <2>3. worst \in Safety!Levels
    BY <2>2, RawIsLevel
  <2> HIDE DEF worst
  <2>4. Safety!Judged(worst, valid) \in Judgements
    BY <2>3, FourLevels DEF Safety!Judged, Judgements
  <2>5. LevelInv'
    BY <1>1, <2>2, <2>4, DecideKeepsLevelInv DEF worst
  <2>6. Safety!StopGivesWayLate
    BY <1>1, <2>2, <2>4, <2>5, StopLeftLate DEF worst
  <2>7. QED
    BY <2>1, <2>5, <2>6 DEF DecisionInv
<1>4. CASE Safety!Reset
  <2>1. /\ filters' = [id \in TrackIds |-> None] /\ steady' = [id \in TrackIds |-> 0]
        /\ latched' = "SAFE" /\ releases' = 0 /\ calm' = ReleaseUpdates
        /\ level' = level
    BY <1>4 DEF Safety!Reset
  <2>2. degraded' = FALSE
    BY <1>4 DEF Safety!Reset
  <2>3. degraded' \in BOOLEAN
    BY <2>2
  <2>4. LevelInv'
    BY <1>1, <2>1, <2>2, <2>3 DEF LevelInv, Judgements, Calmer, SafetyConstants
  <2>5. TracksInv' /\ Safety!MotionIsSteady
    BY <2>1 DEF TracksInv, Safety!MotionIsSteady
  <2>6. Safety!StopGivesWayLate
    BY <2>1 DEF Safety!StopGivesWayLate
  <2>7. QED
    BY <2>4, <2>5, <2>6 DEF DecisionInv
<1>5. QED
  BY <1>2, <1>3, <1>4 DEF Safety!Next

-----------------------------------------------------------------------------
(* PeopleBranch.  While everything stays in view, either an object is      *)
(* confirmed, or the trackers have been reset and the gates hold for as    *)
(* long as some object still needs to be confirmed again.                  *)

flat == v1
solid == v2
gates == v5
obstacleCloud == v6
shownRelation == v7
inView == v9
USE DEF flat, solid, gates, obstacleCloud, shownRelation, inView

\* confirmation_hits is at least 1 and obstacle_cloud_hold_updates not negative.
PeopleConstants ==
    /\ PersonHits \in Nat \ {0} /\ CloudHold \in Nat
    /\ None \notin Int /\ None \notin [hits : Int, missing : Int]

Flats == [hits : Int, missing : Int]
Gates == [valid : BOOLEAN, hold : Int]
HitsOf(tracks, o) == IF tracks[o] = None THEN 0 ELSE tracks[o].hits

\* No gate is shut, and none runs out before the object is confirmed.
Covered(tracks, gate, o) == gate.valid /\ HitsOf(tracks, o) + gate.hold >= PersonHits

Bridged(tracks, solids, toCloud, toRelation) ==
    /\ \A o \in Objects : solids[o] = None
    /\ \E o \in Objects : Covered(tracks, toCloud, o) /\ Covered(tracks, toRelation, o)

PeopleInv ==
    /\ flat \in [Objects -> Flats \union {None}]
    /\ gates \in [cloud : Gates, relation : Gates]
    /\ inView =>
          /\ obstacleCloud = "points" /\ shownRelation.obstacles # {}
          /\ gates.cloud.valid /\ gates.relation.valid
          /\ \/ \E o \in Objects : HitsOf(flat, o) >= PersonHits
             \/ Bridged(flat, solid, gates.cloud, gates.relation)

LEMMA PeopleInvSays == PeopleInv => People!SwitchKeepsObstacles
  BY DEF PeopleInv, People!SwitchKeepsObstacles

LEMMA ShutIsGate == People!Shut \in Gates
<1> DEFINE shut == FALSE
<1>1. shut \in BOOLEAN
  OBVIOUS
<1>2. People!Shut = [valid |-> shut, hold |-> 0]
  BY DEF People!Shut
<1> HIDE DEF shut
<1>3. QED
  BY <1>1, <1>2 DEF Gates

LEMMA LostIsFlat == People!Lost \in [Objects -> Flats \union {None}]
  BY DEF People!Lost

LEMMA PeopleInvInit == People!Init => PeopleInv
<1> SUFFICES ASSUME People!Init PROVE PeopleInv
  OBVIOUS
<1>1. flat = People!Lost /\ gates = [cloud |-> People!Shut, relation |-> People!Shut]
  BY DEF People!Init
<1>2. gates \in [cloud : Gates, relation : Gates]
  BY <1>1, ShutIsGate
<1>3. ~inView
  BY DEF People!Init
<1>4. QED
  BY <1>1, <1>2, <1>3, ShutIsGate, LostIsFlat DEF PeopleInv

\* One update of the 2D tracker.
LEMMA FlatStep ==
  ASSUME PeopleConstants, flat \in [Objects -> Flats \union {None}],
         NEW seen \in SUBSET Objects
  PROVE  /\ People!Flat(seen) \in [Objects -> Flats \union {None}]
         /\ \A o \in seen :
               /\ People!Flat(seen)[o] # None /\ People!Flat(seen)[o].missing = 0
               /\ HitsOf(flat, o) >= PersonHits =>
                     HitsOf(People!Flat(seen), o) >= PersonHits
               /\ \/ HitsOf(People!Flat(seen), o) = HitsOf(flat, o) + 1
                  \/ HitsOf(People!Flat(seen), o) >= PersonHits
<1> DEFINE After(o) == IF o \in seen
        THEN [hits |-> IF flat[o] = None THEN 1
                       ELSE IF flat[o].hits < PersonHits THEN flat[o].hits + 1
                       ELSE PersonHits,
              missing |-> 0]
        ELSE IF flat[o] = None \/ flat[o].missing >= MaxPersonMissing THEN None
        ELSE [flat[o] EXCEPT !.missing = @ + 1]
<1>1. People!Flat(seen) = [o \in Objects |-> After(o)]
  BY DEF People!Flat
<1>2. ASSUME NEW o \in Objects
      PROVE  /\ After(o) \in Flats \union {None}
             /\ o \in seen =>
                  /\ After(o) # None /\ After(o).missing = 0
                  /\ HitsOf(flat, o) >= PersonHits => After(o).hits >= PersonHits
                  /\ After(o).hits = HitsOf(flat, o) + 1 \/ After(o).hits >= PersonHits
  <2>1. flat[o] \in Flats \union {None}
    OBVIOUS
  <2>2. CASE o \in seen
    <3> DEFINE hits == IF flat[o] = None THEN 1
                       ELSE IF flat[o].hits < PersonHits THEN flat[o].hits + 1
                       ELSE PersonHits
    <3>1. /\ hits \in Int
          /\ HitsOf(flat, o) >= PersonHits => hits >= PersonHits
          /\ hits = HitsOf(flat, o) + 1 \/ hits >= PersonHits
      BY <2>1 DEF PeopleConstants, HitsOf, Flats
    <3> HIDE DEF hits
    <3>2. After(o) = [hits |-> hits, missing |-> 0]
      BY <2>2 DEF hits
    <3>3. After(o) \in Flats /\ After(o).hits = hits /\ After(o).missing = 0
      BY <3>1, <3>2 DEF Flats
    <3>4. QED
      BY <3>1, <3>3 DEF PeopleConstants, Flats
  <2>3. CASE o \notin seen
    <3>1. CASE flat[o] = None \/ flat[o].missing >= MaxPersonMissing
      BY <2>3, <3>1
    <3>2. CASE ~(flat[o] = None \/ flat[o].missing >= MaxPersonMissing)
      <4>1. flat[o] \in Flats /\ After(o) = [flat[o] EXCEPT !.missing = @ + 1]
        BY <2>1, <2>3, <3>2
      <4> HIDE DEF After
      <4>2. After(o) \in Flats
        BY <4>1 DEF Flats
      <4>3. QED
        BY <2>3, <4>2
    <3>3. QED
      BY <3>1, <3>2
  <2>4. QED
    BY <2>2, <2>3
<1> HIDE DEF After
<1>3. \A o \in Objects : People!Flat(seen)[o] = After(o)
  BY <1>1
<1>4. People!Flat(seen) \in [Objects -> Flats \union {None}]
  BY <1>1, <1>2
<1>5. ASSUME NEW o \in seen
      PROVE  /\ People!Flat(seen)[o] # None /\ People!Flat(seen)[o].missing = 0
             /\ HitsOf(flat, o) >= PersonHits =>
                   HitsOf(People!Flat(seen), o) >= PersonHits
             /\ \/ HitsOf(People!Flat(seen), o) = HitsOf(flat, o) + 1
                \/ HitsOf(People!Flat(seen), o) >= PersonHits
  <2>1. o \in Objects /\ People!Flat(seen)[o] = After(o)
    BY <1>3
  <2>2. HitsOf(People!Flat(seen), o) = After(o).hits
    BY <1>2, <2>1 DEF HitsOf
  <2>3. QED
    BY <1>2, <2>1, <2>2
<1>6. QED
  BY <1>4, <1>5

LEMMA GateStep ==
  ASSUME NEW gate \in Gates, NEW valid \in BOOLEAN
  PROVE  /\ People!GateAfter(gate, valid) \in Gates
         /\ valid => People!GateAfter(gate, valid).valid
         /\ ~valid /\ gate.valid /\ gate.hold > 0 =>
               /\ People!GateAfter(gate, valid).valid
               /\ People!GateAfter(gate, valid).hold = gate.hold - 1
<1>1. CASE valid
  <2> DEFINE yes == TRUE
  <2>1. yes \in BOOLEAN
    OBVIOUS
  <2>2. People!GateAfter(gate, valid) = [valid |-> yes, hold |-> 0]
    BY <1>1 DEF People!GateAfter
  <2> HIDE DEF yes
  <2>3. People!GateAfter(gate, valid) \in Gates /\ People!GateAfter(gate, valid).valid = yes
    BY <2>1, <2>2 DEF Gates
  <2>4. QED
    BY <1>1, <2>3 DEF yes
<1>2. CASE ~valid /\ gate.valid /\ gate.hold > 0
  <2> DEFINE less == gate.hold - 1
  <2>1. less \in Int
    BY DEF Gates
  <2>2. People!GateAfter(gate, valid) = [gate EXCEPT !.hold = less]
    BY <1>2 DEF People!GateAfter
  <2> HIDE DEF less
  <2>3. /\ People!GateAfter(gate, valid) \in Gates
        /\ People!GateAfter(gate, valid).valid = gate.valid
        /\ People!GateAfter(gate, valid).hold = less
    BY <2>1, <2>2 DEF Gates
  <2>4. QED
    BY <1>2, <2>3 DEF less
<1>3. CASE ~valid /\ ~(gate.valid /\ gate.hold > 0)
  <2>1. People!GateAfter(gate, valid) = People!Shut
    BY <1>3 DEF People!GateAfter
  <2>2. QED
    BY <1>3, <2>1, ShutIsGate
<1>4. QED
  BY <1>1, <1>2, <1>3

LEMMA UpdateKeepsPeopleInv ==
  ASSUME PeopleInv, PeopleConstants,
         NEW detected \in SUBSET Objects, NEW onArm \in SUBSET Objects,
         NEW deep \in SUBSET Objects, NEW green \in BOOLEAN, NEW measured \in BOOLEAN,
         People!Update(detected, onArm, deep, green, measured)
  PROVE  PeopleInv'
<1> DEFINE mask == People!MaskAfter(green)
           state == [mask |-> mask, center |-> People!CenterAfter(mask, measured)]
           seen == People!Accepted(detected, onArm, mask)
           tracks == People!Flat(seen)
           observed == People!Extracted(People!Confirmed(tracks), deep)
           solids == People!Solid(observed)
           related == People!Retained(solids)
           toCloud == People!GateAfter(gates.cloud, observed # {})
           toRelation == People!GateAfter(gates.relation, related # {})
<1>1. /\ flat' = tracks /\ solid' = solids
      /\ People!PublishCloud(observed) /\ People!PublishRelation(related, state)
      /\ gates' = [cloud |-> toCloud, relation |-> toRelation]
      /\ inView' = (seen = Objects /\ deep = Objects /\ (inView \/ observed # {}))
  BY Zenon DEF People!Update
<1>2. seen \in SUBSET Objects
  BY DEF People!Accepted
<1> HIDE DEF seen, mask, state
<1>3. flat' \in [Objects -> Flats \union {None}]
  BY <1>1, <1>2, FlatStep DEF PeopleInv
<1>4. gates'.cloud = toCloud /\ gates'.relation = toRelation
  BY <1>1
<1>5. (observed # {}) \in BOOLEAN /\ (related # {}) \in BOOLEAN
  OBVIOUS
<1>6. toCloud \in Gates /\ toRelation \in Gates
  BY <1>5, GateStep DEF PeopleInv
<1>7. \A o \in observed : solids[o] = 0 /\ o \in related
  <2>1. SUFFICES ASSUME NEW o \in observed PROVE solids[o] = 0 /\ o \in related
    OBVIOUS
  <2>2. o \in Objects
    BY <1>2, <2>1 DEF People!Extracted, People!Confirmed
  <2>3. solids[o] = 0
    BY <2>1, <2>2 DEF People!Solid
  <2>4. QED
    BY <2>2, <2>3 DEF People!Retained, PeopleConstants
<1>8. ASSUME inView'
      PROVE  /\ obstacleCloud' = "points" /\ shownRelation'.obstacles # {}
             /\ toCloud.valid /\ toRelation.valid
             /\ \/ \E o \in Objects : HitsOf(tracks, o) >= PersonHits
                \/ Bridged(tracks, solids, toCloud, toRelation)
  <2>1. seen = Objects /\ deep = Objects /\ (inView \/ observed # {})
    BY <1>1, <1>8
  <2>2. \A o \in Objects : o \in observed <=> HitsOf(tracks, o) >= PersonHits
    <3>1. \A o \in Objects : tracks[o] # None /\ tracks[o].missing = 0
      BY <1>2, <2>1, FlatStep DEF PeopleInv
    <3> HIDE DEF tracks
    <3>2. QED
      BY <2>1, <3>1 DEF People!Extracted, People!Confirmed, HitsOf
  <2>3. CASE observed # {}
    <3>1. related # {}
      BY <1>7, <2>3
    <3>2. obstacleCloud' = "points"
      BY <1>1, <2>3 DEF People!PublishCloud, People!Publishes
    <3>3. shownRelation'.obstacles = related
      <4> HIDE DEF related
      <4>1. shownRelation' = [arm |-> People!ArmShown(state), obstacles |-> related]
        BY <1>1, <3>1 DEF People!PublishRelation, People!Publishes
      <4>2. QED
        BY <4>1
    <3>4. toCloud.valid /\ toRelation.valid
      BY <1>5, <2>3, <3>1, GateStep DEF PeopleInv
    <3>5. \E o \in Objects : HitsOf(tracks, o) >= PersonHits
      <4>1. observed \subseteq Objects
        BY DEF People!Extracted, People!Confirmed
      <4>2. QED
        BY <2>2, <2>3, <4>1
    <3>6. QED
      BY <3>1, <3>2, <3>3, <3>4, <3>5
  <2>4. CASE observed = {}
    <3>1. inView
      BY <2>1, <2>4
    <3>2. \A o \in Objects : ~(HitsOf(flat, o) >= PersonHits)
                               /\ HitsOf(tracks, o) = HitsOf(flat, o) + 1
                               /\ ~(HitsOf(tracks, o) >= PersonHits)
      BY <1>2, <2>1, <2>2, <2>4, FlatStep DEF PeopleInv
    <3>3. Bridged(flat, solid, gates.cloud, gates.relation)
      BY <3>1, <3>2 DEF PeopleInv
    <3>4. \A o \in Objects : solids[o] = None
      BY <2>4, <3>3 DEF People!Solid, Bridged
    <3>5. related = {}
      BY <3>4 DEF People!Retained
    <3>6. PICK o \in Objects : /\ Covered(flat, gates.cloud, o)
                               /\ Covered(flat, gates.relation, o)
      BY <3>3 DEF Bridged
    <3>7. HitsOf(flat, o) \in Int /\ gates.cloud.hold \in Int /\ gates.relation.hold \in Int
      BY DEF PeopleInv, HitsOf, Flats, Gates
    <3>8. gates.cloud.hold > 0 /\ gates.relation.hold > 0
      BY <3>2, <3>6, <3>7 DEF Covered, PeopleConstants
    <3>9. gates.cloud.valid /\ gates.relation.valid
      BY <3>6 DEF Covered
    <3>10. obstacleCloud' = obstacleCloud
      BY <1>1, <2>4, <3>8, <3>9 DEF People!PublishCloud, People!Publishes
    <3>11. shownRelation' = shownRelation
      <4> HIDE DEF related
      <4>1. QED
        BY <1>1, <3>5, <3>8, <3>9 DEF People!PublishRelation, People!Publishes
    <3>12. /\ toCloud.valid /\ toCloud.hold = gates.cloud.hold - 1
           /\ toRelation.valid /\ toRelation.hold = gates.relation.hold - 1
      BY <1>5, <2>4, <3>5, <3>8, <3>9, GateStep DEF PeopleInv
    <3> HIDE DEF tracks, solids, toCloud, toRelation, observed, related
    <3>13. Covered(tracks, toCloud, o) /\ Covered(tracks, toRelation, o)
      BY <3>2, <3>6, <3>7, <3>12 DEF Covered, PeopleConstants
    <3>14. Bridged(tracks, solids, toCloud, toRelation)
      BY <3>4, <3>13 DEF Bridged
    <3>15. QED
      BY <3>1, <3>10, <3>11, <3>12, <3>14 DEF PeopleInv
  <2>5. QED
    BY <2>3, <2>4
<1> HIDE DEF tracks, solids, toCloud, toRelation, observed, related
<1>9. QED
  <2>1. gates' \in [cloud : Gates, relation : Gates]
    BY <1>1, <1>6
  <2>2. QED
    BY <1>1, <1>3, <1>4, <1>8, <2>1 DEF PeopleInv, Bridged, Covered, HitsOf

LEMMA RearmedIs ==
  ASSUME PeopleConstants, NEW gate \in Gates
  PROVE  /\ People!Rearmed(gate) \in Gates /\ People!Rearmed(gate).valid = gate.valid
         /\ gate.valid => People!Rearmed(gate).hold = PersonHits
<1> DEFINE hold == IF gate.valid THEN PersonHits ELSE 0
<1>1. hold \in Int /\ (gate.valid => hold = PersonHits)
  BY DEF PeopleConstants
<1>2. People!Rearmed(gate) = [gate EXCEPT !.hold = hold]
  BY Zenon DEF People!Rearmed
<1> HIDE DEF hold
<1>3. People!Rearmed(gate) \in Gates
  BY <1>1, <1>2 DEF Gates
<1>4. People!Rearmed(gate).valid = gate.valid /\ People!Rearmed(gate).hold = hold
  BY <1>2 DEF Gates
<1>5. QED
  BY <1>1, <1>3, <1>4

LEMMA SwitchKeepsPeopleInv ==
  ASSUME PeopleInv, PeopleConstants, People!ModelSwitch PROVE PeopleInv'
<1> DEFINE toCloud == People!Rearmed(gates.cloud)
           toRelation == People!Rearmed(gates.relation)
<1>1. /\ flat' = People!Lost /\ solid' = People!Lost
      /\ gates' = [cloud |-> toCloud, relation |-> toRelation]
      /\ UNCHANGED <<obstacleCloud, shownRelation, inView>>
  BY DEF People!ModelSwitch, People!Forget
<1>2. /\ toCloud \in Gates /\ toRelation \in Gates
      /\ gates.cloud.valid => toCloud.valid /\ toCloud.hold = PersonHits
      /\ gates.relation.valid => toRelation.valid /\ toRelation.hold = PersonHits
  BY RearmedIs DEF PeopleInv
<1> HIDE DEF toCloud, toRelation
<1>3. gates'.cloud = toCloud /\ gates'.relation = toRelation
  BY <1>1
<1>4. \A o \in Objects : HitsOf(flat', o) = 0 /\ solid'[o] = None
  BY <1>1 DEF People!Lost, HitsOf
<1>5. ASSUME inView PROVE Bridged(flat', solid', toCloud, toRelation)
  <2>1. PICK o \in Objects : TRUE
    BY <1>5 DEF PeopleInv, Bridged
  <2>2. Covered(flat', toCloud, o) /\ Covered(flat', toRelation, o)
    BY <1>2, <1>4, <1>5 DEF PeopleInv, PeopleConstants, Covered
  <2>3. QED
    BY <1>4, <2>2 DEF Bridged
<1>6. QED
  <2>1. gates' \in [cloud : Gates, relation : Gates]
    BY <1>1, <1>2
  <2>2. QED
    BY <1>1, <1>2, <1>3, <1>5, <2>1, LostIsFlat DEF PeopleInv, Bridged, Covered, HitsOf

LEMMA PeopleInvKept ==
  ASSUME PeopleInv, PeopleConstants, [People!Next]_(People!vars) PROVE PeopleInv'
<1>1. CASE UNCHANGED People!vars
  BY <1>1 DEF People!vars, PeopleInv, Bridged, Covered, HitsOf
<1>2. ASSUME NEW detected \in SUBSET Objects, NEW onArm \in SUBSET Objects,
             NEW deep \in SUBSET Objects, NEW green \in BOOLEAN, NEW measured \in BOOLEAN,
             People!Update(detected, onArm, deep, green, measured)
      PROVE  PeopleInv'
  BY <1>2, UpdateKeepsPeopleInv
<1>3. CASE People!NoModel \/ People!UpdateRaises
  <2>1. flat' = flat /\ gates' = gates
    BY <1>3 DEF People!NoModel, People!UpdateRaises
  <2>2. ~inView'
    BY <1>3 DEF People!NoModel, People!UpdateRaises
  <2>3. QED
    BY <2>1, <2>2 DEF PeopleInv
<1>4. CASE People!ModelSwitch
  BY <1>4, SwitchKeepsPeopleInv
<1>5. CASE People!ModeChange \/ People!Reset
  <2>1. flat' = People!Lost
    BY <1>5 DEF People!ModeChange, People!Reset, People!Forget
  <2>2. gates' = [gates EXCEPT !.cloud = People!Shut]
          \/ gates' = [cloud |-> People!Shut, relation |-> People!Shut]
    BY <1>5 DEF People!ModeChange, People!Reset
  <2>3. gates' \in [cloud : Gates, relation : Gates]
    BY <2>2, ShutIsGate DEF PeopleInv
  <2>4. ~inView'
    BY <1>5 DEF People!ModeChange, People!Reset
  <2>5. QED
    BY <2>1, <2>3, <2>4, LostIsFlat DEF PeopleInv
<1>6. QED
  BY <1>1, <1>2, <1>3, <1>4, <1>5 DEF People!Next

-----------------------------------------------------------------------------
(* HandTracks.  A live track under whose number a hold is kept overlapped  *)
(* a hand mask itself: numbers not given yet have no hold.  The frames     *)
(* judged in vain and what is left of a hold make up at most the two       *)
(* holds together, for every vain frame uses up one of them.               *)

tracks == v2
nextId == v3
accepted == v5
holds == v6
memory == v7
output == v8
verified == v9
unseen == v10
USE DEF tracks, nextId, accepted, holds, memory, output, verified, unseen

\* Neither hold is negative (HandSegmentationConfig, _hand_semantic_hold_frames).
HandConstants == HandHold \in Nat /\ TemporalHold \in Nat

Lasting(counts, vain) ==
    \A i \in DOMAIN counts :
        counts[i] \in Nat /\ vain + counts[i] <= TemporalHold + HandHold

Remembered(misses, vain) ==
    misses = None \/ (misses \in Nat /\ vain <= misses /\ misses <= TemporalHold)

HandsInv ==
    /\ nextId \in Nat \ {0} /\ unseen \in Nat
    /\ DOMAIN tracks \subseteq 1 .. (nextId - 1)
    /\ DOMAIN holds \subseteq 1 .. (nextId - 1)
    /\ DOMAIN holds \cap DOMAIN tracks \subseteq verified
    /\ Remembered(memory, unseen)
    /\ Lasting(holds, unseen)

LEMMA NothingKept == DOMAIN Hands!NoTracks = {}
  BY DEF Hands!NoTracks

LEMMA HandsInvInit == HandConstants /\ Hands!Init => HandsInv
  BY NothingKept DEF Hands!Init, HandsInv, Remembered, Lasting

LEMMA OnlyIs ==
  ASSUME NEW f, NEW S
  PROVE  /\ DOMAIN Hands!Only(f, S) = DOMAIN f \cap S
         /\ \A i \in DOMAIN f \cap S : Hands!Only(f, S)[i] = f[i]
  BY DEF Hands!Only

\* Every number spent from has a count left, and loses one of it.
LEMMA SpendIs ==
  ASSUME NEW held, NEW ids, \A i \in DOMAIN held : held[i] \in Nat
  PROVE  /\ DOMAIN Hands!Spend(held, ids) \subseteq DOMAIN held
         /\ \A i \in DOMAIN Hands!Spend(held, ids) :
               Hands!Spend(held, ids)[i] \in Nat
                 /\ Hands!Spend(held, ids)[i] = IF i \in ids THEN held[i] - 1 ELSE held[i]
<1> DEFINE counts == [i \in DOMAIN held |->
                         IF i \in ids /\ held[i] > 0 THEN held[i] - 1 ELSE held[i]]
           kept == {i \in DOMAIN held : i \in ids => held[i] > 0}
<1>1. Hands!Spend(held, ids) = Hands!Only(counts, kept)
  BY DEF Hands!Spend
<1>2. DOMAIN counts = DOMAIN held
  OBVIOUS
<1>3. \A i \in kept : counts[i] \in Nat
                        /\ counts[i] = IF i \in ids THEN held[i] - 1 ELSE held[i]
  OBVIOUS
<1> HIDE DEF counts
<1>4. DOMAIN Hands!Only(counts, kept) = DOMAIN held \cap kept
  BY <1>2, OnlyIs
<1>5. \A i \in DOMAIN held \cap kept : Hands!Only(counts, kept)[i] = counts[i]
  BY <1>2, OnlyIs
<1>6. QED
  BY <1>1, <1>3, <1>4, <1>5

\* What the detector says, and what it then remembers.
LEMMA LookIs ==
  ASSUME HandConstants, Remembered(memory, unseen), unseen \in Nat,
         NEW look \in Hands!Seen \cup {Hands!NotAsked}
  PROVE  \/ look.kind = "measured" /\ look.memory = 0
         \/ /\ look.kind = "carried" /\ look.memory = memory + 1
            /\ memory \in Nat /\ memory < TemporalHold
         \/ look.kind = "nothing" /\ look.memory = None
         \/ look = Hands!NotAsked /\ look.kind = "unasked" /\ look.memory = memory
<1> DEFINE zero == 0
           further == memory + 1
<1>1. CASE look = [kind |-> "measured", memory |-> zero]
  <2> HIDE DEF zero
  <2>1. look.kind = "measured" /\ look.memory = zero
    BY <1>1
  <2>2. QED
    BY <2>1 DEF zero
<1>2. CASE memory # None /\ memory < TemporalHold
             /\ look = [kind |-> "carried", memory |-> further]
  <2> HIDE DEF further
  <2>1. look.kind = "carried" /\ look.memory = further
    BY <1>2
  <2>2. memory \in Nat
    BY <1>2 DEF Remembered
  <2>3. QED
    BY <1>2, <2>1, <2>2 DEF further
<1>3. CASE look = [kind |-> "nothing", memory |-> None]
  BY <1>3
<1>4. CASE look = Hands!NotAsked
  BY <1>4 DEF Hands!NotAsked
<1>5. \/ look = [kind |-> "measured", memory |-> zero]
      \/ memory # None /\ memory < TemporalHold
           /\ look = [kind |-> "carried", memory |-> further]
      \/ look = [kind |-> "nothing", memory |-> None]
      \/ look = Hands!NotAsked
  BY Zenon DEF Hands!Seen
<1>6. QED
  BY <1>1, <1>2, <1>3, <1>4, <1>5

\* A frame judged makes at most one more vain frame, and one measured none.
LEMMA VainFrames ==
  ASSUME HandConstants, HandsInv, NEW judged \in BOOLEAN,
         NEW look \in Hands!Seen \cup {Hands!NotAsked},
         judged => look # Hands!NotAsked, NEW limit, NEW vain,
         vain = IF look.kind = "measured" THEN 0
                ELSE IF ~judged \/ unseen > limit THEN unseen ELSE unseen + 1
  PROVE  /\ vain \in Nat /\ vain <= unseen + 1
         /\ ~judged => vain <= unseen
         /\ Remembered(look.memory, vain)
         /\ look.kind \in {"measured", "carried"} => vain <= TemporalHold
<1>1. unseen \in Nat /\ Remembered(memory, unseen)
  BY DEF HandsInv
<1>2. vain \in Nat /\ vain <= unseen + 1 /\ (~judged => vain <= unseen)
  BY <1>1
<1>3. CASE look.kind = "measured" /\ look.memory = 0
  BY <1>2, <1>3 DEF Remembered, HandConstants
<1>4. CASE look.kind = "carried" /\ look.memory = memory + 1
             /\ memory \in Nat /\ memory < TemporalHold
  <2>1. unseen <= memory \/ memory = None
    BY <1>1 DEF Remembered
  <2>2. CASE unseen <= memory
    BY <1>1, <1>2, <1>4, <2>2 DEF Remembered, HandConstants
  <2>3. CASE memory = None
    BY <1>1, <1>4, <2>3, NoneAssumption
  <2>4. QED
    BY <2>1, <2>2, <2>3
<1>5. CASE look.kind = "nothing" /\ look.memory = None
  BY <1>2, <1>5 DEF Remembered
<1>6. CASE look = Hands!NotAsked /\ look.kind = "unasked" /\ look.memory = memory
  <2>1. ~judged /\ vain = unseen
    BY <1>6
  <2>2. QED
    BY <1>1, <1>2, <1>6, <2>1 DEF Remembered
<1>7. QED
  BY <1>1, <1>3, <1>4, <1>5, <1>6, LookIs

\* The holds after a frame: those of tracks that overlap a mask now, and what is left.
LEMMA JudgeKeepsHolds ==
  ASSUME HandConstants, HandsInv, NEW candidates, NEW valid \in BOOLEAN,
         NEW failed \in BOOLEAN, NEW hands, NEW vain \in Nat,
         hands # {} => valid /\ vain <= TemporalHold,
         vain <= unseen + 1, ~valid \/ failed => vain <= unseen,
         NEW judged, judged = Hands!Judge(candidates, valid, failed, hands)
  PROVE  /\ Lasting(judged.holds, vain)
         /\ DOMAIN judged.holds \subseteq DOMAIN holds \cup hands
<1>1. unseen \in Nat /\ Lasting(holds, unseen) /\ \A i \in DOMAIN holds : holds[i] \in Nat
  BY DEF HandsInv, Lasting
<1>2. CASE judged.holds = Hands!NoTracks
  BY <1>2, NothingKept DEF Lasting
<1>3. CASE valid /\ ~failed
  <2> DEFINE own == Hands!Only(holds, candidates)
             left == Hands!Spend(own, candidates \ hands)
             all == Hands!Overlapped(holds, candidates, hands)
  <2>1. judged.holds = all
    BY <1>3 DEF Hands!Judge
  <2>2. /\ DOMAIN own = DOMAIN holds \cap candidates
        /\ \A i \in DOMAIN own : own[i] = holds[i]
    BY OnlyIs
  <2>3. all = [i \in DOMAIN left \cup hands |-> IF i \in hands THEN HandHold ELSE left[i]]
    BY DEF Hands!Overlapped
  <2> HIDE DEF own, all
  <2>4. \A i \in DOMAIN own : own[i] \in Nat
    BY <1>1, <2>2
  <2>5. /\ DOMAIN left \subseteq DOMAIN own
        /\ \A i \in DOMAIN left :
              /\ left[i] \in Nat
              /\ left[i] = IF i \in candidates \ hands THEN own[i] - 1 ELSE own[i]
    BY <2>4, SpendIs
  <2> HIDE DEF left
  <2>6. ASSUME NEW i \in DOMAIN all
        PROVE  all[i] \in Nat /\ vain + all[i] <= TemporalHold + HandHold
    <3>1. CASE i \in hands
      <4>1. all[i] = HandHold /\ vain <= TemporalHold
        BY <2>3, <3>1
      <4>2. QED
        BY <4>1 DEF HandConstants
    <3>2. CASE i \notin hands
      <4>1. i \in DOMAIN left /\ all[i] = left[i]
        BY <2>3, <2>6, <3>2
      <4>2. i \in DOMAIN holds /\ all[i] = holds[i] - 1 /\ all[i] \in Nat
        BY <2>2, <2>5, <3>2, <4>1
      <4>3. holds[i] \in Nat /\ unseen + holds[i] <= TemporalHold + HandHold
        BY <1>1, <4>2 DEF Lasting
      <4>4. QED
        BY <1>1, <4>2, <4>3 DEF HandConstants
    <3>3. QED
      BY <3>1, <3>2
  <2>7. DOMAIN all \subseteq DOMAIN holds \cup hands
    BY <2>2, <2>3, <2>5
  <2>8. QED
    BY <2>1, <2>6, <2>7 DEF Lasting
<1>4. CASE ~valid /\ judged.holds = Hands!Spend(holds, candidates)
  <2> DEFINE left == Hands!Spend(holds, candidates)
  <2>1. /\ DOMAIN left \subseteq DOMAIN holds
        /\ \A i \in DOMAIN left :
              /\ left[i] \in Nat
              /\ left[i] = IF i \in candidates THEN holds[i] - 1 ELSE holds[i]
    BY <1>1, SpendIs
  <2> HIDE DEF left
  <2>2. ASSUME NEW i \in DOMAIN left
        PROVE  left[i] \in Nat /\ vain + left[i] <= TemporalHold + HandHold
    <3>1. /\ holds[i] \in Nat /\ unseen + holds[i] <= TemporalHold + HandHold
          /\ left[i] \in Nat /\ left[i] <= holds[i]
      BY <1>1, <2>1 DEF Lasting
    <3>2. QED
      BY <1>1, <1>4, <3>1 DEF HandConstants
  <2>3. QED
    BY <1>4, <2>1, <2>2 DEF Lasting, left
<1>5. judged.holds = Hands!NoTracks \/ (valid /\ ~failed)
        \/ (~valid /\ judged.holds = Hands!Spend(holds, candidates))
  BY DEF Hands!Judge
<1>6. QED
  BY <1>2, <1>3, <1>4, <1>5

\* Numbers given stay below the next one, and new ones come after them.
LEMMA NumbersGrow ==
  ASSUME NEW next \in Nat, NEW later \in Nat, next <= later
  PROVE  /\ \A i \in 1 .. (next - 1) : i \in 1 .. (later - 1)
         /\ \A i \in next .. (later - 1) : i \notin 1 .. (next - 1)
  OBVIOUS

LEMMA HandGateKeeps ==
  ASSUME HandConstants, HandsInv, NEW candidates, candidates \subseteq DOMAIN tracks',
         nextId' \in Nat \ {0}, nextId <= nextId',
         DOMAIN tracks' \subseteq DOMAIN tracks \cup nextId .. (nextId' - 1),
         NEW rgb \in BOOLEAN, NEW early \in Hands!Seen \cup {Hands!NotAsked},
         early # Hands!NotAsked => early \in Hands!Seen,
         Hands!HandGate(candidates, rgb, early)
  PROVE  HandsInv' /\ Hands!OutputIsEarned
<1> DEFINE promptable == Hands!Promptable(candidates)
           Looks == IF early = Hands!NotAsked
                      THEN Hands!Seen \cup {Hands!NotAsked} ELSE {early}
           Among(prompted, look) ==
               Hands!HandsAmong(IF prompted THEN promptable ELSE {}, look)
           Published(valid, judged) ==
               /\ holds' = judged.holds
               /\ output' = IF judged.publish
                              THEN [kind |-> IF valid THEN "verified" ELSE "held",
                                    ids |-> candidates \cap DOMAIN judged.holds]
                              ELSE output
           Vain(valid, failed, look) ==
               IF look.kind = "measured" THEN 0
               ELSE IF ~valid \/ failed \/ unseen > TemporalHold + HandHold THEN unseen
               ELSE unseen + 1
<1>1. PICK valid \in BOOLEAN, failed \in BOOLEAN, prompted \in BOOLEAN :
      \E look \in Looks :
        LET promptables == Hands!Promptable(candidates)
        IN  /\ valid => rgb /\ (candidates \subseteq DOMAIN holds \/ prompted)
            /\ prompted => valid /\ promptables # {}
            /\ failed => valid /\ early = Hands!NotAsked
            /\ early = Hands!NotAsked => (look # Hands!NotAsked <=> valid /\ ~failed)
            /\ memory' = look.memory
            /\ unseen' = IF look.kind = "measured" THEN 0
                         ELSE IF ~valid \/ failed \/ unseen > TemporalHold + HandHold
                                THEN unseen
                         ELSE unseen + 1
            /\ \E hands \in Hands!HandsAmong(IF prompted THEN promptables ELSE {}, look) :
                  LET judged == Hands!Judge(candidates, valid, failed, hands)
                  IN  /\ holds' = judged.holds
                      /\ verified' = (verified \cup hands) \cap DOMAIN tracks'
                      /\ output' = IF judged.publish
                                     THEN [kind |-> IF valid THEN "verified" ELSE "held",
                                           ids |-> candidates \cap DOMAIN judged.holds]
                                     ELSE output
  BY Zenon DEF Hands!HandGate
<1>3. PICK look \in Looks :
        /\ early = Hands!NotAsked => (look # Hands!NotAsked <=> valid /\ ~failed)
        /\ memory' = look.memory
        /\ unseen' = Vain(valid, failed, look)
        /\ \E hands \in Among(prompted, look) :
              /\ Published(valid, Hands!Judge(candidates, valid, failed, hands))
              /\ verified' = (verified \cup hands) \cap DOMAIN tracks'
  BY <1>1, Zenon
<1> HIDE DEF Looks, Published, Vain, Among, promptable
<1>3a. PICK hands \in Among(prompted, look) :
        /\ Published(valid, Hands!Judge(candidates, valid, failed, hands))
        /\ verified' = (verified \cup hands) \cap DOMAIN tracks'
  BY <1>3
<1>4. valid \in BOOLEAN /\ (prompted => valid)
  BY <1>1
<1>5. look \in Hands!Seen \cup {Hands!NotAsked}
  BY <1>3 DEF Looks
<1>6. valid /\ ~failed => look # Hands!NotAsked
  <2>1. CASE early = Hands!NotAsked
    BY <1>3, <2>1
  <2>2. CASE early # Hands!NotAsked
    BY <1>3, <2>2 DEF Looks
  <2>3. QED
    BY <2>1, <2>2
<1>7. /\ hands # {} => valid /\ look.kind \in {"measured", "carried"}
      /\ hands \subseteq promptable
  BY <1>3a, <1>4 DEF Hands!HandsAmong, Among
<1>8. promptable \subseteq candidates
  BY DEF Hands!Promptable, promptable
<1>9. /\ unseen' \in Nat /\ unseen' <= unseen + 1
      /\ ~(valid /\ ~failed) => unseen' <= unseen
      /\ Remembered(memory', unseen')
      /\ look.kind \in {"measured", "carried"} => unseen' <= TemporalHold
  <2> DEFINE judges == valid /\ ~failed
             limit == TemporalHold + HandHold
  <2>1. judges \in BOOLEAN
    BY <1>4
  <2>2. unseen' = IF look.kind = "measured" THEN 0
                  ELSE IF ~judges \/ unseen > limit THEN unseen ELSE unseen + 1
    BY <1>3 DEF Vain
  <2>3. judges => look # Hands!NotAsked
    BY <1>6
  <2> HIDE DEF judges, limit
  <2>4. /\ unseen' \in Nat /\ unseen' <= unseen + 1
        /\ ~judges => unseen' <= unseen
        /\ Remembered(look.memory, unseen')
        /\ look.kind \in {"measured", "carried"} => unseen' <= TemporalHold
    BY <1>5, <2>1, <2>2, <2>3, VainFrames
  <2>5. QED
    BY <1>3, <2>4 DEF judges
<1> DEFINE judged == Hands!Judge(candidates, valid, failed, hands)
<1>10. /\ holds' = judged.holds
       /\ verified' = (verified \cup hands) \cap DOMAIN tracks'
       /\ \/ output' = output
          \/ output' = [kind |-> IF valid THEN "verified" ELSE "held",
                        ids |-> candidates \cap DOMAIN holds']
  BY <1>3a DEF Published
<1> HIDE DEF judged
<1>11. Lasting(holds', unseen') /\ DOMAIN holds' \subseteq DOMAIN holds \cup hands
  <2>1. hands # {} => valid /\ unseen' <= TemporalHold
    BY <1>7, <1>9
  <2>2. ~valid \/ failed => unseen' <= unseen
    BY <1>9
  <2>3. Lasting(judged.holds, unseen') /\ DOMAIN judged.holds \subseteq DOMAIN holds \cup hands
    BY <1>4, <1>9, <2>1, <2>2, JudgeKeepsHolds DEF judged
  <2>4. QED
    BY <1>10, <2>3
<1>12. hands \subseteq DOMAIN tracks'
  BY <1>7, <1>8
<1>13. nextId \in Nat \ {0} /\ DOMAIN tracks \subseteq 1 .. (nextId - 1)
         /\ DOMAIN holds \subseteq 1 .. (nextId - 1)
         /\ DOMAIN holds \cap DOMAIN tracks \subseteq verified
  BY DEF HandsInv
<1>14. DOMAIN tracks' \subseteq 1 .. (nextId' - 1)
  <2>1. SUFFICES ASSUME NEW i \in DOMAIN tracks' PROVE i \in 1 .. (nextId' - 1)
    OBVIOUS
  <2>2. CASE i \in DOMAIN tracks
    <3>1. i \in 1 .. (nextId - 1)
      BY <1>13, <2>2
    <3>2. QED
      BY <1>13, <3>1
  <2>3. CASE i \in nextId .. (nextId' - 1)
    BY <1>13, <2>3
  <2>4. QED
    BY <2>2, <2>3
<1>15. DOMAIN holds' \subseteq 1 .. (nextId' - 1)
  <2>1. \A i \in 1 .. (nextId - 1) : i \in 1 .. (nextId' - 1)
    BY <1>13, NumbersGrow
  <2>2. QED
    BY <1>11, <1>12, <1>13, <1>14, <2>1
<1>16. DOMAIN holds' \cap DOMAIN tracks' \subseteq verified'
  <2>1. SUFFICES ASSUME NEW i \in DOMAIN holds' \cap DOMAIN tracks' PROVE i \in verified'
    OBVIOUS
  <2>2. CASE i \in hands
    BY <1>10, <2>1, <2>2
  <2>3. CASE i \notin hands
    <3>1. i \in DOMAIN holds /\ i \in 1 .. (nextId - 1)
      BY <1>11, <1>13, <2>1, <2>3
    <3>2. i \notin nextId .. (nextId' - 1)
      BY <1>13, <3>1
    <3>3. i \in DOMAIN tracks
      BY <2>1, <3>2
    <3>4. QED
      BY <1>10, <1>13, <2>1, <3>1, <3>3
  <2>4. QED
    BY <2>2, <2>3
<1>17. HandsInv'
  BY <1>9, <1>11, <1>14, <1>15, <1>16 DEF HandsInv, Lasting, Remembered
<1>18. Hands!OutputIsEarned
  <2>1. SUFFICES ASSUME output' # output
                 PROVE  /\ output'.ids \subseteq verified'
                        /\ output'.ids # {} => unseen' <= TemporalHold + HandHold
    BY DEF Hands!OutputIsEarned
  <2>2. output'.ids = candidates \cap DOMAIN holds'
    BY <1>10, <2>1
  <2>3. output'.ids \subseteq DOMAIN holds' \cap DOMAIN tracks'
    BY <2>2
  <2>4. \A i \in DOMAIN holds' : holds'[i] \in Nat
                                  /\ unseen' + holds'[i] <= TemporalHold + HandHold
    BY <1>11 DEF Lasting
  <2>5. output'.ids # {} => unseen' <= TemporalHold + HandHold
    BY <1>9, <2>3, <2>4 DEF HandConstants
  <2>6. QED
    BY <1>16, <2>3, <2>5
<1>19. QED
  BY <1>17, <1>18

\* The tracker keeps some of the old numbers and gives some of the next ones.
LEMMA TrackKeeps ==
  ASSUME HandsInv, NEW hit, NEW born \in 0 .. 1, NEW late, Hands!Track(hit, born, late)
  PROVE  /\ nextId' \in Nat \ {0} /\ nextId <= nextId'
         /\ DOMAIN tracks' \subseteq DOMAIN tracks \cup nextId .. (nextId' - 1)
<1> DEFINE all == DOMAIN tracks \cup nextId .. (nextId + born - 1)
<1>1. PICK near : /\ tracks' = Hands!Updated(tracks, nextId, hit, born, near, late)
                  /\ nextId' = nextId + born
  BY DEF Hands!Track
<1> DEFINE moved == [i \in all |->
                       IF i \notin DOMAIN tracks THEN Hands!Measured(Hands!Fresh, i \in near)
                       ELSE IF i \in hit THEN Hands!Measured(tracks[i], i \in near)
                       ELSE IF late THEN [Hands!Missed(tracks[i]) EXCEPT !.state = "DELETED"]
                       ELSE Hands!Missed(tracks[i])]
           alive == {i \in DOMAIN moved : moved[i].state # "DELETED"}
<1>2. tracks' = Hands!Only(moved, alive)
  BY <1>1, Zenon DEF Hands!Updated
<1>3. DOMAIN moved = all
  BY Zenon
<1> HIDE DEF moved
<1>4. DOMAIN tracks' = DOMAIN moved \cap alive
  BY <1>2, OnlyIs
<1>5. nextId \in Nat \ {0}
  BY DEF HandsInv
<1>6. QED
  BY <1>1, <1>3, <1>4, <1>5

LEMMA MotionGateKeeps ==
  ASSUME Hands!MotionGate
  PROVE  accepted' \subseteq DOMAIN tracks'
<1>1. PICK moving : accepted' = Hands!GateAccepts(tracks', Hands!GateHits(tracks', moving))
  BY DEF Hands!MotionGate
<1>2. DOMAIN Hands!GateHits(tracks', moving) \subseteq DOMAIN tracks'
  BY DEF Hands!GateHits
<1>3. QED
  BY <1>1, <1>2 DEF Hands!GateAccepts

LEMMA HandsInvKept ==
  ASSUME HandConstants, HandsInv, [Hands!Next]_(Hands!handVars)
  PROVE  HandsInv' /\ Hands!OutputIsEarned
<1>1. CASE Hands!ForgetBodies /\ UNCHANGED <<memory, output, unseen>>
  <2>1. /\ tracks' = Hands!NoTracks /\ holds' = Hands!NoTracks /\ nextId' = 1
        /\ memory' = memory /\ output' = output /\ unseen' = unseen
    BY <1>1 DEF Hands!ForgetBodies
  <2>2. DOMAIN tracks' = {} /\ DOMAIN holds' = {}
    BY <2>1, NothingKept
  <2>3. unseen \in Nat /\ Remembered(memory, unseen)
    BY DEF HandsInv
  <2>4. HandsInv'
    BY <2>1, <2>2, <2>3 DEF HandsInv, Lasting, Remembered
  <2>5. QED
    BY <2>1, <2>4 DEF Hands!OutputIsEarned
<1>2. CASE UNCHANGED <<tracks, nextId, holds, memory, output, verified, unseen>>
  BY <1>2 DEF HandsInv, Lasting, Remembered, Hands!OutputIsEarned
<1>3. CASE Hands!SeededFrame
  <2> DEFINE candidates == {i \in DOMAIN tracks' :
                              tracks'[i].state \in {"CONFIRMED", "OCCLUDED"}}
  <2>1. PICK look \in Hands!Seen, late \in BOOLEAN,
             hit \in SUBSET DOMAIN tracks, born \in 0 .. 1 :
           Hands!Track(hit, born, late) /\ Hands!HandGate(candidates, TRUE, look)
    BY <1>3 DEF Hands!SeededFrame, Hands!Live
  <2>2. candidates \subseteq DOMAIN tracks'
    OBVIOUS
  <2> HIDE DEF candidates
  <2>3. /\ nextId' \in Nat \ {0} /\ nextId <= nextId'
        /\ DOMAIN tracks' \subseteq DOMAIN tracks \cup nextId .. (nextId' - 1)
    BY <2>1, TrackKeeps
  <2>4. QED
    BY <2>1, <2>2, <2>3, HandGateKeeps
<1>4. CASE Hands!PlainFrame
  <2> DEFINE early == Hands!NotAsked
             candidates == accepted'
  <2>1. PICK rgb \in BOOLEAN, late \in BOOLEAN,
             hit \in SUBSET DOMAIN tracks, born \in 0 .. 1 :
           Hands!Track(hit, born, late) /\ Hands!MotionGate
             /\ Hands!HandGate(candidates, rgb, early)
    BY <1>4 DEF Hands!PlainFrame, Hands!Live
  <2>2. candidates \subseteq DOMAIN tracks'
    BY <2>1, MotionGateKeeps
  <2>3. /\ nextId' \in Nat \ {0} /\ nextId <= nextId'
        /\ DOMAIN tracks' \subseteq DOMAIN tracks \cup nextId .. (nextId' - 1)
    BY <2>1, TrackKeeps
  <2>4. /\ early \in Hands!Seen \cup {Hands!NotAsked}
        /\ early # Hands!NotAsked => early \in Hands!Seen
    OBVIOUS
  <2> HIDE DEF candidates, early
  <2>5. QED
    BY <2>1, <2>2, <2>3, <2>4, HandGateKeeps
<1>5. CASE Hands!Predict
  <2>1. /\ output'.ids \subseteq DOMAIN tracks \cap DOMAIN holds
        /\ UNCHANGED <<tracks, nextId, holds, memory, verified, unseen>>
    BY <1>5 DEF Hands!Predict, Hands!Live
  <2>2. HandsInv'
    BY <2>1 DEF HandsInv, Lasting, Remembered
  <2>3. output'.ids \subseteq verified'
    BY <2>1 DEF HandsInv
  <2>4. output'.ids # {} => unseen' <= TemporalHold + HandHold
    BY <2>1 DEF HandsInv, Lasting, HandConstants
  <2>5. QED
    BY <2>2, <2>3, <2>4 DEF Hands!OutputIsEarned
<1>6. QED
  BY <1>1, <1>2, <1>3, <1>4, <1>5
     DEF Hands!Next, Hands!handVars, Hands!ClockReset, Hands!Calibrate, Hands!BaselineReady

-----------------------------------------------------------------------------
(* Every part.  A behaviour is one of one component, whose section says    *)
(* what holds in it and what its steps never do.                           *)

LEMMA ConstantsFit ==
    /\ NoneIsNoBackend /\ MethodsAreKnown /\ NoneIsNoRecord /\ HoldIsCount /\ SyncConstants
    /\ SafetyConstants /\ PeopleConstants /\ DelaysFit /\ RosConstants /\ HandConstants
    /\ None \notin Int
  BY NoneAssumption, MethodsAssumption, FramesAssumption, CountsAssumption
     DEF NoneIsNoBackend, Backends, MethodsAreKnown, KnownMethods, NoneIsNoRecord,
         SlamRequests, SlamProcesses, SlamMaps, HoldIsCount, SyncConstants,
         SafetyConstants, PeopleConstants, DelaysFit, RosConstants, HandConstants

PerceptionInv ==
    /\ part = "segmentation" => SegInv
    /\ part = "methods" => MethodInv
    /\ part = "slam" => SlamInv
    /\ part = "mux" => MuxInv
    /\ part = "safety" => DecisionInv
    /\ part = "people" => PeopleInv
    /\ part = "arm" => ArmInv
    /\ part = "video" => VideoInv
    /\ part = "ros" => RosInv
    /\ part = "hands" => HandsInv
    /\ part = "background" => DriftInv
    /\ part = "sync" => SyncInv

LEMMA PerceptionInvInit == Init => PerceptionInv
  BY ConstantsFit, SegInvInit, MethodInvInit, SlamInvInit, MuxInvInit,
     DecisionInvInit, PeopleInvInit, ArmInvInit, VideoInvInit, RosInvInit,
     HandsInvInit, DriftInvInit, SyncInvInit
  DEF Init, PerceptionInv

\* One step of the component that runs, with what it may never do.
Allowed ==
    /\ part = "mux" => Mux!NoEcho
    /\ part = "safety" => Safety!MotionIsSteady /\ Safety!StopGivesWayLate
    /\ part = "arm" => Arm!PlaceIsLatched
    /\ part = "video" => Video!BackOffIsKept
    /\ part = "ros" => Ros!AgeIsHonest
    /\ part = "hands" => Hands!OutputIsEarned

LEMMA PerceptionInvKept ==
  ASSUME PerceptionInv, [Next]_vars PROVE PerceptionInv' /\ Allowed
<1>1. part' = part
  BY DEF Next, vars
<1>2. ASSUME part = "segmentation" PROVE SegInv'
  <2>1. [Segmentation!Next]_(Segmentation!vars)
    BY <1>2 DEF Next, vars, slots, Segmentation!vars, Segmentation!switchVars
  <2>2. QED
    BY <1>2, <2>1, SegInvKept, ConstantsFit DEF PerceptionInv
<1>3. ASSUME part = "methods" PROVE MethodInv'
  <2>1. [Methods!Next]_(Methods!vars)
    BY <1>3 DEF Next, vars, slots, Methods!vars, Methods!switchVars
  <2>2. QED
    BY <1>3, <2>1, MethodInvKept, ConstantsFit DEF PerceptionInv
<1>4. ASSUME part = "slam" PROVE SlamInv'
  <2>1. [Slam!Next]_(Slam!vars)
    BY <1>4 DEF Next, vars, slots, Slam!vars
  <2>2. QED
    BY <1>4, <2>1, SlamInvKept, ConstantsFit DEF PerceptionInv
<1>5. ASSUME part = "mux" PROVE MuxInv' /\ Mux!NoEcho
  <2>1. [Mux!Next]_(Mux!vars)
    BY <1>5 DEF Next, vars, slots, Mux!vars
  <2>2. QED
    BY <1>5, <2>1, MuxInvKept, ConstantsFit DEF PerceptionInv
<1>6. ASSUME part = "safety"
      PROVE  DecisionInv' /\ Safety!MotionIsSteady /\ Safety!StopGivesWayLate
  <2>1. [Safety!Next]_(Safety!vars)
    BY <1>6 DEF Next, vars, slots, Safety!vars
  <2>2. QED
    BY <1>6, <2>1, DecisionInvKept, ConstantsFit DEF PerceptionInv
<1>7. ASSUME part = "people" PROVE PeopleInv'
  <2>1. [People!Next]_(People!vars)
    BY <1>7 DEF Next, vars, slots, People!vars
  <2>2. QED
    BY <1>7, <2>1, PeopleInvKept, ConstantsFit DEF PerceptionInv
<1>8. ASSUME part = "arm" PROVE ArmInv' /\ Arm!PlaceIsLatched
  <2>1. [Arm!Next]_(Arm!vars)
    BY <1>8 DEF Next, vars, slots, Arm!vars
  <2>2. QED
    BY <1>8, <2>1, ArmInvKept, ConstantsFit DEF PerceptionInv
<1>9. ASSUME part = "video" PROVE VideoInv' /\ Video!BackOffIsKept
  <2>1. [Video!Next]_(v1)
    BY <1>9 DEF Next, vars, slots
  <2>2. QED
    BY <1>9, <2>1, VideoInvKept, ConstantsFit DEF PerceptionInv
<1>10. ASSUME part = "ros" PROVE RosInv' /\ Ros!AgeIsHonest
  <2>1. [Ros!RosNext]_(Ros!rosVars)
    BY <1>10 DEF Next, vars, slots, Ros!rosVars
  <2>2. QED
    BY <1>10, <2>1, RosInvKept, ConstantsFit DEF PerceptionInv
<1>11. ASSUME part = "hands" PROVE HandsInv' /\ Hands!OutputIsEarned
  <2>1. [Hands!Next]_(Hands!handVars)
    BY <1>11 DEF Next, vars, slots, Hands!handVars
  <2>2. QED
    BY <1>11, <2>1, HandsInvKept, ConstantsFit DEF PerceptionInv
<1>12. ASSUME part = "background" PROVE DriftInv'
  <2>1. [Background!Next]_(Background!filterVars)
    BY <1>12 DEF Next, vars, slots, Background!filterVars
  <2>2. QED
    BY <1>12, <2>1, DriftInvKept, ConstantsFit DEF PerceptionInv
<1>13. ASSUME part = "sync" PROVE SyncInv'
  <2>1. [Sync!Next]_(Sync!syncVars)
    BY <1>13 DEF Next, vars, slots, Sync!syncVars
  <2>2. QED
    BY <1>13, <2>1, SyncInvKept, ConstantsFit DEF PerceptionInv
<1>14. PerceptionInv'
  BY <1>1, <1>2, <1>3, <1>4, <1>5, <1>6, <1>7, <1>8, <1>9, <1>10, <1>11, <1>12, <1>13
  DEF PerceptionInv
<1>15. Allowed
  BY <1>5, <1>6, <1>8, <1>9, <1>10, <1>11 DEF Allowed
<1>16. QED
  BY <1>14, <1>15

LEMMA PerceptionInvHolds == PerceptionSpec => []PerceptionInv /\ [][Allowed]_vars
<1>1. PerceptionInv /\ [Next]_vars => PerceptionInv' /\ Allowed
  BY PerceptionInvKept
<1>2. PerceptionSpec => []PerceptionInv
  BY <1>1, PerceptionInvInit, PTL DEF PerceptionSpec, vars
<1>3. QED
  BY <1>1, <1>2, PTL DEF PerceptionSpec, vars

\* Whatever is requested, refused, loaded, reset or lost, in whatever order: no
\* segmentation backend is leaked or closed while it is in use
\* (_apply_pending_segmentation_switch and its finally clause); the reconstruction
\* infers only with backends that hold their models and never with an anchor that was
\* set before a reset which the worker has noticed, and once the queue has been emptied
\* its models are given two frames of former inputs at most (_reconstruction_worker);
\* no caller reads MASt3R-SLAM's answer to another request, although they bear no
\* number on the wire (mast3r_slam_adapter.py).
THEOREM BackendsStaySound == PerceptionSpec => []BackendsAreSound
<1>1. PerceptionInv => BackendsAreSound
  BY OpenIsNoLeak, MethodInvSays, SlamInvSays DEF PerceptionInv, BackendsAreSound
<1>2. QED
  BY <1>1, PerceptionInvHolds, PTL

\* However good and bad frames alternate, at most alignment_hold_frames frames are
\* subtracted with an earlier frame's factor before a window settles again
\* (StaticBackgroundFilter), and however late, alone or repeated the bundles come, the
\* worker takes none for a restart of the clock before there was one
\* (_process_next_work_item).
THEOREM TrackerStaysSteady == PerceptionSpec => []TrackerIsSteady
<1>1. PerceptionInv => TrackerIsSteady
  BY DriftInvSays, SyncInvSays DEF PerceptionInv, TrackerIsSteady
<1>2. QED
  BY <1>1, PerceptionInvHolds, PTL
\* However the clouds, relationships and mode changes of the two sources interleave, a
\* relationship of the source that was left never replaces one of the new one
\* (EdgeRelationshipBridge).
THEOREM NothingEchoes == PerceptionSpec => NoEcho
<1>1. Allowed => (part = "mux" => Mux!NoEcho)
  BY DEF Allowed
<1>2. QED
  BY <1>1, PerceptionInvHolds, PTL DEF NoEcho, vars

\* Whatever is observed and missed: STOP gives way to SAFE, CAUTION or WARNING only
\* after the configured number of calm updates in a row (_debounce), and as long as no
\* DEGRADED comes none of these is announced earlier.  A DEGRADED replaces STOP at once
\* and ends the debounce, after which any level may come (the run debounce_skipped).
\* Between two changes of a track's motion state lie at least minimum_dynamic_hits
\* observations (Tracker3D), and objects that stay in view keep the obstacle cloud and
\* their relationships, however often the model is switched (_people_worker).
THEOREM OutputsStaySteady == PerceptionSpec => OutputsAreSteady
<1>1. PerceptionInv => /\ part = "safety" => Safety!StopIsReleasedLate
                       /\ part = "people" => People!SwitchKeepsObstacles
  BY DecisionInvSays, PeopleInvSays DEF PerceptionInv
<1>2. Allowed => (part = "safety" => Safety!MotionIsSteady /\ Safety!StopGivesWayLate)
  BY DEF Allowed
<1>3. QED
  BY <1>1, <1>2, PerceptionInvHolds, PTL DEF OutputsAreSteady, vars

\* Whatever is fitted, drawn, commanded and reset, and however a drawing and a reset
\* interleave: the tag that anchors the arm was measured on the arm's own plane, and once
\* there is an anchor neither moves until a recalibration or a reset drops both
\* (_update_metric_bev, openarm_scene.py).
THEOREM PlaceStaysLatched == PerceptionSpec => PlaceIsLatched
<1>1. PerceptionInv => (part = "arm" => Arm!AnchorIsOfThePlane)
  BY ArmInvSays DEF PerceptionInv
<1>2. Allowed => (part = "arm" => Arm!PlaceIsLatched)
  BY DEF Allowed
<1>3. QED
  BY <1>1, <1>2, PerceptionInvHolds, PTL DEF PlaceIsLatched, vars

\* Whatever fails, seeks, rewinds and reconnects: a file's frame numbers are positions,
\* only a decoded frame or a new opening ends the growth of the reconnection delay
\* (video_source.py), whoever holds a ROS node holds it in the runtime that is live
\* (runtime.py), and the age of a repeated relationship grows by the time between the
\* messages (relationship_publisher.py).
THEOREM EndsStayHonest == PerceptionSpec => EndsAreHonest
<1>1. PerceptionInv => /\ part = "video" => Video!FramesAreCounted
                       /\ part = "ros" => Ros!RuntimeIsShared
  BY VideoInvSays, RosInvSays DEF PerceptionInv
<1>2. Allowed => /\ part = "video" => Video!BackOffIsKept
                 /\ part = "ros" => Ros!AgeIsHonest
  BY DEF Allowed
<1>3. QED
  BY <1>1, <1>2, PerceptionInvHolds, PTL DEF EndsAreHonest, vars

\* Whatever is lost, reset, held or remembered, a track published as a hand overlapped
\* a mask during its own life, and fewer frames were judged in vain since the detector
\* measured a hand than carrying its mask and retaining the track can bridge
\* (_filter_hand_tracks).
THEOREM OutputStaysEarned == PerceptionSpec => OutputIsEarned
<1>1. Allowed => (part = "hands" => Hands!OutputIsEarned)
  BY DEF Allowed
<1>2. QED
  BY <1>1, PerceptionInvHolds, PTL DEF OutputIsEarned, vars
=============================================================================

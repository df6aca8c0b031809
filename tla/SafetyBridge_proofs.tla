------------------------ MODULE SafetyBridge_proofs ------------------------
(***************************************************************************)
(* What the safety bridge guarantees for every choice of its durations.    *)
(***************************************************************************)
EXTENDS SafetyBridge, TLAPS

\* The caps on the ages are natural numbers.
LEMMA CapsAreNat == MaxSilence \in Nat /\ MaxDwell \in Nat
BY DurationAssumption DEF MaxSilence, MaxDwell, Larger

\* A timestamp grows within its cap, and an unset one stays unset.
LEMMA OlderInRange ==
    ASSUME NEW limit \in Nat, NEW age \in NotSet..limit
    PROVE  /\ Older(age, limit) \in NotSet..limit
           /\ age \in 0..limit => Older(age, limit) \in 0..limit
BY DEF Older, NotSet

\* Every change of state is a state, and its stamp is in range.
LEMMA TransitionType ==
    ASSUME PolicyTypeOK, NEW next \in SafetyState, Transition(next)
    PROVE  state' \in SafetyState /\ transition_age' \in 0..MaxDwell
BY CapsAreNat DEF Transition, PolicyTypeOK

\* observe keeps the policy well typed, whatever it is told.
LEMMA ObserveType ==
    ASSUME PolicyTypeOK, NEW band \in Band, Observe(band)
    PROVE  PolicyTypeOK'
<1> USE CapsAreNat, DurationAssumption, TransitionType DEF SafetyState
<1>1. observation_age' \in 0..MaxSilence /\ grace_left' \in 0..EscapeGrace
  BY DEF Observe, PolicyTypeOK
<1>2. /\ state' \in SafetyState /\ transition_age' \in 0..MaxDwell
      /\ estop_latched' \in BOOLEAN
      /\ clear_age' \in NotSet..ClearDuration
      /\ emergency_age' \in NotSet..Confirmation
  <2>1. CASE ObserveUnderGrace
    BY <2>1 DEF ObserveUnderGrace, PolicyTypeOK, NotSet
  <2>2. CASE ObserveEmergency
    <3>1. emergency_age' \in NotSet..Confirmation /\ clear_age' = clear_age
      BY <2>2 DEF ObserveEmergency, Started, PolicyTypeOK, NotSet
    <3>2. \/ estop_latched' = TRUE /\ Transition("EMERGENCY_STOP")
          \/ estop_latched' = estop_latched /\ Transition("PAUSE")
      BY <2>2 DEF ObserveEmergency
    <3>3. QED BY <3>1, <3>2 DEF PolicyTypeOK
  <2>3. CASE ObserveBeyond(band)
    <3>1. estop_latched' \in BOOLEAN /\ emergency_age' \in NotSet..Confirmation
      BY <2>3 DEF ObserveBeyond, PolicyTypeOK, NotSet
    <3>2. CASE ObservePause
      BY <3>1, <3>2 DEF ObservePause, PolicyTypeOK, NotSet
    <3>3. CASE ObserveClear
      <4>1. clear_age' \in NotSet..ClearDuration
        BY <3>3 DEF ObserveClear, Started, PolicyTypeOK, NotSet
      <4>2. \/ Transition("REPLAN") \/ Transition("RECOVER") \/ Transition("SAFE")
            \/ UNCHANGED <<state, transition_age>>
        BY <3>3 DEF ObserveClear
      <4>3. QED BY <3>1, <4>1, <4>2 DEF PolicyTypeOK
    <3>4. CASE ~ObservePause /\ ~ObserveClear
      <4>1. \/ Transition("WARNING") /\ clear_age' = NotSet
            \/ UNCHANGED <<state, transition_age>> /\ clear_age' \in {NotSet, clear_age}
        BY <2>3, <3>4 DEF ObserveBeyond
      <4>2. QED BY <3>1, <4>1 DEF PolicyTypeOK, NotSet
    <3>5. QED BY <3>2, <3>3, <3>4
  <2>4. QED BY <2>1, <2>2, <2>3 DEF Observe
<1>3. QED BY <1>1, <1>2 DEF PolicyTypeOK

-----------------------------------------------------------------------------
(***************************************************************************)
(* Type correctness.  The invariant has a policy part and a node part; each*)
(* lemma below treats the actions that touch one of them.                  *)
(***************************************************************************)
NodeTypeOK ==
    /\ obstacle_source \in Source
    /\ startup_age \in 0..StartupGrace
    /\ received \in BOOLEAN /\ timer_due \in BOOLEAN /\ discovered \in BOOLEAN
    /\ obstacle_present \in BOOLEAN /\ cleanup_pending \in BOOLEAN
    /\ hand \in Band \union {"moving"}
    /\ scene \subseteq HandBody /\ delivered \subseteq HandBody

LEMMA CommandStateInRange == {"EMERGENCY_STOP", "PAUSE", "RECOVER"} \subseteq SafetyState
BY DEF SafetyState

\* What a process does moves the policy as one of its methods, as time or as an
\* operator's assignment, or leaves it alone.
MethodStep ==
    \/ \E band \in Band : Observe(band)
    \/ CheckTimeout
    \/ ResetEstop
    \/ GrantEscapeGrace
    \/ PolicyTick
    \/ \E new \in {"EMERGENCY_STOP", "PAUSE", "RECOVER"} :
            /\ new = "EMERGENCY_STOP" \/ state # "EMERGENCY_STOP"
            /\ state' = new /\ UNCHANGED <<estop_latched, clocks>>
    \/ observation_age' = 0
       /\ UNCHANGED <<state, estop_latched, clear_age, transition_age, emergency_age, grace_left>>
    \/ UNCHANGED policyVars

\* Every step: of the process, or into a new one.
PolicyStep == MethodStep \/ PolicyInit'

LEMMA StepIsMethodStep == ASSUME NodeTypeOK, [Next]_vars, ~Restart PROVE MethodStep
<1>1. CASE Observation
  <2>1. Sensed \subseteq Band
    BY DEF Sensed, NodeTypeOK
  <2>2. (\E band \in Band : Observe(band)) \/ UNCHANGED policyVars
    BY <1>1, <2>1 DEF Observation, DistanceCallback, EmptyCloud, ObstacleCloud, Band
  <2>3. QED BY <2>2 DEF MethodStep
<1>2. CASE GroundTruthCollision
  BY <1>2 DEF GroundTruthCollision, MethodStep
<1>3. CASE \E new \in Source : SetObstacleSource(new)
  BY <1>3 DEF SetObstacleSource, MethodStep
<1>4. CASE Command
  BY <1>4 DEF Command, CommandState, CommandReset, CommandEscapeStarted, MethodStep
<1>5. CASE Timer
  BY <1>5 DEF Timer, MethodStep
<1>6. CASE Tick
  BY <1>6 DEF Tick, MethodStep
<1>7. CASE Discover \/ Settle
  BY <1>7 DEF Discover, Settle, MethodStep
<1>8. CASE UNCHANGED vars
  BY <1>8 DEF vars, MethodStep
<1>9. QED
  BY <1>1, <1>2, <1>3, <1>4, <1>5, <1>6, <1>7, <1>8 DEF Next

LEMMA StepIsPolicyStep == ASSUME NodeTypeOK, [Next]_vars PROVE PolicyStep
<1>1. CASE Restart
  BY <1>1 DEF Restart, PolicyStep, PolicyInit
<1>2. CASE ~Restart
  BY <1>2, StepIsMethodStep DEF PolicyStep
<1>3. QED BY <1>1, <1>2

\* The values a new process starts with are in range.
LEMMA InitialPolicyType ==
    /\ "SAFE" \in SafetyState /\ FALSE \in BOOLEAN
    /\ 0 \in 0..MaxSilence /\ MaxDwell \in 0..MaxDwell /\ 0 \in 0..EscapeGrace
    /\ NotSet \in NotSet..ClearDuration /\ NotSet \in NotSet..Confirmation
BY CapsAreNat, DurationAssumption DEF SafetyState, NotSet

LEMMA PolicyStepType == ASSUME PolicyTypeOK, PolicyStep PROVE PolicyTypeOK'
<1> USE CapsAreNat, DurationAssumption
<1>1. CASE \E band \in Band : Observe(band)
  BY <1>1, ObserveType
<1>2. CASE CheckTimeout
  BY <1>2, TransitionType DEF CheckTimeout, PolicyTypeOK, SafetyState
<1>3. CASE ResetEstop
  <2>1. state' \in SafetyState /\ transition_age' \in 0..MaxDwell
    BY <1>3, TransitionType DEF ResetEstop, SafetyState
  <2>2. clear_age' \in NotSet..ClearDuration /\ emergency_age' \in NotSet..Confirmation
    BY <1>3 DEF ResetEstop, NotSet
  <2>3. /\ estop_latched' = FALSE /\ observation_age' \in 0..MaxSilence
        /\ grace_left' \in 0..EscapeGrace
    BY <1>3 DEF ResetEstop, PolicyTypeOK
  <2>4. QED BY <2>1, <2>2, <2>3 DEF PolicyTypeOK
<1>4. CASE GrantEscapeGrace
  BY <1>4 DEF GrantEscapeGrace, PolicyTypeOK, Larger, NotSet
<1>5. CASE PolicyTick
  <2>1. observation_age' \in 0..MaxSilence /\ transition_age' \in 0..MaxDwell
    BY <1>5, OlderInRange DEF PolicyTick, PolicyTypeOK, NotSet
  <2>2. clear_age' \in NotSet..ClearDuration /\ emergency_age' \in NotSet..Confirmation
    BY <1>5, OlderInRange DEF PolicyTick, PolicyTypeOK
  <2>3. grace_left' \in 0..EscapeGrace
    BY <1>5 DEF PolicyTick, PolicyTypeOK
  <2>4. QED BY <1>5, <2>1, <2>2, <2>3 DEF PolicyTick, PolicyTypeOK
<1>6. CASE \E new \in {"EMERGENCY_STOP", "PAUSE", "RECOVER"} :
             state' = new /\ UNCHANGED <<estop_latched, clocks>>
  BY <1>6, CommandStateInRange DEF PolicyTypeOK, clocks
<1>7. CASE /\ observation_age' = 0
           /\ UNCHANGED <<state, estop_latched, clear_age, transition_age,
                          emergency_age, grace_left>>
  BY <1>7 DEF PolicyTypeOK
<1>8. CASE PolicyInit'
  BY <1>8, InitialPolicyType DEF PolicyInit, PolicyTypeOK, MaxDwell, MaxSilence
<1>9. CASE UNCHANGED policyVars
  BY <1>9 DEF policyVars, clocks, PolicyTypeOK
<1>10. QED
  BY <1>1, <1>2, <1>3, <1>4, <1>5, <1>6, <1>7, <1>8, <1>9 DEF PolicyStep, MethodStep

LEMMA NodeStepType == ASSUME NodeTypeOK, [Next]_vars PROVE NodeTypeOK'
<1> USE StartupAssumption DEF NodeTypeOK
<1>1. ASSUME NEW bodies \in SUBSET HandBody, Remove(bodies)
      PROVE  scene' \subseteq HandBody /\ delivered' \subseteq HandBody
  BY <1>1 DEF Remove
<1>2. ASSUME NEW body \in HandBody, Add(body)
      PROVE  scene' \subseteq HandBody /\ delivered' \subseteq HandBody
  BY <1>2 DEF Add
<1>3. \A s \in Source : BodyOf(s) \in HandBody
  BY DEF Source, BodyOf, HandBody
<1>4. CASE DistanceCallback
  BY <1>4 DEF DistanceCallback, worldVars, sceneVars
<1>5. CASE EmptyCloud
  BY <1>5, <1>1 DEF EmptyCloud, sceneVars, HandBody
<1>6. CASE ObstacleCloud
  BY <1>6, <1>2 DEF ObstacleCloud, HandBody
<1>7. CASE GroundTruthCollision
  BY <1>7, <1>1, <1>2, <1>3 DEF GroundTruthCollision, nodeVars
<1>8. CASE \E new \in Source : SetObstacleSource(new)
  BY <1>8, <1>1 DEF SetObstacleSource, StaleObstacleIds
<1>9. CASE Command
  BY <1>9 DEF Command, CommandState, CommandReset, CommandEscapeStarted,
               nodeVars, worldVars, sceneVars
<1>10. CASE Timer
  BY <1>10 DEF Timer, worldVars, sceneVars
<1>11. CASE Tick
  <2>1. startup_age' \in 0..StartupGrace
    BY <1>11, OlderInRange DEF Tick, NotSet
  <2>2. QED BY <1>11, <2>1 DEF Tick, worldVars, sceneVars
<1>12. CASE Discover \/ Settle
  BY <1>12 DEF Discover, Settle, nodeVars, sceneVars
<1>13. CASE Restart
  <2>1. cleanup_pending' \in BOOLEAN
    BY <1>13, Zenon DEF Restart
  <2>2. /\ obstacle_source' \in Source /\ startup_age' = 0
        /\ received' = FALSE /\ timer_due' = FALSE /\ discovered' = FALSE
        /\ obstacle_present' = FALSE /\ delivered' = {} /\ scene' = scene /\ hand' = hand
    BY <1>13, Zenon DEF Restart
  <2>3. startup_age' \in 0..StartupGrace
    BY <2>2
  <2>4. QED BY <2>1, <2>2, <2>3, Zenon
<1>14. CASE UNCHANGED vars
  BY <1>14 DEF vars, nodeVars, worldVars, sceneVars
<1>15. QED
  BY <1>4, <1>5, <1>6, <1>7, <1>8, <1>9, <1>10, <1>11, <1>12, <1>13, <1>14
     DEF Next, Observation

\* Every variable of the bridge keeps its type: in particular the ages stay
\* within their caps, so the finite model loses no behaviour of the policy.
THEOREM TypeCorrect == Spec => []TypeOK
<1>1. TypeOK <=> PolicyTypeOK /\ NodeTypeOK
  BY DEF TypeOK, NodeTypeOK
<1>2. Init => PolicyTypeOK /\ NodeTypeOK
  <2>1. Init => PolicyTypeOK
    BY InitialPolicyType DEF Init, NodeInit, PolicyInit, PolicyTypeOK
  <2>2. Init => NodeTypeOK
    <3>1. Init => cleanup_pending \in BOOLEAN
      BY Zenon DEF Init, NodeInit
    <3>2. Init => /\ obstacle_source \in Source /\ startup_age = 0
                  /\ received = FALSE /\ timer_due = FALSE /\ discovered = FALSE
                  /\ obstacle_present = FALSE /\ delivered = {}
                  /\ scene \in SUBSET HandBody /\ hand = "moving"
      BY Zenon DEF Init, NodeInit
    <3>3. Init => startup_age \in 0..StartupGrace
      BY <3>2, StartupAssumption
    <3>4. QED BY <3>1, <3>2, <3>3, Zenon DEF NodeTypeOK
  <2>3. QED BY <2>1, <2>2
<1>3. PolicyTypeOK /\ NodeTypeOK /\ [Next]_vars => (PolicyTypeOK /\ NodeTypeOK)'
  BY StepIsPolicyStep, PolicyStepType, NodeStepType
<1>4. QED BY <1>1, <1>2, <1>3, PTL DEF Spec

-----------------------------------------------------------------------------
(***************************************************************************)
(* The latch.  LatchedNeverRuns is inductive by itself.                    *)
(***************************************************************************)
LEMMA LatchStep == ASSUME LatchedNeverRuns, PolicyStep PROVE LatchedNeverRuns'
<1> USE DEF LatchedNeverRuns
<1>1. CASE \E band \in Band : Observe(band)
  <2>1. PICK band \in Band : Observe(band)
    BY <1>1
  <2>2. CASE ObserveUnderGrace
    BY <2>2 DEF ObserveUnderGrace
  <2>3. CASE ObserveEmergency
    BY <2>3 DEF ObserveEmergency, Transition
  <2>4. CASE ObserveBeyond(band)
    BY <2>4 DEF ObserveBeyond
  <2>5. QED BY <2>1, <2>2, <2>3, <2>4 DEF Observe
<1>2. CASE CheckTimeout
  BY <1>2 DEF CheckTimeout, Transition
<1>3. CASE ResetEstop \/ GrantEscapeGrace \/ PolicyTick
  BY <1>3 DEF ResetEstop, GrantEscapeGrace, PolicyTick
<1>4. CASE \E new \in {"EMERGENCY_STOP", "PAUSE", "RECOVER"} :
             state' = new /\ UNCHANGED <<estop_latched, clocks>>
  BY <1>4
<1>5. CASE UNCHANGED <<state, estop_latched>> \/ PolicyInit'
  BY <1>5 DEF PolicyInit
<1>6. QED BY <1>1, <1>2, <1>3, <1>4, <1>5 DEF PolicyStep, MethodStep, policyVars

\* A latched stop is never announced as SAFE, WARNING or REPLAN, whatever the
\* node observes, is granted or is told short of a reset.
THEOREM LatchHolds == Spec => []LatchedNeverRuns
<1>1. Init => LatchedNeverRuns
  BY DEF Init, NodeInit, PolicyInit, LatchedNeverRuns
<1>2. TypeOK /\ LatchedNeverRuns /\ [Next]_vars => LatchedNeverRuns'
  <2>1. TypeOK => NodeTypeOK
    BY DEF TypeOK, NodeTypeOK
  <2>2. QED BY <2>1, LatchStep, StepIsPolicyStep
<1>3. QED BY <1>1, <1>2, TypeCorrect, PTL DEF Spec

-----------------------------------------------------------------------------
(***************************************************************************)
(* The contract.  Every method of the policy is a contract step.           *)
(***************************************************************************)
LEMMA ObserveIsContractStep ==
    ASSUME NEW band \in Band, Observe(band)
    PROVE  Contract!Step \/ UNCHANGED <<state, estop_latched>>
<1> USE DEF Contract!Step, Transition
<1>1. CASE ObserveUnderGrace
  BY <1>1 DEF ObserveUnderGrace, Contract!Hold
<1>2. CASE ObserveEmergency
  BY <1>2 DEF ObserveEmergency, Contract!Hold, Contract!Latch
<1>3. CASE ObserveBeyond(band)
  <2>1. estop_latched' = estop_latched
    BY <1>3 DEF ObserveBeyond
  <2>2. CASE ObservePause /\ ~estop_latched
    <3>1. \/ state' = state
          \/ state' = "PAUSE"
          \/ state = "PAUSE" /\ state' = "REPLAN"
      BY <2>2 DEF ObservePause
    <3>2. QED BY <2>1, <2>2, <3>1 DEF Contract!Hold, Contract!Advance, Contract!Successor
  <2>3. CASE ObserveClear /\ ~estop_latched
    <3>1. \/ state' = state
          \/ state = "PAUSE" /\ state' = "REPLAN"
          \/ state = "REPLAN" /\ state' = "RECOVER"
          \/ state \in {"RECOVER", "WARNING"} /\ state' = "SAFE"
      BY <2>3 DEF ObserveClear
    <3>2. QED BY <2>1, <2>3, <3>1 DEF Contract!Advance, Contract!Successor
  <2>4. CASE \/ state' = state
             \/ ~estop_latched /\ state' = "WARNING"
    BY <2>1, <2>4 DEF Contract!Slow
  <2>5. QED BY <1>3, <2>2, <2>3, <2>4 DEF ObserveBeyond
<1>4. QED BY <1>1, <1>2, <1>3 DEF Observe

LEMMA MethodStepIsContractStep ==
    ASSUME MethodStep PROVE Contract!Step \/ UNCHANGED <<state, estop_latched>>
<1> USE DEF Contract!Step, Transition
<1>1. CASE \E band \in Band : Observe(band)
  BY <1>1, ObserveIsContractStep
<1>2. CASE CheckTimeout
  BY <1>2 DEF CheckTimeout, Contract!Latch
<1>3. CASE ResetEstop
  BY <1>3 DEF ResetEstop, Contract!Reset
<1>4. CASE \E new \in {"EMERGENCY_STOP", "PAUSE", "RECOVER"} :
             /\ new = "EMERGENCY_STOP" \/ state # "EMERGENCY_STOP"
             /\ state' = new /\ UNCHANGED <<estop_latched, clocks>>
  BY <1>4 DEF Contract!Stop, Contract!Hold, Contract!Resume
<1>5. CASE UNCHANGED <<state, estop_latched>>
  BY <1>5
<1>6. CASE GrantEscapeGrace \/ PolicyTick \/ UNCHANGED policyVars
  BY <1>6 DEF GrantEscapeGrace, PolicyTick, policyVars
<1>7. QED BY <1>1, <1>2, <1>3, <1>4, <1>5, <1>6 DEF MethodStep

\* The bridge implements the contract: observations, silences and commands change
\* the announced state only along the contract's steps, and only a new process
\* begins at SAFE, so what the motion side is shown to do under the contract it
\* does with this node.
THEOREM BridgeImplementsContract == Spec => ImplementsContract
<1>1. Init => Contract!Init
  BY DEF Init, NodeInit, PolicyInit, Contract!Init
<1>2. TypeOK /\ [Next]_vars => Restart \/ Contract!Step \/ UNCHANGED Contract!contractVars
  <2>1. TypeOK => NodeTypeOK
    BY DEF TypeOK, NodeTypeOK
  <2>2. QED BY <2>1, StepIsMethodStep, MethodStepIsContractStep DEF Contract!contractVars
<1>3. Restart => Contract!Restart
  BY DEF Restart, Contract!Restart
<1>4. TypeOK /\ [Next]_vars => [Contract!Next]_(Contract!contractVars)
  BY <1>2, <1>3 DEF Contract!Next
<1>5. QED
  BY <1>1, <1>2, <1>4, TypeCorrect, PTL DEF Spec, ImplementsContract, Contract!Spec

-----------------------------------------------------------------------------
(***************************************************************************)
(* The watchdog.  SilenceStops is inductive given the types.               *)
(***************************************************************************)
\* An observation ends the silence, so nothing is claimed in its state.
LEMMA ObservationEndsSilence ==
    ASSUME Observation
    PROVE  \/ observation_age' = 0
           \/ UNCHANGED <<policyVars, received, startup_age, timer_due>>
<1>1. CASE DistanceCallback
  BY <1>1 DEF DistanceCallback, Observe
<1>2. CASE EmptyCloud
  BY <1>2 DEF EmptyCloud, Observe
<1>3. CASE ObstacleCloud
  BY <1>3 DEF ObstacleCloud, Observe
<1>4. QED BY <1>1, <1>2, <1>3 DEF Observation

\* A source that has been silent for the timeout has latched the stop by the end
\* of the timer period, for every timeout and every startup grace.
THEOREM WatchdogStops == Spec => []SilenceStops
<1> USE DurationAssumption DEF SilenceStops, Silent
<1>1. Init => SilenceStops
  BY DEF Init, NodeInit, PolicyInit
<1>2. TypeOK /\ SilenceStops /\ [Next]_vars => SilenceStops'
  <2> SUFFICES ASSUME TypeOK, SilenceStops, [Next]_vars, Silent', ~timer_due'
               PROVE  \/ estop_latched' /\ state' = "EMERGENCY_STOP"
                      \/ transition_age' = 0
    OBVIOUS
  <2>1. CASE Observation
    <3>1. CASE observation_age' = 0
      BY <3>1
    <3>2. CASE UNCHANGED <<policyVars, received, startup_age, timer_due>>
      BY <3>2 DEF policyVars, clocks
    <3>3. QED BY <2>1, <3>1, <3>2, ObservationEndsSilence
  <2>2. CASE GroundTruthCollision \/ Discover \/ Settle \/ UNCHANGED vars
    BY <2>2 DEF GroundTruthCollision, Discover, Settle, vars, policyVars, clocks, nodeVars
  <2>3. CASE \E new \in Source : SetObstacleSource(new)
    BY <2>3 DEF SetObstacleSource
  <2>4. CASE Command
    <3>1. /\ observation_age' = observation_age /\ received' = received
          /\ startup_age' = startup_age /\ timer_due' = timer_due
      BY <2>4 DEF Command, CommandState, CommandReset, CommandEscapeStarted, ResetEstop,
                  GrantEscapeGrace, clocks, nodeVars
    <3>2. CASE \E new \in {"EMERGENCY_STOP", "PAUSE", "RECOVER"} : CommandState(new)
      BY <3>1, <3>2 DEF CommandState, clocks
    <3>3. CASE CommandReset
      BY <3>1, <3>3 DEF CommandReset, ResetEstop, Transition
    <3>4. CASE CommandEscapeStarted
      BY <3>1, <3>4 DEF CommandEscapeStarted, GrantEscapeGrace
    <3>5. QED BY <2>4, <3>2, <3>3, <3>4 DEF Command
  <2>5. CASE Timer
    <3>1. /\ received' = received /\ startup_age' = startup_age
          /\ observation_age' = observation_age
      BY <2>5 DEF Timer, CheckTimeout, policyVars, clocks
    <3>2. observation_age > Timeout /\ (received \/ startup_age >= StartupGrace)
      BY <3>1
    <3>3. TypeOK => startup_age \in Nat /\ StartupGrace \in Nat
      BY StartupAssumption DEF TypeOK
    <3>4. ~(~received /\ startup_age < StartupGrace)
      BY <3>2, <3>3
    <3>5. CheckTimeout
      BY <2>5, <3>4, Zenon DEF Timer
    <3>6. QED BY <3>2, <3>5, Zenon DEF CheckTimeout, Transition
  <2>6. CASE Tick
    BY <2>6 DEF Tick
  <2>7. CASE Restart
    BY <2>7 DEF Restart
  <2>8. QED BY <2>1, <2>2, <2>3, <2>4, <2>5, <2>6, <2>7 DEF Next
<1>3. QED BY <1>1, <1>2, TypeCorrect, PTL DEF Spec

-----------------------------------------------------------------------------
(***************************************************************************)
(* The planning scene.  A publication either arrives, and scene and        *)
(* delivered agree about it, or is lost, and delivered forgets the body.   *)
(***************************************************************************)
\* What a publication does to one body: a REMOVE or an ADD that counts as
\* delivered is visible in the scene, one that is lost no longer counts.
LEMMA RemoveOutcome ==
    ASSUME NEW bodies, Remove(bodies), NEW body
    PROVE  /\ body \in bodies /\ body \in delivered' => body \notin scene'
           /\ body \notin bodies => /\ body \in delivered' <=> body \in delivered
                                   /\ body \in scene' <=> body \in scene
BY DEF Remove

LEMMA AddOutcome ==
    ASSUME NEW added, Add(added), NEW body
    PROVE  /\ body = added /\ body \in delivered' => body \in scene'
           /\ body # added => /\ body \in delivered' <=> body \in delivered
                             /\ body \in scene' <=> body \in scene
BY DEF Add

\* Steps that publish nothing about a body and keep what the node believes.
SceneKept == UNCHANGED <<obstacle_source, obstacle_present, cleanup_pending, scene, delivered>>

LEMMA StepsThatKeepTheScene ==
    ASSUME DistanceCallback \/ Command \/ Timer \/ Tick \/ Discover \/ Settle \/ UNCHANGED vars
    PROVE  SceneKept
<1> USE DEF SceneKept, nodeVars, worldVars, sceneVars
<1>1. CASE DistanceCallback
  BY <1>1 DEF DistanceCallback
<1>2. CASE Command
  BY <1>2 DEF Command, CommandState, CommandReset, CommandEscapeStarted
<1>3. CASE Timer \/ Tick
  BY <1>3 DEF Timer, Tick
<1>4. CASE Discover \/ Settle
  BY <1>4 DEF Discover, Settle
<1>5. CASE UNCHANGED vars
  BY <1>5 DEF vars
<1>6. QED BY <1>1, <1>2, <1>3, <1>4, <1>5

LEMMA FlagFollowsSceneStep == ASSUME TypeOK, FlagFollowsScene, [Next]_vars PROVE FlagFollowsScene'
<1> USE DEF FlagFollowsScene
<1> DEFINE hand_body == "perception_hand_obstacle"
<1>1. CASE DistanceCallback \/ Command \/ Timer \/ Tick \/ Discover \/ Settle \/ UNCHANGED vars
  BY <1>1, StepsThatKeepTheScene DEF SceneKept
<1>2. CASE EmptyCloud
  <2>1. CASE obstacle_present \/ cleanup_pending
    <3>1. Remove({hand_body}) /\ obstacle_present' = FALSE /\ cleanup_pending' = FALSE
      BY <1>2, <2>1 DEF EmptyCloud
    <3>2. QED BY <3>1, RemoveOutcome
  <2>2. CASE ~(obstacle_present \/ cleanup_pending)
    BY <1>2, <2>2 DEF EmptyCloud, sceneVars
  <2>3. QED BY <2>1, <2>2
<1>3. CASE ObstacleCloud
  <2>1. Add(hand_body) /\ obstacle_present' = TRUE
    BY <1>3 DEF ObstacleCloud
  <2>2. QED BY <2>1, AddOutcome
<1>4. CASE GroundTruthCollision
  BY <1>4 DEF GroundTruthCollision, nodeVars
<1>5. ASSUME NEW new \in Source, SetObstacleSource(new)
      PROVE  FlagFollowsScene'
  BY <1>5 DEF SetObstacleSource
<1>6. CASE Restart
  BY <1>6 DEF Restart
<1>7. QED
  BY <1>1, <1>2, <1>3, <1>4, <1>5, <1>6 DEF Next, Observation

\* MoveIt plans around a perceived hand exactly when the node believes so: clouds,
\* empty clouds, changes of source, lost publications and restarts in any order
\* leave obstacle_present and the planning scene in agreement or owe a cleanup.
THEOREM SceneFlagIsTrue == Spec => []FlagFollowsScene
<1>1. Init => FlagFollowsScene
  BY DEF Init, NodeInit, FlagFollowsScene
<1>2. TypeOK /\ FlagFollowsScene /\ [Next]_vars => FlagFollowsScene'
  BY FlagFollowsSceneStep
<1>3. QED BY <1>1, <1>2, TypeCorrect, PTL DEF Spec

LEMMA NoForeignBodyStep == ASSUME TypeOK, NoForeignBody, [Next]_vars PROVE NoForeignBody'
<1> USE DEF NoForeignBody
<1>1. CASE DistanceCallback \/ Command \/ Timer \/ Tick \/ Discover \/ Settle \/ UNCHANGED vars
  BY <1>1, StepsThatKeepTheScene DEF SceneKept
<1>2. ASSUME NEW bodies, Remove(bodies), obstacle_source' = obstacle_source
      PROVE  NoForeignBody'
  BY <1>2 DEF Remove
<1>3. ASSUME Add(BodyOf(obstacle_source)), obstacle_source' = obstacle_source
      PROVE  NoForeignBody'
  BY <1>3 DEF Add
<1>4. CASE EmptyCloud
  <2>1. obstacle_source' = obstacle_source /\ (Remove({"perception_hand_obstacle"}) \/ UNCHANGED sceneVars)
    BY <1>4 DEF EmptyCloud
  <2>2. QED BY <2>1, <1>2 DEF sceneVars
<1>5. CASE ObstacleCloud
  <2>1. obstacle_source' = obstacle_source /\ Add(BodyOf(obstacle_source))
    BY <1>5 DEF ObstacleCloud, BodyOf
  <2>2. QED BY <2>1, <1>3
<1>6. CASE GroundTruthCollision
  BY <1>6, <1>2, <1>3 DEF GroundTruthCollision, nodeVars
<1>7. ASSUME NEW new \in Source, SetObstacleSource(new)
      PROVE  NoForeignBody'
  <2>1. obstacle_source' = new /\ Remove(StaleObstacleIds(obstacle_source, new))
    BY <1>7 DEF SetObstacleSource
  <2>2. CASE obstacle_source = new
    BY <2>1, <2>2, <1>2
  <2>3. CASE obstacle_source # new
    <3>1. Remove(HandBody)
      BY <2>1, <2>3 DEF StaleObstacleIds
    <3>2. delivered' \subseteq HandBody
      BY <3>1 DEF Remove, TypeOK
    <3>3. QED BY <3>1, <3>2, RemoveOutcome
  <2>4. QED BY <2>2, <2>3
<1>8. CASE Restart
  BY <1>8 DEF Restart
<1>9. QED
  BY <1>1, <1>4, <1>5, <1>6, <1>7, <1>8 DEF Next, Observation

\* The body of a source that is no longer selected is never left in the planning
\* scene by a change of source whose REMOVE arrived.
THEOREM ForeignBodyIsGone == Spec => []NoForeignBody
<1>1. Init => NoForeignBody
  BY DEF Init, NodeInit, NoForeignBody
<1>2. TypeOK /\ NoForeignBody /\ [Next]_vars => NoForeignBody'
  BY NoForeignBodyStep
<1>3. QED BY <1>1, <1>2, TypeCorrect, PTL DEF Spec

=============================================================================

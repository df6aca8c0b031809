---------------------------- MODULE SafetyPolicy ----------------------------
(***************************************************************************)
(* The class SafetyPolicy of openarm_safety_bridge: the state machine that *)
(* turns a stream of obstacle distances into the state every other node    *)
(* of the arm obeys.  One action per method.                               *)
(*                                                                         *)
(* Two abstractions.  A distance is the band the thresholds put it in, and *)
(* a timestamp *_sec is the age of that instant in timer periods, frozen   *)
(* once it passes the only duration the code compares it with, so that the *)
(* module needs no clock and has finitely many states.                     *)
(***************************************************************************)
EXTENDS Integers

CONSTANTS
    ClearDuration,  \* clear_duration_sec: continuous clearance before release
    Timeout,        \* timeout_sec: the longest silence tolerated
    ReplanDelay,    \* replan_delay_sec: how long PAUSE precedes REPLAN
    RecoverDelay,   \* the literal 0.1 s between REPLAN and RECOVER
    Confirmation,   \* emergency_confirmation_sec: near run before the latch
    EscapeGrace     \* escape_execution_grace_sec: what escape_started grants

ASSUME DurationAssumption ==
    /\ ClearDuration \in Nat /\ Timeout \in Nat /\ ReplanDelay \in Nat
    /\ RecoverDelay \in Nat /\ Confirmation \in Nat /\ EscapeGrace \in Nat

SafetyState == {"SAFE", "WARNING", "PAUSE", "REPLAN", "RECOVER", "EMERGENCY_STOP"}

\* distance <= emergency_m, <= pause_m, <= warning_m, < resume_m, the rest.
Band == {"emergency", "pause", "warning", "gap", "clear"}

\* A timestamp that is None.
NotSet == -1

VARIABLES
    state,            \* SafetyPolicy.state
    estop_latched,    \* SafetyPolicy.estop_latched
    observation_age,  \* age of last_observation_sec
    clear_age,        \* age of clear_since_sec, or NotSet
    transition_age,   \* age of transition_sec
    emergency_age,    \* age of emergency_since_sec, or NotSet
    grace_left        \* time left until escape_grace_until_sec

clocks == <<observation_age, clear_age, transition_age, emergency_age, grace_left>>
policyVars == <<state, estop_latched, clocks>>

Larger(a, b) == IF a > b THEN a ELSE b

\* The ages stop here: no comparison of the code tells a larger one apart.
MaxSilence == Timeout + 1
MaxDwell == Larger(ClearDuration, Larger(ReplanDelay, RecoverDelay))

PolicyTypeOK ==
    /\ state \in SafetyState
    /\ estop_latched \in BOOLEAN
    /\ observation_age \in 0..MaxSilence
    /\ clear_age \in NotSet..ClearDuration
    /\ transition_age \in 0..MaxDwell
    /\ emergency_age \in NotSet..Confirmation
    /\ grace_left \in 0..EscapeGrace

\* The node stamps last_observation_sec when it starts; transition_sec is 0.0.
PolicyInit ==
    /\ state = "SAFE"
    /\ estop_latched = FALSE
    /\ observation_age = 0
    /\ clear_age = NotSet
    /\ transition_age = MaxDwell
    /\ emergency_age = NotSet
    /\ grace_left = 0

-----------------------------------------------------------------------------

Older(age, limit) == IF age = NotSet \/ age = limit THEN age ELSE age + 1

\* One timer period passes for every timestamp of the policy.
PolicyTick ==
    /\ observation_age' = Older(observation_age, MaxSilence)
    /\ clear_age' = Older(clear_age, ClearDuration)
    /\ transition_age' = Older(transition_age, MaxDwell)
    /\ emergency_age' = Older(emergency_age, Confirmation)
    /\ grace_left' = IF grace_left = 0 THEN 0 ELSE grace_left - 1
    /\ UNCHANGED <<state, estop_latched>>

\* _transition: the stamp moves only when the state does.
Transition(next) ==
    /\ state' = next
    /\ transition_age' = IF next = state THEN transition_age ELSE 0

\* A timestamp that is set to now unless it is set already.
Started(age) == IF age = NotSet THEN 0 ELSE age

\* observe, distance_m <= emergency_m, a checked escape under its grace.
ObserveUnderGrace ==
    /\ grace_left > 0 /\ ~estop_latched
    /\ emergency_age' = NotSet
    /\ Transition("PAUSE")
    /\ UNCHANGED <<estop_latched, clear_age>>

\* Seeded fault: every near distance restarts the confirmation.
ObserveEmergencyRestarting ==
    /\ grace_left = 0 \/ estop_latched
    /\ emergency_age' = 0
    /\ IF emergency_age' >= Confirmation
       THEN estop_latched' = TRUE /\ Transition("EMERGENCY_STOP")
       ELSE UNCHANGED estop_latched /\ Transition("PAUSE")
    /\ UNCHANGED clear_age

\* observe, distance_m <= emergency_m: PAUSE at once, the latch once the run of
\* near distances is confirmed.  clear_since_sec is not touched.
ObserveEmergency ==
    /\ grace_left = 0 \/ estop_latched
    /\ emergency_age' = Started(emergency_age)
    /\ IF emergency_age' >= Confirmation
       THEN estop_latched' = TRUE /\ Transition("EMERGENCY_STOP")
       ELSE UNCHANGED estop_latched /\ Transition("PAUSE")
    /\ UNCHANGED clear_age

\* observe, pause_m, not latched.
ObservePause ==
    /\ clear_age' = NotSet
    /\ \/ state = "REPLAN" /\ UNCHANGED <<state, transition_age>>
       \/ /\ state = "PAUSE" /\ transition_age >= ReplanDelay
          /\ Transition("REPLAN")
       \/ /\ state # "REPLAN" /\ ~(state = "PAUSE" /\ transition_age >= ReplanDelay)
          /\ Transition("PAUSE")

\* Seeded fault: RECOVER is missing from the states clearance ends.
ObserveClearNoRecover ==
    /\ clear_age' = Started(clear_age)
    /\ CASE clear_age' >= ClearDuration /\ state = "PAUSE" -> Transition("REPLAN")
         [] /\ clear_age' >= ClearDuration
            /\ state = "REPLAN" /\ transition_age >= RecoverDelay -> Transition("RECOVER")
         [] clear_age' >= ClearDuration /\ state = "WARNING" -> Transition("SAFE")
         [] OTHER -> UNCHANGED <<state, transition_age>>

\* observe, at or beyond resume_m, not latched: one step towards SAFE, once the
\* clearance has lasted.
ObserveClear ==
    /\ clear_age' = Started(clear_age)
    /\ CASE clear_age' >= ClearDuration /\ state = "PAUSE" -> Transition("REPLAN")
         [] /\ clear_age' >= ClearDuration
            /\ state = "REPLAN" /\ transition_age >= RecoverDelay -> Transition("RECOVER")
         [] clear_age' >= ClearDuration /\ state \in {"RECOVER", "WARNING"} -> Transition("SAFE")
         [] OTHER -> UNCHANGED <<state, transition_age>>

\* Seeded fault: the latch is not consulted once the obstacle has left.
ObserveBeyondUnlatched(band) ==
    /\ emergency_age' = NotSet
    /\ UNCHANGED estop_latched
    /\ \/ band = "pause" /\ ObservePause
       \/ band = "warning" /\ clear_age' = NotSet /\ Transition("WARNING")
       \/ band = "gap" /\ clear_age' = NotSet /\ UNCHANGED <<state, transition_age>>
       \/ band = "clear" /\ ObserveClear

\* observe, a distance beyond emergency_m.
ObserveBeyond(band) ==
    /\ emergency_age' = NotSet
    /\ UNCHANGED estop_latched
    /\ \/ estop_latched /\ UNCHANGED <<state, transition_age, clear_age>>
       \/ ~estop_latched /\ band = "pause" /\ ObservePause
       \/ ~estop_latched /\ band = "warning" /\ clear_age' = NotSet /\ Transition("WARNING")
       \/ ~estop_latched /\ band = "gap" /\ clear_age' = NotSet
          /\ UNCHANGED <<state, transition_age>>
       \/ ~estop_latched /\ band = "clear" /\ ObserveClear

Observe(band) ==
    /\ observation_age' = 0
    /\ UNCHANGED grace_left
    /\ \/ band = "emergency" /\ (ObserveUnderGrace \/ ObserveEmergency)
       \/ band # "emergency" /\ ObserveBeyond(band)

\* check_timeout: silence beyond the timeout latches the stop.
CheckTimeout ==
    /\ IF observation_age > Timeout
       THEN estop_latched' = TRUE /\ Transition("EMERGENCY_STOP")
       ELSE UNCHANGED <<estop_latched, state, transition_age>>
    /\ UNCHANGED <<observation_age, clear_age, emergency_age, grace_left>>

\* reset_estop: the only method that lifts the latch.
ResetEstop ==
    /\ estop_latched' = FALSE
    /\ emergency_age' = NotSet
    /\ grace_left' = 0
    /\ clear_age' = 0
    /\ Transition("REPLAN")
    /\ UNCHANGED observation_age

\* Seeded fault: the grace is granted in a latched stop too, and lifts it.
GrantEscapeGraceUnlatching ==
    /\ estop_latched' = FALSE
    /\ grace_left' = EscapeGrace /\ emergency_age' = NotSet
    /\ UNCHANGED <<state, observation_age, clear_age, transition_age>>

\* Seeded fault: a second escape adds to the grace of the first.
GrantEscapeGraceAdding ==
    /\ IF estop_latched
       THEN UNCHANGED <<grace_left, emergency_age>>
       ELSE grace_left' = grace_left + EscapeGrace /\ emergency_age' = NotSet
    /\ UNCHANGED <<state, estop_latched, observation_age, clear_age, transition_age>>

\* grant_escape_grace: the state is deliberately left alone.
GrantEscapeGrace ==
    /\ IF estop_latched
       THEN UNCHANGED <<grace_left, emergency_age>>
       ELSE grace_left' = Larger(grace_left, EscapeGrace) /\ emergency_age' = NotSet
    /\ UNCHANGED <<state, estop_latched, observation_age, clear_age, transition_age>>

=============================================================================

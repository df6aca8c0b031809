------------------------------ MODULE GazeboHand ------------------------------
(***************************************************************************)
(* The controller that moves the hand of the simulation                    *)
(* (openarm_sim_bringup/gazebo_hand_controller.py) and the simulator that  *)
(* places it.  The hand is on a line: a tick moves it by one place at most *)
(* (bounded_sim_dt and the speed bound the step).  The service that moves  *)
(* it is ready, as it is while the simulator runs.                         *)
(***************************************************************************)
EXTENDS Integers, Sequences

CONSTANTS
    Reach,      \* the workspace is 0 .. Reach, the parked hand at 0
    Low, High,  \* _auto_sweep_limits
    Path,       \* path_waypoints of the scenario
    MaxEvents   \* bound on the commands, the edits and the failures

VARIABLES
    hand,       \* current, target, manual target, waypoints and the flags
    pending,    \* the call of the service: "none", "sent", "ok" or "failed"
    asked,      \* the place it asks for, 0 when there is none
    real,       \* where the simulator has the hand
    report,     \* a place reported and not handled yet, or -1
    actual,     \* _actual
    events

vars == <<hand, pending, asked, real, report, actual, events>>
Places == 0 .. (Reach + 1)
Clip(place) == IF place > Reach THEN Reach ELSE place

Init ==
    /\ hand = [current |-> 0, target |-> 0, manual |-> 0, waypoints |-> <<>>,
               byHand |-> FALSE, sweep |-> FALSE, paused |-> FALSE]
    /\ pending = "none" /\ asked = 0 /\ real = 0 /\ report = -1 /\ actual = 0
    /\ events = 0

-----------------------------------------------------------------------------
Idle == pending = "none" /\ hand.waypoints = <<>> /\ hand.target = hand.current

\* A seeded fault: the place the simulator reports is only remembered.
OnModelStatesUnsynced ==
    /\ report # -1 /\ report' = -1 /\ actual' = report
    /\ UNCHANGED <<hand, pending, asked, real, events>>

\* _on_model_states: what the simulator says is authoritative while idle.
OnModelStates ==
    /\ report # -1 /\ report' = -1 /\ actual' = report
    /\ hand' = IF Idle
               THEN [hand EXCEPT !.current = report, !.target = report,
                                 !.manual = IF hand.byHand THEN @ ELSE report]
               ELSE hand
    /\ UNCHANGED <<pending, asked, real, events>>

OnManualTarget(place) ==
    hand' = IF hand.byHand
            THEN [hand EXCEPT !.manual = Clip(place), !.waypoints = <<>>,
                              !.target = Clip(place)]
            ELSE [hand EXCEPT !.manual = Clip(place)]

ManualOn ==
    hand' = [hand EXCEPT !.sweep = FALSE, !.byHand = TRUE, !.paused = FALSE,
                         !.waypoints = <<>>, !.target = hand.manual]
ManualOff ==
    hand' = [hand EXCEPT !.byHand = FALSE, !.waypoints = <<>>, !.target = hand.current]

Gap(a, b) == IF a < b THEN b - a ELSE a - b
StartAutoSweep ==
    hand' = [hand EXCEPT !.byHand = FALSE, !.sweep = TRUE, !.paused = FALSE,
                         !.waypoints = <<>>, !.current = actual,
                         !.target = Clip(IF Gap(actual, Low) <= Gap(actual, High)
                                         THEN High ELSE Low)]
AutoSweepOff ==
    hand' = [hand EXCEPT !.sweep = FALSE, !.waypoints = <<>>, !.target = hand.current]

\* _start_scenario, which ends a pause but not the manual mode
Trigger ==
    hand' = [hand EXCEPT !.sweep = FALSE, !.paused = FALSE,
                         !.waypoints = Tail(Path), !.target = Head(Path)]
Withdraw ==
    hand' = [hand EXCEPT !.sweep = FALSE, !.waypoints = <<>>, !.target = 0,
                         !.paused = FALSE]
PauseHand == hand' = [hand EXCEPT !.paused = TRUE]
ResumeHand == hand' = [hand EXCEPT !.paused = FALSE]

OnCommand ==
    /\ events < MaxEvents /\ events' = events + 1
    /\ UNCHANGED <<pending, asked, real, report, actual>>
    /\ \/ \E place \in Places : OnManualTarget(place)
       \/ ManualOn \/ ManualOff \/ StartAutoSweep \/ AutoSweepOff
       \/ Trigger \/ Withdraw \/ PauseHand \/ ResumeHand

-----------------------------------------------------------------------------
\* The next leg of a path or of the sweep, once the target is reached.
NextLeg ==
    IF hand.waypoints # <<>>
    THEN [hand EXCEPT !.target = Head(hand.waypoints), !.waypoints = Tail(hand.waypoints)]
    ELSE IF hand.sweep
    THEN [hand EXCEPT !.target = IF hand.current = High THEN Low ELSE High]
    ELSE hand

Toward == IF hand.target > hand.current THEN hand.current + 1 ELSE hand.current - 1

\* _tick: an answer to the last call is taken first; one that failed ends the
\* tick, as do a pause and a target just reached.
Tick ==
    /\ pending # "sent" /\ UNCHANGED <<real, report, actual, events>>
    /\ IF pending # "failed" /\ ~hand.paused /\ hand.target # hand.current
       THEN /\ hand' = [hand EXCEPT !.current = Toward]
            /\ pending' = "sent" /\ asked' = Toward
       ELSE /\ pending' = "none" /\ asked' = 0
            /\ hand' = IF pending = "failed" \/ hand.paused THEN hand ELSE NextLeg

\* The simulator: it serves or refuses the call, reports where the hand is,
\* and a user may drag the hand.
Serve ==
    /\ pending = "sent" /\ UNCHANGED <<hand, asked, report, actual>>
    /\ \/ pending' = "ok" /\ real' = asked /\ UNCHANGED events
       \/ pending' = "failed" /\ events < MaxEvents /\ events' = events + 1 /\ UNCHANGED real
Report ==
    /\ report = -1 /\ report' = real
    /\ UNCHANGED <<hand, pending, asked, real, actual, events>>
Drag ==
    /\ events < MaxEvents /\ events' = events + 1
    /\ real' \in Places \ {real}
    /\ UNCHANGED <<hand, pending, asked, report, actual>>

Next == OnModelStates \/ OnCommand \/ Tick \/ Serve \/ Report \/ Drag

HandFairness ==
    /\ WF_vars(OnModelStates) /\ WF_vars(Tick) /\ WF_vars(Serve) /\ WF_vars(Report)

HandSpec == Init /\ [][Next]_vars /\ HandFairness

-----------------------------------------------------------------------------
\* Once the commands, the drags and the refusals are over, the controller and
\* the simulator agree for good on where the hand is, unless it is paused or
\* sweeping: a call that was refused, a report taken before the last move and
\* a hand dragged away all end in the idle synchronisation (the comment in
\* _on_model_states).
Settled == hand.paused \/ hand.sweep \/ (hand.current = real /\ hand.target = real)

SettlesOnReality == <>[]Settled

=============================================================================

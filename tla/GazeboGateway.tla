----------------------------- MODULE GazeboGateway -----------------------------
(***************************************************************************)
(* The gateway that turns GUI commands into home motions of both arms      *)
(* (openarm_sim_bringup/gazebo_openarm_gateway.py) and the trajectory      *)
(* controllers it calls.  Its callbacks run one at a time; goals, answers, *)
(* cancellations and results are on their way in between.                  *)
(***************************************************************************)
EXTENDS Integers, FiniteSets

CONSTANTS
    Sides,       \* "left" and "right"
    MaxHomes,    \* bound on the homes started
    MaxCommands, \* bound on the commands
    None

VARIABLES
    task,        \* _task_state, without the side and the cause
    safety,      \* _safety_state
    resumeHome,  \* _resume_home
    pending,     \* _pending_results
    handles,     \* _goal_handles: per side None or the home whose goal it is
    goals,       \* per home and side: where the goal is
    homes,       \* how many homes were started
    wanted,      \* ghost: a home was asked for and neither stopped nor reset since
    commands     \* how many commands came

vars == <<task, safety, resumeHome, pending, handles, goals, homes, wanted,
          commands>>

Stages == {"unsent", "sent", "accepted", "rejected", "running", "canceling",
           "succeeded", "failed", "canceled", "done"}
Ids == (1 .. MaxHomes) \X Sides

Init ==
    /\ task = "IDLE" /\ safety = "SAFE" /\ resumeHome = FALSE /\ pending = 0
    /\ handles = [side \in Sides |-> None]
    /\ goals = [id \in Ids |-> "unsent"]
    /\ homes = 0 /\ wanted = FALSE /\ commands = 0

-----------------------------------------------------------------------------
\* _cancel_all reaches the goals whose acceptance has been answered.
Canceled(id) ==
    IF handles[id[2]] = id[1] /\ goals[id] = "running" THEN "canceling" ELSE goals[id]
Forgotten == handles' = [side \in Sides |-> None]

CancelAll ==
    /\ goals' = [id \in Ids |-> Canceled(id)]
    /\ Forgotten /\ UNCHANGED homes

Untouched == UNCHANGED <<resumeHome, pending, handles, goals, homes>>

\* _start_home: the joints and the controllers must be there, and no
\* emergency stop.
SendHome ==
    /\ homes < MaxHomes /\ homes' = homes + 1
    /\ goals' = [id \in Ids |-> IF id[1] = homes' THEN "sent" ELSE Canceled(id)]
    /\ Forgotten
    /\ pending' = Cardinality(Sides) /\ resumeHome' = TRUE
    /\ task' = "HOME_RUNNING" /\ safety' = "SAFE"

StartHome ==
    \/ task' = "NOT_READY" /\ UNCHANGED safety /\ Untouched
    \/ safety = "EMERGENCY_STOP" /\ task' = "RESET_REQUIRED" /\ UNCHANGED safety /\ Untouched
    \/ safety # "EMERGENCY_STOP" /\ SendHome

Home == StartHome /\ wanted' = TRUE

Pause ==
    /\ CancelAll
    /\ resumeHome' = (resumeHome \/ task = "HOME_RUNNING")
    /\ task' = "PAUSED" /\ safety' = "PAUSE"
    /\ UNCHANGED <<pending, wanted>>

\* _resume: the safety state is SAFE before the home is tried again.
Resume ==
    /\ UNCHANGED wanted
    /\ \/ /\ safety = "EMERGENCY_STOP"
          /\ task' = "RESET_REQUIRED" /\ UNCHANGED safety /\ Untouched
       \/ /\ safety # "EMERGENCY_STOP" /\ safety' = "SAFE"
          /\ \/ ~resumeHome /\ task' = "IDLE" /\ Untouched
             \/ resumeHome /\ task' = "NOT_READY" /\ Untouched
             \/ resumeHome /\ SendHome

Reset ==
    /\ CancelAll
    /\ resumeHome' = FALSE /\ task' = "IDLE" /\ safety' = "SAFE"
    /\ wanted' = FALSE /\ UNCHANGED pending

\* A seeded fault: the stop leaves the home to be resumed.
EmergencyStopKeepsHome ==
    /\ CancelAll
    /\ resumeHome' = resumeHome /\ task' = "STOPPED" /\ safety' = "EMERGENCY_STOP"
    /\ wanted' = FALSE /\ UNCHANGED pending

EmergencyStop ==
    /\ CancelAll
    /\ resumeHome' = FALSE /\ task' = "STOPPED" /\ safety' = "EMERGENCY_STOP"
    /\ wanted' = FALSE /\ UNCHANGED pending

SafetyReset == safety' = "SAFE" /\ UNCHANGED <<task, wanted>> /\ Untouched
Pick == task' = "NOT_READY" /\ UNCHANGED <<safety, wanted>> /\ Untouched

-----------------------------------------------------------------------------
\* _goal_response
GoalResponse(id) ==
    /\ UNCHANGED <<safety, pending, homes, wanted>>
    /\ \/ /\ goals[id] = "rejected"
          /\ task' = "HOME_FAILED" /\ resumeHome' = FALSE /\ UNCHANGED handles
          /\ goals' = [goals EXCEPT ![id] = "done"]
       \/ /\ goals[id] = "accepted"
          /\ handles' = [handles EXCEPT ![id[2]] = id[1]]
          /\ goals' = [goals EXCEPT ![id] = "running"] /\ UNCHANGED <<task, resumeHome>>

\* _goal_result: the handle of the side goes, whichever home it is of, and
\* so does one pending result.
GoalResult(id) ==
    /\ goals[id] \in {"succeeded", "failed", "canceled"}
    /\ goals' = [goals EXCEPT ![id] = "done"]
    /\ handles' = [handles EXCEPT ![id[2]] = None]
    /\ UNCHANGED <<safety, homes, wanted>>
    /\ \/ goals[id] = "canceled" /\ UNCHANGED <<task, resumeHome, pending>>
       \/ /\ goals[id] = "failed" /\ task' = "HOME_FAILED" /\ resumeHome' = FALSE
          /\ UNCHANGED pending
       \/ /\ goals[id] = "succeeded" /\ pending' = pending - 1
          /\ IF pending' <= 0 THEN task' = "HOME_REACHED" /\ resumeHome' = FALSE
             ELSE UNCHANGED <<task, resumeHome>>

\* The controllers: a new goal for an arm ends the one before it, a cancel
\* request may come too late.
Controller(id) ==
    /\ UNCHANGED <<task, safety, resumeHome, pending, handles, homes, wanted>>
    /\ \/ goals[id] = "sent" /\ \E to \in {"accepted", "rejected"} :
             goals' = [other \in Ids |->
                 IF other = id THEN to
                 ELSE IF to = "accepted" /\ other[2] = id[2] /\ goals[other] \in {"running", "canceling"}
                 THEN "failed" ELSE goals[other]]
       \/ goals[id] \in {"running", "canceling"} /\ \E to \in {"succeeded", "failed"} :
             goals' = [goals EXCEPT ![id] = to]
       \/ goals[id] = "canceling" /\ goals' = [goals EXCEPT ![id] = "canceled"]

Next ==
    \/ /\ commands < MaxCommands /\ commands' = commands + 1
       /\ \/ Home \/ Pause \/ Resume \/ Reset \/ EmergencyStop \/ SafetyReset \/ Pick
    \/ /\ UNCHANGED commands
       /\ \E id \in Ids : GoalResponse(id) \/ GoalResult(id) \/ Controller(id)

GatewaySpec == Init /\ [][Next]_vars

-----------------------------------------------------------------------------
\* A home that an emergency stop or a reset has ended does not come back by
\* itself: whatever results arrive late, and however often the arm is paused
\* and resumed afterwards, a resume sends goals only for a home that was asked
\* for since (_resume_home across _pause, _resume and _goal_result).
NoUnwantedHome == homes' # homes => wanted'

=============================================================================

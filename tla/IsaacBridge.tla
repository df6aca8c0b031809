------------------------------ MODULE IsaacBridge ------------------------------
(***************************************************************************)
(* The action servers of the Isaac simulator                               *)
(* (openarm_isaac_bridge: control.py, and what runtime.py runs around it). *)
(* A goal occupies one of the executor's three threads until it is         *)
(* answered; the simulation thread moves the active trajectory and the     *)
(* active gripper under a lock, once per cycle, and works through the      *)
(* magnetic attach and detach commands.  Joint positions are abstracted to *)
(* whether a motion has settled, simulated time to cycles.                 *)
(***************************************************************************)
EXTENDS Integers, Sequences, FiniteSets

CONSTANTS
    Goals,      \* the goals of all clients, in the order they are sent
    Threads,    \* MultiThreadedExecutor(num_threads=3)
    Duration,   \* cycles of a trajectory; as many again to settle in
    Cubes,      \* the cubes of the scene
    MaxEvents,  \* bound on what other nodes send: goals, safety states, cube commands
    None

VARIABLES
    goals,      \* per goal: its kind, where its callback is, its flags and its answer
    slots,      \* _active and _active_gripper
    paused,     \* safety_paused
    inbox,      \* the newest safety message not yet delivered
    sim,        \* the step of the simulation thread
    cubes,      \* the queued cube commands, _attached_cube_name and _grasp_constraint_path
    sent        \* how much other nodes have sent

vars == <<goals, slots, paused, inbox, sim, cubes, sent>>

Kinds == {"trajectory", "gripper"}
Running == {id \in Goals : goals[id].pc \in {"read", "wait"}}

Init ==
    /\ goals = [id \in Goals |-> [kind |-> None, pc |-> "new", age |-> 0, aborted |-> FALSE,
                                  finished |-> FALSE, settled |-> FALSE, answer |-> None]]
    /\ slots = [kind \in Kinds |-> None]
    /\ paused = FALSE /\ inbox = None /\ sim = "trajectory"
    /\ cubes = [commands |-> <<>>, attached |-> None, joint |-> None]
    /\ sent = 0

-----------------------------------------------------------------------------
\* Another node sends a goal; the server accepts it and queues its callback.
Sends == sent < MaxEvents /\ sent' = sent + 1

SendGoal(id, kind) ==
    /\ Sends /\ goals[id].pc = "new"
    /\ \A other \in Goals : other < id => goals[other].pc # "new"
    /\ goals' = [goals EXCEPT ![id].kind = kind, ![id].pc = "queued"]
    /\ UNCHANGED <<slots, paused, inbox, sim, cubes>>

\* _execute_trajectory, _execute_gripper: the positions and the time are read
\* before the lock is taken; joints that do not exist abort the goal at once.
StartGoal(id) ==
    /\ goals[id].pc = "queued" /\ Cardinality(Running) < Threads
    /\ goals' = [goals EXCEPT ![id].pc = "read"]
    /\ UNCHANGED <<slots, paused, inbox, sim, cubes, sent>>

RefuseGoal(id) ==
    /\ goals[id].pc = "queued" /\ Cardinality(Running) < Threads
    /\ goals' = [goals EXCEPT ![id].pc = "done", ![id].answer = "aborted"]
    /\ UNCHANGED <<slots, paused, inbox, sim, cubes, sent>>

Ended(goal, failed) ==
    [goal EXCEPT !.aborted = @ \/ failed, !.finished = TRUE, !.settled = ~failed]

\* A seeded fault: the goal that gives way is not woken.
InstallSilently(id) ==
    LET slot == goals[id].kind
        old == slots[slot]
        started == [goals EXCEPT ![id].pc = "wait"]
    IN /\ goals[id].pc = "read" /\ sim # "gripper"
       /\ goals' = IF old = None THEN started ELSE [started EXCEPT ![old].aborted = TRUE]
       /\ slots' = [slots EXCEPT ![slot] = id]
       /\ UNCHANGED <<paused, inbox, sim, cubes, sent>>

\* Under the lock: whatever was active gives way, also to an older goal, and
\* the grippers of both arms share one slot.
Install(id) ==
    LET slot == goals[id].kind
        old == slots[slot]
        started == [goals EXCEPT ![id].pc = "wait"]
    IN /\ goals[id].pc = "read" /\ sim # "gripper"
       /\ goals' = IF old = None THEN started
                   ELSE [started EXCEPT ![old] = Ended(started[old], TRUE)]
       /\ slots' = [slots EXCEPT ![slot] = id]
       /\ UNCHANGED <<paused, inbox, sim, cubes, sent>>

\* A seeded fault: the answer does not look at the aborted flag.
AnswerBlindly(goal) == "succeeded"

Answer(goal) == IF goal.aborted THEN "aborted" ELSE "succeeded"

AnswerGoal(id) ==
    /\ goals[id].pc = "wait" /\ goals[id].finished
    /\ goals' = [goals EXCEPT ![id].pc = "done", ![id].answer = Answer(goals[id]), ![id].age = 0,
                               ![id].aborted = FALSE, ![id].finished = FALSE]
    /\ UNCHANGED <<slots, paused, inbox, sim, cubes, sent>>

\* A cancelled goal is answered whatever the simulation thread does to it.
CancelGoal(id) ==
    /\ goals[id].pc = "wait" /\ ~goals[id].finished /\ sim # "gripper"
    /\ goals' = [goals EXCEPT ![id].pc = "done", ![id].answer = "canceled", ![id].age = 0]
    /\ slots' = [kind \in Kinds |-> IF slots[kind] = id THEN None ELSE slots[kind]]
    /\ UNCHANGED <<paused, inbox, sim, cubes, sent>>

-----------------------------------------------------------------------------
SafetyMessage(state) ==
    /\ Sends /\ inbox' = state
    /\ UNCHANGED <<goals, slots, paused, sim, cubes>>

\* _safety_callback needs a thread as well.
SafetyCallback ==
    /\ inbox # None /\ Cardinality(Running) < Threads
    /\ paused' = (inbox \in {"PAUSE", "EMERGENCY_STOP"})
    /\ inbox' = None
    /\ UNCHANGED <<goals, slots, sim, cubes, sent>>

-----------------------------------------------------------------------------
\* update, under the lock: every goal that has read the time ages; the active
\* one moves, settles, or has run out of time.
Outcomes(id) ==
    IF goals[id].kind = "trajectory"
    THEN IF goals[id].age < Duration THEN {"moves"}
         ELSE IF goals[id].age < 2 * Duration THEN {"moves", "settled"}
         ELSE {"failed", "settled"}
    ELSE IF goals[id].age < 2 * Duration THEN {"moves", "settled"} ELSE {"failed", "settled"}

Aged == [id \in Goals |->
    IF id \in Running /\ goals[id].age < 2 * Duration
    THEN [goals[id] EXCEPT !.age = @ + 1] ELSE goals[id]]

Advance(kind, base) ==
    LET id == slots[kind] IN
    IF id = None THEN goals' = base /\ UNCHANGED slots
    ELSE \E outcome \in IF paused THEN {"failed"} ELSE Outcomes(id) :
           IF outcome = "moves" THEN goals' = base /\ UNCHANGED slots
           ELSE /\ goals' = [base EXCEPT ![id] = Ended(base[id], outcome = "failed")]
                /\ slots' = [slots EXCEPT ![kind] = None]

UpdateTrajectory ==
    /\ sim = "trajectory" /\ Advance("trajectory", Aged)
    /\ sim' = "gripper" /\ UNCHANGED <<paused, inbox, cubes, sent>>

\* _update_gripper reads the pause flag again, still under the lock.
UpdateGripper ==
    /\ sim = "gripper" /\ Advance("gripper", goals)
    /\ sim' = "cubes" /\ UNCHANGED <<paused, inbox, cubes, sent>>

-----------------------------------------------------------------------------
CubeEvent(command, cube) ==
    /\ Sends
    /\ cubes' = [cubes EXCEPT !.commands = Append(@, [command |-> command, cube |-> cube])]
    /\ UNCHANGED <<goals, slots, paused, inbox, sim>>

\* _update_cube_attachment, one command of its loop: an attach out of reach is
\* rejected and changes nothing, one in reach replaces the joint there is.
Attached(state, cube) == [state EXCEPT !.attached = cube, !.joint = cube]

\* A seeded fault: a detach releases whatever is held.
DetachedAny(state, cube) == [state EXCEPT !.attached = None, !.joint = None]

Detached(state, cube) ==
    IF state.attached = cube THEN [state EXCEPT !.attached = None, !.joint = None] ELSE state

UpdateCubes ==
    /\ sim = "cubes" /\ UNCHANGED <<goals, slots, paused, inbox, sent>>
    /\ IF cubes.commands = <<>> THEN sim' = "trajectory" /\ UNCHANGED cubes
       ELSE LET next == Head(cubes.commands)
                rest == [cubes EXCEPT !.commands = Tail(@)]
            IN /\ sim' = sim
               /\ cubes' \in IF next.command = "attach" THEN {rest, Attached(rest, next.cube)}
                             ELSE {Detached(rest, next.cube)}

-----------------------------------------------------------------------------
Callbacks(id) ==
    StartGoal(id) \/ RefuseGoal(id) \/ Install(id) \/ AnswerGoal(id)
Simulation == UpdateTrajectory \/ UpdateGripper \/ UpdateCubes

Next ==
    \/ \E id \in Goals : Callbacks(id) \/ CancelGoal(id) \/ \E kind \in Kinds : SendGoal(id, kind)
    \/ \E state \in {"SAFE", "PAUSE"} : SafetyMessage(state)
    \/ SafetyCallback \/ Simulation
    \/ \E command \in {"attach", "detach"}, cube \in Cubes : CubeEvent(command, cube)

\* The simulator keeps stepping, the executor keeps its threads busy, and a
\* thread that waits for the lock gets it in the end.
Fairness ==
    /\ WF_vars(Simulation) /\ WF_vars(SafetyCallback)
    /\ \A id \in Goals : WF_vars(Callbacks(id)) /\ SF_vars(Install(id))

BridgeSpec == Init /\ [][Next]_vars /\ Fairness

-----------------------------------------------------------------------------
\* Goals wait on the executor's threads, one of each kind is active at most,
\* and whatever gives way is woken; so every goal is answered, and the safety
\* state, which needs one of the same three threads, is heard in the end.
Quiet == inbox = None /\ \A id \in Goals : goals[id].pc \in {"new", "done"}

ThreadsAreFreed == <>[]Quiet

\* No goal is reported to have succeeded that was preempted, paused or did
\* not settle, whichever thread ended it.
SuccessIsSettled ==
    \A id \in Goals : goals[id].answer = "succeeded" => goals[id].settled

\* A cube is let go by its own detach, or for another cube: a late detach of
\* the cube held before does nothing, and there is a joint exactly while one
\* is held.
HoldsCubes ==
    /\ cubes.attached = cubes.joint
    /\ cubes'.attached = None /\ cubes.attached # None =>
           Head(cubes.commands) = [command |-> "detach", cube |-> cubes.attached]

=============================================================================

------------------------------ MODULE SceneMirror ------------------------------
(***************************************************************************)
(* gazebo_planning_scene (openarm_sim_bringup): mirrors the simulator's    *)
(* models into MoveIt's planning scene twice a second, the human hand only *)
(* while the obstacle source is "ground_truth".                            *)
(*                                                                         *)
(* A model is its pose, counted by the moves that led to it, or Gone.      *)
(* move_group is external: it applies the scene's diffs in order, an ADD   *)
(* replacing the object of that name.                                      *)
(***************************************************************************)
EXTENDS Integers, Sequences

CONSTANTS
    MaxMoves,     \* bound on the moves of one model
    MaxSwitches,  \* bound on the commands to the obstacle source
    Transit,      \* bound on the diffs and the commands on their way
    Gone,         \* the pose of a model that is not in the simulator
    None          \* no message

VARIABLES
    models,     \* the simulator's models and how often each has been moved
    states,     \* the newest ModelStates message on its way
    commands,   \* /openarm/obstacle_source on its way, and how many were sent
    mirror,     \* the node: _poses and _source
    diffs,      \* /planning_scene on its way
    scene       \* MoveIt's world objects

mirrorVars == <<models, states, commands, mirror, diffs, scene>>

Models == {"hand", "cube"}
Sources == {"ground_truth", "perception"}

MirrorInit ==
    /\ models = [m \in Models |-> [pose |-> 0, moves |-> 0]]
    /\ states = None
    /\ commands = [queue |-> <<>>, sent |-> 0]
    /\ mirror = [known |-> FALSE, poses |-> [m \in Models |-> Gone], source |-> "perception"]
    /\ diffs = <<>>
    /\ scene = [m \in Models |-> Gone]

-----------------------------------------------------------------------------
\* An editor moves a model, or removes the hand.
Edit(m, pose) ==
    /\ models[m].moves < MaxMoves
    /\ pose \in {models[m].moves + 1} \cup (IF m = "hand" THEN {Gone} ELSE {})
    /\ models' = [models EXCEPT ![m] = [pose |-> pose, moves |-> @.moves + 1]]
    /\ UNCHANGED <<states, commands, mirror, diffs, scene>>

StateModels ==
    /\ states' = [m \in Models |-> models[m].pose]
    /\ UNCHANGED <<models, commands, mirror, diffs, scene>>

Command(source) ==
    /\ commands.sent < MaxSwitches /\ Len(commands.queue) < Transit
    /\ commands' = [queue |-> Append(commands.queue, source), sent |-> commands.sent + 1]
    /\ UNCHANGED <<models, states, mirror, diffs, scene>>

-----------------------------------------------------------------------------
\* Every message replaces all poses.
States ==
    /\ states # None
    /\ mirror' = [mirror EXCEPT !.known = TRUE, !.poses = states]
    /\ states' = None
    /\ UNCHANGED <<models, commands, diffs, scene>>

\* A seeded fault: the previous source is read after the new one is stored.
SourceCommandLate ==
    /\ commands.queue # <<>> /\ Len(diffs) < Transit
    /\ mirror' = [mirror EXCEPT !.source = Head(commands.queue)]
    /\ diffs' = IF mirror'.source = "ground_truth" /\ Head(commands.queue) = "perception"
                THEN Append(diffs, [hand |-> Gone]) ELSE diffs
    /\ commands' = [commands EXCEPT !.queue = Tail(@)]
    /\ UNCHANGED <<models, states, scene>>

\* Leaving ground truth takes the hand out of the scene, once.
SourceCommand ==
    /\ commands.queue # <<>> /\ Len(diffs) < Transit
    /\ mirror' = [mirror EXCEPT !.source = Head(commands.queue)]
    /\ diffs' = IF mirror.source = "ground_truth" /\ Head(commands.queue) = "perception"
                THEN Append(diffs, [hand |-> Gone]) ELSE diffs
    /\ commands' = [commands EXCEPT !.queue = Tail(@)]
    /\ UNCHANGED <<models, states, scene>>

\* One ADD for every model known: a model that has gone is simply not named.
Named ==
    {m \in Models : mirror.poses[m] # Gone /\ (m = "hand" => mirror.source = "ground_truth")}

PublishScene ==
    /\ mirror.known /\ Len(diffs) < Transit
    /\ diffs' = Append(diffs, [m \in Named |-> mirror.poses[m]])
    /\ UNCHANGED <<models, states, commands, mirror, scene>>

ApplyDiff ==
    /\ diffs # <<>>
    /\ scene' = [m \in Models |-> IF m \in DOMAIN Head(diffs) THEN Head(diffs)[m] ELSE scene[m]]
    /\ diffs' = Tail(diffs)
    /\ UNCHANGED <<models, states, commands, mirror>>

MirrorNext ==
    \/ \E m \in Models, pose \in 0 .. MaxMoves \cup {Gone} : Edit(m, pose)
    \/ StateModels \/ States \/ SourceCommand \/ PublishScene \/ ApplyDiff
    \/ \E source \in Sources : Command(source)

\* The node's timer and callbacks and move_group keep running.
MirrorFairness ==
    /\ WF_mirrorVars(StateModels) /\ WF_mirrorVars(States) /\ SF_mirrorVars(SourceCommand)
    /\ SF_mirrorVars(PublishScene) /\ WF_mirrorVars(ApplyDiff)

MirrorSpec == MirrorInit /\ [][MirrorNext]_mirrorVars /\ MirrorFairness

-----------------------------------------------------------------------------
\* Once nobody edits or switches, MoveIt's cube is the simulator's, its hand is
\* the simulator's in ground truth, and in perception there is none
\* (gazebo_planning_scene.py:76, "without leaking hand GT in perception mode").
\* A hand removed in ground truth is the exception: nothing takes it out.
Settled ==
    /\ scene["cube"] = models["cube"].pose
    /\ mirror.source = "perception" => scene["hand"] = Gone
    /\ mirror.source = "ground_truth" /\ models["hand"].pose # Gone =>
           scene["hand"] = models["hand"].pose

SceneSettles == <>[]Settled

\* What the docstring says with no exception: the scene mirrors the edits.
\* The code does not keep it.
MirrorsEveryEdit == <>[](Settled /\ (models["hand"].pose = Gone => scene["hand"] = Gone))

=============================================================================

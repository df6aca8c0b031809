--------------------------- MODULE Simulation_proofs ---------------------------
(***************************************************************************)
(* Proofs about the components of MCSimulation, for every value of their   *)
(* constants.  A section proves the invariant of one component; it names   *)
(* the slots of that component as the component's module does (with        *)
(* another name where two sections would claim the same one), and these    *)
(* names are expanded everywhere.  The last section puts them together.    *)
(***************************************************************************)
EXTENDS MCSimulation, Sequences, FiniteSets, FiniteSetTheorems, WellFoundedInduction,
        TLAPS

vars == <<part, slots>>

-----------------------------------------------------------------------------
(* IsaacBridge.  Whoever ends a goal, the simulation thread, a newer goal  *)
(* or a cancellation, takes it from its slot in the same step; so a goal   *)
(* in a slot has not ended, and one that has ended stays as it is.         *)

goals == v1
active == v2     \* slots
cubes == v6
USE DEF goals, active, cubes

GoalRecords ==
    [kind : Isaac!Kinds \union {None}, age : Int, settled : BOOLEAN,
     pc : {"new", "queued", "read", "wait", "done"}, aborted : BOOLEAN, finished : BOOLEAN,
     answer : {"succeeded", "aborted", "canceled", None}]

\* What every goal's record says is true of it.
Honest(goal) ==
    /\ goal.pc # "new" => goal.kind \in Isaac!Kinds
    /\ goal.pc \in {"new", "queued", "read"} => ~goal.finished
    /\ goal.finished /\ ~goal.aborted => goal.settled
    /\ goal.answer = "succeeded" => goal.pc = "done" /\ goal.settled

\* A goal in the slot of a kind is of that kind and waits.
Waits(goal, kind) == goal.pc = "wait" /\ ~goal.finished /\ goal.kind = kind

Sound(records, held) ==
    /\ records \in [Goals -> GoalRecords]
    /\ held \in [Isaac!Kinds -> Goals \union {None}]
    /\ \A id \in Goals : Honest(records[id])
    /\ \A kind \in Isaac!Kinds : held[kind] # None => Waits(records[held[kind]], kind)

CubeCommands == [command : {"attach", "detach"}, cube : IsaacCubes]

\* There is a joint exactly while a cube is held.
CubesJoined ==
    /\ cubes \in [commands : Seq(CubeCommands), attached : IsaacCubes \union {None},
                  joint : IsaacCubes \union {None}]
    /\ cubes.attached = cubes.joint

IsaacInv == Sound(goals, active) /\ CubesJoined

LEMMA IsaacInvInit == Isaac!Init => IsaacInv
<1> SUFFICES ASSUME Isaac!Init PROVE IsaacInv
  OBVIOUS
<1>1. /\ goals = [id \in Goals |-> [kind |-> None, pc |-> "new", age |-> 0, aborted |-> FALSE,
                                    finished |-> FALSE, settled |-> FALSE, answer |-> None]]
      /\ active = [kind \in Isaac!Kinds |-> None]
      /\ cubes = [commands |-> <<>>, attached |-> None, joint |-> None]
  BY DEF Isaac!Init
<1>2. goals \in [Goals -> GoalRecords]
  BY <1>1 DEF GoalRecords
<1>3. \A id \in Goals : Honest(goals[id])
  <2>1. None # "succeeded"
    BY NoneAssumption
  <2>2. QED
    BY <1>1, <2>1 DEF Honest
<1>4. <<>> \in Seq(CubeCommands)
  OBVIOUS
<1>5. CubesJoined
  BY <1>1, <1>4 DEF CubesJoined
<1>6. QED
  BY <1>1, <1>2, <1>3, <1>5 DEF IsaacInv, Sound

LEMMA IsaacInvSays == IsaacInv => Isaac!SuccessIsSettled
  BY DEF IsaacInv, Sound, Honest, Isaac!SuccessIsSettled

\* One goal changes that is in no slot afterwards.
LEMMA GoalChanges ==
  ASSUME NEW records, NEW held, Sound(records, held), NEW id \in Goals,
         NEW goal \in GoalRecords, Honest(goal), NEW kept,
         kept \in [Isaac!Kinds -> Goals \union {None}],
         \A kind \in Isaac!Kinds :
             kept[kind] = None \/ (kept[kind] = held[kind] /\ held[kind] # id)
  PROVE  Sound([records EXCEPT ![id] = goal], kept)
<1> DEFINE after == [records EXCEPT ![id] = goal]
<1>1. after \in [Goals -> GoalRecords]
      /\ \A other \in Goals : after[other] = IF other = id THEN goal ELSE records[other]
  BY DEF Sound
<1> HIDE DEF after
<1>2. \A other \in Goals : Honest(after[other])
  BY <1>1 DEF Sound
<1>3. ASSUME NEW kind \in Isaac!Kinds, kept[kind] # None
      PROVE  Waits(after[kept[kind]], kind)
  <2>1. kept[kind] = held[kind] /\ kept[kind] # id /\ kept[kind] \in Goals
    BY <1>3
  <2>2. Waits(records[kept[kind]], kind)
    BY <1>3, <2>1 DEF Sound
  <2>3. QED
    BY <1>1, <2>1, <2>2
<1>4. Sound(after, kept)
  BY <1>1, <1>2, <1>3 DEF Sound
<1>5. QED
  BY <1>4 DEF after

\* A goal that does not wait is in no slot.
LEMMA NotInSlot ==
  ASSUME NEW records, NEW held, Sound(records, held), NEW id \in Goals,
         records[id].pc # "wait" \/ records[id].finished
  PROVE  \A kind \in Isaac!Kinds : held[kind] # id
  BY NoneAssumption DEF Sound, Waits

\* A goal in a slot is in that of its own kind.
LEMMA OneSlot ==
  ASSUME NEW records, NEW held, Sound(records, held), NEW kind \in Isaac!Kinds,
         held[kind] # None
  PROVE  /\ held[kind] \in Goals /\ Waits(records[held[kind]], kind)
         /\ \A other \in Isaac!Kinds : other # kind => held[other] # held[kind]
  BY NoneAssumption DEF Sound, Waits

LEMMA EndedIsHonest ==
  ASSUME NEW goal \in GoalRecords, Honest(goal), goal.pc = "wait", NEW failed \in BOOLEAN
  PROVE  Isaac!Ended(goal, failed) \in GoalRecords /\ Honest(Isaac!Ended(goal, failed))
<1> DEFINE ended == Isaac!Ended(goal, failed)
<1>1. ended \in GoalRecords
  BY DEF Isaac!Ended, GoalRecords
<1>2. /\ ended.pc = "wait" /\ ended.kind = goal.kind
      /\ ended.answer = goal.answer /\ ended.settled = ~failed
      /\ ended.aborted = (goal.aborted \/ failed)
  BY DEF Isaac!Ended, GoalRecords
<1> HIDE DEF ended
<1>3. goal.answer # "succeeded"
  BY DEF Honest
<1>4. Honest(ended)
  BY <1>2, <1>3 DEF Honest
<1>5. QED
  BY <1>1, <1>4 DEF ended

\* Only the clients and the executor: a goal is sent, started, refused, answered or
\* cancelled.
LEMMA CallbacksKeepSound ==
  ASSUME Sound(goals, active), NEW id \in Goals,
         \/ Isaac!StartGoal(id) \/ Isaac!RefuseGoal(id) \/ Isaac!AnswerGoal(id)
         \/ Isaac!CancelGoal(id) \/ \E kind \in Isaac!Kinds : Isaac!SendGoal(id, kind)
  PROVE  Sound(goals', active')
<1>1. goals[id] \in GoalRecords /\ Honest(goals[id])
  BY DEF Sound
<1>2. ASSUME NEW goal \in GoalRecords, Honest(goal), goals' = [goals EXCEPT ![id] = goal],
             active' = active, goals[id].pc # "wait" \/ goals[id].finished
      PROVE  Sound(goals', active')
  <2> DEFINE kept == active
  <2>1. \A kind \in Isaac!Kinds : kept[kind] = active[kind] /\ active[kind] # id
    BY <1>2, NotInSlot
  <2>2. kept \in [Isaac!Kinds -> Goals \union {None}] /\ active' = kept
    BY <1>2 DEF Sound
  <2> HIDE DEF kept
  <2>3. Sound([goals EXCEPT ![id] = goal], kept)
    <3>1. goal \in GoalRecords /\ Honest(goal)
      BY <1>2
    <3>2. QED
      BY <2>1, <2>2, <3>1, GoalChanges
  <2>4. QED
    BY <1>2, <2>2, <2>3
<1>3. ASSUME NEW kind \in Isaac!Kinds, Isaac!SendGoal(id, kind) PROVE Sound(goals', active')
  <2> DEFINE goal == [goals[id] EXCEPT !.kind = kind, !.pc = "queued"]
  <2>1. /\ goals' = [goals EXCEPT ![id] = goal] /\ active' = active
        /\ goals[id].pc = "new"
    BY <1>3 DEF Isaac!SendGoal, Sound
  <2>2. goal \in GoalRecords
    BY <1>1 DEF GoalRecords
  <2>3. Honest(goal)
    BY <1>1, <2>1 DEF GoalRecords, Honest
  <2> HIDE DEF goal
  <2>4. QED
    BY <1>2, <2>1, <2>2, <2>3
<1>4. CASE Isaac!StartGoal(id)
  <2> DEFINE goal == [goals[id] EXCEPT !.pc = "read"]
  <2>1. /\ goals' = [goals EXCEPT ![id] = goal] /\ active' = active
        /\ goals[id].pc = "queued"
    BY <1>4 DEF Isaac!StartGoal, Sound
  <2>2. goal \in GoalRecords
    BY <1>1 DEF GoalRecords
  <2>3. Honest(goal)
    BY <1>1, <2>1 DEF GoalRecords, Honest
  <2> HIDE DEF goal
  <2>4. QED
    BY <1>2, <2>1, <2>2, <2>3
<1>5. CASE Isaac!RefuseGoal(id)
  <2> DEFINE goal == [goals[id] EXCEPT !.pc = "done", !.answer = "aborted"]
  <2>1. /\ goals' = [goals EXCEPT ![id] = goal] /\ active' = active
        /\ goals[id].pc = "queued"
    BY <1>5 DEF Isaac!RefuseGoal, Sound
  <2>2. goal \in GoalRecords
    BY <1>1 DEF GoalRecords
  <2>3. Honest(goal)
    BY <1>1, <2>1 DEF GoalRecords, Honest
  <2> HIDE DEF goal
  <2>4. QED
    BY <1>2, <2>1, <2>2, <2>3
<1>6. CASE Isaac!AnswerGoal(id)
  <2> DEFINE answer == Isaac!Answer(goals[id])
             zero == 0
             goal == [goals[id] EXCEPT !.pc = "done", !.answer = answer, !.age = zero,
                                       !.aborted = FALSE, !.finished = FALSE]
  <2>1. /\ goals' = [goals EXCEPT ![id] = goal] /\ active' = active
        /\ goals[id].pc = "wait" /\ goals[id].finished
    BY <1>6 DEF Isaac!AnswerGoal, Sound
  <2>2. /\ answer \in {"aborted", "succeeded"}
        /\ answer = "succeeded" => goals[id].settled
    BY <1>1, <2>1 DEF Isaac!Answer, Honest
  <2>3. zero \in Int
    OBVIOUS
  <2> HIDE DEF answer, zero
  <2>4. goal \in GoalRecords
    BY <1>1, <2>2, <2>3 DEF GoalRecords
  <2>5. Honest(goal)
    <3>1. /\ goal.pc = "done" /\ goal.kind = goals[id].kind /\ ~goal.finished
          /\ goal.answer = answer /\ goal.settled = goals[id].settled
      BY <1>1 DEF GoalRecords
    <3>2. QED
      BY <1>1, <2>1, <2>2, <3>1 DEF Honest
  <2> HIDE DEF goal
  <2>6. QED
    BY <1>2, <2>1, <2>4, <2>5
<1>7. CASE Isaac!CancelGoal(id)
  <2> DEFINE zero == 0
             goal == [goals[id] EXCEPT !.pc = "done", !.answer = "canceled", !.age = zero]
             kept == [kind \in Isaac!Kinds |-> IF active[kind] = id THEN None ELSE active[kind]]
  <2>1. /\ goals' = [goals EXCEPT ![id] = goal] /\ active' = kept
        /\ goals[id].pc = "wait" /\ ~goals[id].finished
    BY <1>7 DEF Isaac!CancelGoal, Sound
  <2>0. zero \in Int
    OBVIOUS
  <2> HIDE DEF zero
  <2>2. goal \in GoalRecords
    BY <1>1, <2>0 DEF GoalRecords
  <2>3. Honest(goal)
    <3>1. /\ goal.pc = "done" /\ goal.kind = goals[id].kind /\ goal.answer = "canceled"
          /\ goal.finished = goals[id].finished
      BY <1>1 DEF GoalRecords
    <3>2. QED
      BY <1>1, <2>1, <3>1 DEF Honest
  <2>4. /\ kept \in [Isaac!Kinds -> Goals \union {None}]
        /\ \A kind \in Isaac!Kinds :
               kept[kind] = None \/ (kept[kind] = active[kind] /\ active[kind] # id)
    BY DEF Sound
  <2> HIDE DEF goal, kept
  <2>5. Sound([goals EXCEPT ![id] = goal], kept)
    BY <2>2, <2>3, <2>4, GoalChanges
  <2>6. QED
    BY <2>1, <2>5
<1>8. QED
  BY <1>3, <1>4, <1>5, <1>6, <1>7

LEMMA InstallKeepsSound ==
  ASSUME Sound(goals, active), NEW id \in Goals, Isaac!Install(id)
  PROVE  Sound(goals', active')
<1> DEFINE kind == goals[id].kind
           old == active[kind]
           goal == [goals[id] EXCEPT !.pc = "wait"]
           started == [goals EXCEPT ![id] = goal]
           kept == [active EXCEPT ![kind] = None]
<1>1. goals[id] \in GoalRecords /\ Honest(goals[id]) /\ goals[id].pc = "read"
  BY DEF Sound, Isaac!Install
<1>2. /\ goals' = IF old = None THEN started
                  ELSE [started EXCEPT ![old] = Isaac!Ended(started[old], TRUE)]
      /\ active' = [active EXCEPT ![kind] = id]
  BY DEF Isaac!Install, Sound
<1>3. goal \in GoalRecords
  BY <1>1 DEF GoalRecords
<1>4. Honest(goal) /\ Waits(goal, kind)
  BY <1>1 DEF GoalRecords, Honest, Waits
<1>5. /\ \A other \in Isaac!Kinds : active[other] # id
      /\ kind \in Isaac!Kinds
  BY <1>1, NotInSlot DEF Honest
<1>6. /\ active \in [Isaac!Kinds -> Goals \union {None}]
      /\ started \in [Goals -> GoalRecords] /\ started[id] = goal
  BY <1>3 DEF Sound
<1>7. /\ kept \in [Isaac!Kinds -> Goals \union {None}]
      /\ \A other \in Isaac!Kinds : kept[other] = IF other = kind THEN None ELSE active[other]
  BY <1>6
<1> HIDE DEF kept, goal
<1>8. Sound(started, active)
  <2> DEFINE same == active
  <2>1. \A other \in Isaac!Kinds : same[other] = active[other] /\ active[other] # id
    BY <1>5
  <2>2. same \in [Isaac!Kinds -> Goals \union {None}]
    BY <1>6
  <2> HIDE DEF same
  <2>3. Sound([goals EXCEPT ![id] = goal], same)
    BY <1>3, <1>4, <2>1, <2>2, GoalChanges
  <2>4. QED
    BY <2>3 DEF same
<1>9. Sound(started, kept)
  <2>1. \A other \in Isaac!Kinds :
            kept[other] = None \/ (kept[other] = active[other] /\ active[other] # id)
    BY <1>5, <1>7
  <2>2. QED
    BY <1>3, <1>4, <1>7, <2>1, GoalChanges
<1> HIDE DEF started
<1>10. Sound(goals', kept) /\ goals'[id] = goal
  <2>1. CASE old = None
    BY <1>2, <1>6, <1>9, <2>1
  <2>2. CASE old # None
    <3>1. /\ old \in Goals /\ Waits(started[old], kind)
          /\ \A other \in Isaac!Kinds : other # kind => active[other] # old
      BY <1>5, <1>8, <2>2, OneSlot
    <3> DEFINE ended == Isaac!Ended(started[old], TRUE)
    <3>2. started[old] \in GoalRecords /\ Honest(started[old])
      BY <1>8, <3>1 DEF Sound
    <3>3. ended \in GoalRecords /\ Honest(ended)
      BY <3>1, <3>2, EndedIsHonest DEF Waits
    <3>4. goals' = [started EXCEPT ![old] = ended] /\ old # id
      BY <1>2, <1>5, <2>2
    <3> HIDE DEF ended
    <3>5. \A other \in Isaac!Kinds :
              kept[other] = None \/ (kept[other] = kept[other] /\ kept[other] # old)
      BY <1>7, <3>1, NoneAssumption
    <3>6. Sound([started EXCEPT ![old] = ended], kept)
      BY <1>7, <1>9, <3>1, <3>3, <3>5, GoalChanges
    <3>7. QED
      BY <1>6, <3>4, <3>6
  <2>3. QED
    BY <2>1, <2>2
<1>11. /\ active' \in [Isaac!Kinds -> Goals \union {None}]
       /\ \A other \in Isaac!Kinds : active'[other] = IF other = kind THEN id ELSE kept[other]
  BY <1>2, <1>6, <1>7
<1> HIDE DEF kind
<1>12. ASSUME NEW other \in Isaac!Kinds, active'[other] # None
       PROVE  Waits(goals'[active'[other]], other)
  <2>1. CASE other = kind
    BY <1>4, <1>10, <1>11, <2>1
  <2>2. CASE other # kind
    BY <1>10, <1>11, <1>12, <2>2 DEF Sound
  <2>3. QED
    BY <2>1, <2>2
<1>13. QED
  BY <1>10, <1>11, <1>12 DEF Sound

\* Growing older changes nothing that counts.
LEMMA AgedIsSound ==
  ASSUME Sound(goals, active) PROVE Sound(Isaac!Aged, active)
<1> DEFINE older(id) == [goals[id] EXCEPT !.age = @ + 1]
<1>1. ASSUME NEW id \in Goals
      PROVE  /\ older(id) \in GoalRecords
             /\ Honest(older(id))
             /\ \A kind \in Isaac!Kinds : Waits(goals[id], kind) => Waits(older(id), kind)
  <2>1. goals[id] \in GoalRecords /\ Honest(goals[id])
    BY DEF Sound
  <2>2. older(id) \in GoalRecords
    BY <2>1 DEF GoalRecords
  <2>3. /\ older(id).pc = goals[id].pc /\ older(id).finished = goals[id].finished
        /\ older(id).aborted = goals[id].aborted /\ older(id).settled = goals[id].settled
        /\ older(id).answer = goals[id].answer /\ older(id).kind = goals[id].kind
    BY <2>1 DEF GoalRecords
  <2> HIDE DEF older
  <2>4. QED
    BY <2>1, <2>2, <2>3 DEF Honest, Waits
<1> DEFINE aged == Isaac!Aged
<1>2. \A id \in Goals : aged[id] = older(id) \/ aged[id] = goals[id]
  BY DEF Isaac!Aged
<1>3. DOMAIN aged = Goals /\ aged = [id \in Goals |-> aged[id]]
  BY DEF Isaac!Aged
<1> HIDE DEF aged, older
<1>4. aged \in [Goals -> GoalRecords]
  BY <1>1, <1>2, <1>3 DEF Sound
<1>5. \A id \in Goals : Honest(aged[id])
  BY <1>1, <1>2 DEF Sound
<1>6. ASSUME NEW kind \in Isaac!Kinds, active[kind] # None
      PROVE  Waits(aged[active[kind]], kind)
  <2>1. active[kind] \in Goals /\ Waits(goals[active[kind]], kind)
    BY <1>6 DEF Sound
  <2>2. QED
    BY <1>1, <1>2, <2>1
<1>7. Sound(aged, active)
  BY <1>4, <1>5, <1>6 DEF Sound
<1>8. QED
  BY <1>7 DEF aged

LEMMA AdvanceKeepsSound ==
  ASSUME NEW base, Sound(base, active), NEW kind \in Isaac!Kinds, Isaac!Advance(kind, base)
  PROVE  Sound(goals', active')
<1> DEFINE id == active[kind]
<1>1. CASE goals' = base /\ active' = active
  BY <1>1
<1>2. ASSUME NEW failed \in BOOLEAN, id # None,
             goals' = [base EXCEPT ![id] = Isaac!Ended(base[id], failed)],
             active' = [active EXCEPT ![kind] = None]
      PROVE  Sound(goals', active')
  <2>1. /\ id \in Goals /\ Waits(base[id], kind)
        /\ \A other \in Isaac!Kinds : other # kind => active[other] # id
    BY <1>2, OneSlot
  <2> DEFINE ended == Isaac!Ended(base[id], failed)
             kept == [active EXCEPT ![kind] = None]
  <2>2. base[id] \in GoalRecords /\ Honest(base[id])
    BY <2>1 DEF Sound
  <2>3. ended \in GoalRecords /\ Honest(ended)
    BY <2>1, <2>2, EndedIsHonest DEF Waits
  <2>4. /\ kept \in [Isaac!Kinds -> Goals \union {None}]
        /\ \A other \in Isaac!Kinds :
               kept[other] = None \/ (kept[other] = active[other] /\ active[other] # id)
    BY <2>1 DEF Sound
  <2>5. goals' = [base EXCEPT ![id] = ended] /\ active' = kept
    BY <1>2
  <2> HIDE DEF ended, kept
  <2>6. Sound([base EXCEPT ![id] = ended], kept)
    BY <2>1, <2>3, <2>4, GoalChanges
  <2>7. QED
    BY <2>5, <2>6
<1>3. CASE id = None
  BY <1>1, <1>3 DEF Isaac!Advance
<1>4. CASE id # None
  <2>1. PICK outcome \in (IF v3 THEN {"failed"} ELSE Isaac!Outcomes(id)) :
            IF outcome = "moves" THEN goals' = base /\ UNCHANGED active
            ELSE /\ goals' = [base EXCEPT ![id] = Isaac!Ended(base[id], outcome = "failed")]
                 /\ active' = [active EXCEPT ![kind] = None]
    BY <1>4 DEF Isaac!Advance
  <2>2. (outcome = "failed") \in BOOLEAN
    OBVIOUS
  <2>3. QED
    BY <1>1, <1>2, <1>4, <2>1, <2>2
<1>5. QED
  BY <1>3, <1>4

\* The magnetic commands, and who lets go of a cube.
LEMMA UpdateKeepsCubes ==
  ASSUME CubesJoined, Isaac!UpdateCubes PROVE CubesJoined' /\ Isaac!HoldsCubes
<1>1. CASE cubes.commands = <<>>
  BY <1>1 DEF Isaac!UpdateCubes, Isaac!HoldsCubes, CubesJoined
<1>2. CASE cubes.commands # <<>>
  <2> DEFINE next == Head(cubes.commands)
             rest == [cubes EXCEPT !.commands = Tail(@)]
  <2>1. next \in CubeCommands /\ Tail(cubes.commands) \in Seq(CubeCommands)
    BY <1>2 DEF CubesJoined
  <2>2. cubes' \in IF next.command = "attach" THEN {rest, Isaac!Attached(rest, next.cube)}
                   ELSE {Isaac!Detached(rest, next.cube)}
    BY <1>2 DEF Isaac!UpdateCubes
  <2>3. /\ next.cube \in IsaacCubes /\ next.command \in {"attach", "detach"}
        /\ next = [command |-> next.command, cube |-> next.cube]
    BY <2>1 DEF CubeCommands
  <2> HIDE DEF next
  <2>4. /\ rest \in [commands : Seq(CubeCommands), attached : IsaacCubes \union {None},
                     joint : IsaacCubes \union {None}]
        /\ rest.attached = cubes.attached /\ rest.joint = cubes.attached
    BY <2>1 DEF CubesJoined
  <2> HIDE DEF rest
  <2>5. CASE cubes' = rest
    BY <2>4, <2>5 DEF CubesJoined, Isaac!HoldsCubes
  <2>6. CASE cubes' = Isaac!Attached(rest, next.cube)
    <3>1. cubes'.attached = next.cube /\ cubes'.joint = next.cube
          /\ cubes' \in [commands : Seq(CubeCommands), attached : IsaacCubes \union {None},
                         joint : IsaacCubes \union {None}]
      BY <2>3, <2>4, <2>6 DEF Isaac!Attached
    <3>2. next.cube # None
      BY <2>3, NoneAssumption
    <3>3. QED
      BY <3>1, <3>2 DEF CubesJoined, Isaac!HoldsCubes
  <2>7. CASE /\ next.command = "detach" /\ rest.attached = next.cube
             /\ cubes' = [rest EXCEPT !.attached = None, !.joint = None]
    <3>1. cubes'.attached = None /\ cubes'.joint = None
          /\ cubes' \in [commands : Seq(CubeCommands), attached : IsaacCubes \union {None},
                         joint : IsaacCubes \union {None}]
      BY <2>4, <2>7
    <3>2. Head(cubes.commands) = [command |-> "detach", cube |-> cubes.attached]
      BY <2>3, <2>4, <2>7 DEF next
    <3>3. QED
      BY <3>1, <3>2 DEF CubesJoined, Isaac!HoldsCubes
  <2>8. QED
    BY <2>2, <2>3, <2>5, <2>6, <2>7 DEF Isaac!Detached
<1>3. QED
  BY <1>1, <1>2

LEMMA CubeEventKeepsCubes ==
  ASSUME CubesJoined, NEW command \in {"attach", "detach"}, NEW cube \in IsaacCubes,
         Isaac!CubeEvent(command, cube)
  PROVE  CubesJoined' /\ cubes'.attached = cubes.attached
<1> DEFINE new == [command |-> command, cube |-> cube]
<1>1. cubes' = [cubes EXCEPT !.commands = Append(@, new)]
  BY DEF Isaac!CubeEvent
<1>2. Append(cubes.commands, new) \in Seq(CubeCommands)
  BY DEF CubesJoined, CubeCommands
<1> HIDE DEF new
<1>3. QED
  BY <1>1, <1>2 DEF CubesJoined

LEMMA IsaacInvKept ==
  ASSUME IsaacInv, [Isaac!Next]_(Isaac!vars) PROVE IsaacInv' /\ Isaac!HoldsCubes
<1>1. ASSUME Sound(goals', active'), cubes' = cubes PROVE IsaacInv' /\ Isaac!HoldsCubes
  BY <1>1 DEF IsaacInv, CubesJoined, Isaac!HoldsCubes
<1>2. ASSUME goals' = goals, active' = active, CubesJoined', Isaac!HoldsCubes
      PROVE  IsaacInv' /\ Isaac!HoldsCubes
  BY <1>2 DEF IsaacInv
<1>3. Sound(goals, active) /\ CubesJoined
  BY DEF IsaacInv
<1>4. ASSUME NEW id \in Goals,
             \/ Isaac!Callbacks(id) \/ Isaac!CancelGoal(id)
             \/ \E kind \in Isaac!Kinds : Isaac!SendGoal(id, kind)
      PROVE  IsaacInv' /\ Isaac!HoldsCubes
  <2>1. Sound(goals', active')
    BY <1>3, <1>4, CallbacksKeepSound, InstallKeepsSound DEF Isaac!Callbacks
  <2>2. cubes' = cubes
    BY <1>4 DEF Isaac!Callbacks, Isaac!CancelGoal, Isaac!SendGoal, Isaac!StartGoal,
       Isaac!RefuseGoal, Isaac!Install, Isaac!AnswerGoal
  <2>3. QED
    BY <1>1, <2>1, <2>2
<1>5. CASE Isaac!UpdateTrajectory
  <2>1. "trajectory" \in Isaac!Kinds
    BY DEF Isaac!Kinds
  <2>2. Isaac!Advance("trajectory", Isaac!Aged) /\ cubes' = cubes
    BY <1>5 DEF Isaac!UpdateTrajectory
  <2>3. Sound(goals', active')
    BY <1>3, <2>1, <2>2, AgedIsSound, AdvanceKeepsSound
  <2>4. QED
    BY <1>1, <2>2, <2>3
<1>6. CASE Isaac!UpdateGripper
  <2>1. "gripper" \in Isaac!Kinds
    BY DEF Isaac!Kinds
  <2>2. Isaac!Advance("gripper", goals) /\ cubes' = cubes
    BY <1>6 DEF Isaac!UpdateGripper
  <2>3. Sound(goals', active')
    BY <1>3, <2>1, <2>2, AdvanceKeepsSound
  <2>4. QED
    BY <1>1, <2>2, <2>3
<1>7. CASE Isaac!UpdateCubes
  BY <1>2, <1>3, <1>7, UpdateKeepsCubes DEF Isaac!UpdateCubes
<1>8. ASSUME NEW command \in {"attach", "detach"}, NEW cube \in IsaacCubes,
             Isaac!CubeEvent(command, cube)
      PROVE  IsaacInv' /\ Isaac!HoldsCubes
  <2>1. CubesJoined' /\ cubes'.attached = cubes.attached
    BY <1>3, <1>8, CubeEventKeepsCubes
  <2>2. Isaac!HoldsCubes
    BY <1>3, <2>1 DEF Isaac!HoldsCubes, CubesJoined
  <2>3. QED
    BY <1>2, <1>8, <2>1, <2>2 DEF Isaac!CubeEvent
<1>9. CASE \/ \E state \in {"SAFE", "PAUSE"} : Isaac!SafetyMessage(state)
           \/ Isaac!SafetyCallback \/ UNCHANGED Isaac!vars
  BY <1>1, <1>3, <1>9
     DEF Isaac!SafetyMessage, Isaac!SafetyCallback, Isaac!vars
<1>10. QED
  BY <1>4, <1>5, <1>6, <1>7, <1>8, <1>9 DEF Isaac!Next, Isaac!Simulation

-----------------------------------------------------------------------------
(* SortingTask.  Until a reset leaves calls behind, at most one call is    *)
(* out, and its kind says where the task stands; from the grasp to the     *)
(* bin the planning scene has the cube in the hand.                        *)

task == v1
job == v3
busy == v4
calls == v5
scene == v6
dead == v8
stale == v9
USE DEF task, job, busy, calls, scene, dead, stale

States == {"HOME", "SELECT_OBJECT", "PRE_GRASP", "GRASP", "LIFT", "TRANSIT", "PLACE",
           "RETREAT", "NEXT_OBJECT", "DONE"}
Jobs ==
    [cube : Int, selected : BOOLEAN, home : BOOLEAN, started : BOOLEAN, failures : Int,
     fatal : BOOLEAN, attempt : Int, assist : BOOLEAN, grasp : GraspModes,
     planner : PlannerModes]
Calls ==
    [kind : {"plan", "motion", "path", "close", "open", "reopen"},
     stage : {"sent", "running", "dropped"}, held : BOOLEAN, canceled : BOOLEAN]
Scenes == [world : SUBSET Int, attached : SUBSET Int]

\* What the kind of the call that is out says.
Suits(kind) ==
    /\ kind \in {"close", "reopen"} => task = "GRASP"
    /\ kind = "open" => task = "PLACE" /\ job.cube \in scene.attached
    /\ kind = "path" => job.planner = "dynamic"

Idle == ~busy /\ calls = <<>>
Waiting == busy /\ \E call \in Calls : calls = <<call>> /\ Suits(call.kind)
Carried == task \in {"LIFT", "TRANSIT", "PLACE"} => job.cube \in scene.attached

TaskInv ==
    ~stale =>
        /\ task \in States /\ job \in Jobs /\ scene \in Scenes
        /\ busy \in BOOLEAN
        /\ Idle \/ Waiting
        /\ ~dead => Carried

LEMMA TaskInvSays == TaskInv => Sorting!OneCallAtATime
<1> SUFFICES ASSUME TaskInv, ~stale
             PROVE  /\ Len(calls) = (IF busy THEN 1 ELSE 0)
                    /\ \A i \in DOMAIN calls :
                           calls[i].kind = "open" => job.cube \in scene.attached
  BY DEF Sorting!OneCallAtATime
<1>1. CASE Idle
  <2>1. Len(calls) = 0 /\ DOMAIN calls = {} /\ ~busy
    BY <1>1 DEF Idle
  <2>2. QED
    BY <2>1
<1>2. CASE Waiting
  <2>1. PICK call \in Calls : calls = <<call>> /\ Suits(call.kind)
    BY <1>2 DEF Waiting
  <2>2. Len(calls) = 1 /\ DOMAIN calls = {1} /\ calls[1] = call /\ busy
    BY <1>2, <2>1 DEF Waiting
  <2>3. QED
    BY <2>1, <2>2 DEF Suits
<1>3. QED
  BY <1>1, <1>2 DEF TaskInv

LEMMA TaskInvInit == Sorting!Init => TaskInv
<1> SUFFICES ASSUME Sorting!Init PROVE TaskInv
  OBVIOUS
<1>1. /\ task = "HOME" /\ busy = FALSE /\ calls = <<>>
      /\ scene = [world |-> 0 .. (NumCubes - 1), attached |-> {}]
  BY DEF Sorting!Init, Sorting!WorldCubes, Sorting!Cubes
<1>2. job \in Jobs
  <2>1. PICK g \in GraspModes, p \in PlannerModes :
            job = [cube |-> 0, selected |-> FALSE, home |-> FALSE, started |-> TRUE,
                   failures |-> 0, fatal |-> FALSE, attempt |-> 0, assist |-> FALSE,
                   grasp |-> g, planner |-> p]
    BY DEF Sorting!Init
  <2>2. QED
    BY <2>1 DEF Jobs
<1>3. scene \in Scenes
  BY <1>1, NumbersAssumption DEF Scenes
<1>4. QED
  BY <1>1, <1>2, <1>3 DEF TaskInv, Idle, Carried, States

\* The sequences of at most one call.
LEMMA NoneLeft ==
  ASSUME NEW call PROVE Sorting!Without(1) = <<>> \/ calls # <<call>>
<1> SUFFICES ASSUME calls = <<call>> PROVE Sorting!Without(1) = <<>>
  OBVIOUS
<1>1. SubSeq(calls, 1, 0) = <<>> /\ SubSeq(calls, 2, 1) = <<>>
  OBVIOUS
<1>2. Len(calls) = 1
  OBVIOUS
<1>3. QED
  BY <1>1, <1>2 DEF Sorting!Without, Sorting!RemoveAt

LEMMA OneElement == ASSUME NEW x PROVE [j \in {1} |-> x] = <<x>>
  OBVIOUS

LEMMA UnheldEmpty == ASSUME NEW kind PROVE Sorting!Unheld(<<>>, kind) = <<>>
  BY DEF Sorting!Unheld

LEMMA UnheldOne ==
  ASSUME NEW call \in Calls, NEW kind
  PROVE  \E other \in Calls :
             other.kind = call.kind /\ Sorting!Unheld(<<call>>, kind) = <<other>>
<1> DEFINE other == IF call.kind = kind THEN [call EXCEPT !.held = FALSE] ELSE call
<1>1. other \in Calls /\ other.kind = call.kind
  BY DEF Calls
<1>2. Sorting!Unheld(<<call>>, kind) = [j \in {1} |-> other]
  <2>1. DOMAIN <<call>> = {1} /\ <<call>>[1] = call
    OBVIOUS
  <2>2. Sorting!Unheld(<<call>>, kind)
            = [j \in {1} |-> IF <<call>>[j].kind = kind
                               THEN [<<call>>[j] EXCEPT !.held = FALSE] ELSE <<call>>[j]]
    BY <2>1 DEF Sorting!Unheld
  <2>3. QED
    BY <2>1, <2>2
<1> HIDE DEF other
<1>3. QED
  BY <1>1, <1>2, OneElement

LEMMA CanceledOne ==
  ASSUME NEW call \in Calls, calls = <<call>>
  PROVE  \E other \in Calls :
             other.kind = call.kind /\ Sorting!CanceledHandles = <<other>>
<1> DEFINE other == IF call.held THEN [call EXCEPT !.canceled = TRUE] ELSE call
<1>1. other \in Calls /\ other.kind = call.kind
  BY DEF Calls
<1>2. Sorting!CanceledHandles = [j \in {1} |-> other]
  <2>1. DOMAIN calls = {1} /\ calls[1] = call
    OBVIOUS
  <2>2. Sorting!CanceledHandles
            = [j \in {1} |-> IF calls[j].held THEN [calls[j] EXCEPT !.canceled = TRUE]
                               ELSE calls[j]]
    BY <2>1 DEF Sorting!CanceledHandles
  <2>3. QED
    BY <2>1, <2>2
<1> HIDE DEF other
<1>3. QED
  BY <1>1, <1>2, OneElement

LEMMA CanceledNone == calls = <<>> => Sorting!CanceledHandles = <<>>
  BY DEF Sorting!CanceledHandles

LEMMA CallOne ==
  ASSUME NEW kind \in {"plan", "motion", "path", "close", "open", "reopen"},
         Sorting!Call(kind, <<>>)
  PROVE  \E call \in Calls : calls' = <<call>> /\ call.kind = kind
<1> DEFINE call == [kind |-> kind, stage |-> "sent", held |-> FALSE, canceled |-> FALSE]
<1>1. calls' = <<call>>
  BY DEF Sorting!Call
<1>2. call \in Calls /\ call.kind = kind
  BY DEF Calls
<1>3. QED
  BY <1>1, <1>2

\* The order of the states: the cube is carried from the grasp on.
LEMMA FollowingCarries ==
  ASSUME task \in States
  PROVE  /\ Sorting!Following(task) \in States
         /\ Sorting!Following(task) \in {"LIFT", "TRANSIT", "PLACE"} =>
                task \in {"GRASP", "LIFT", "TRANSIT"}
<1>1. CASE task = "DONE"
  BY <1>1 DEF Sorting!Following, States
<1>2. CASE task # "DONE"
  <2> DEFINE Has(i) == Sorting!Sequence[i] = task
             n == CHOOSE i \in 1 .. 9 : Has(i)
  <2>1. \E i \in 1 .. 9 : Has(i)
    BY <1>2 DEF States, Sorting!Sequence
  <2>2. n \in 1 .. 9 /\ Has(n)
    <3> HIDE DEF Has
    <3> QED
      BY <2>1
  <2>3. Sorting!Following(task) = Sorting!Sequence[1 + n]
    BY <1>2 DEF Sorting!Following
  <2> HIDE DEF n
  <2>4. n = 1 \/ n = 2 \/ n = 3 \/ n = 4 \/ n = 5 \/ n = 6 \/ n = 7 \/ n = 8 \/ n = 9
    BY <2>2
  <2>5. QED
    BY <2>2, <2>3, <2>4 DEF Sorting!Sequence, States
<1>3. QED
  BY <1>1, <1>2

\* A step that leaves the task, the cube and the scene alone, whatever call goes out
\* or comes back.
LEMMA TaskStays ==
  ASSUME TaskInv, ~stale, ~dead, task' = task, scene' = scene, job' \in Jobs,
         job'.cube = job.cube, busy' \in BOOLEAN, Idle' \/ Waiting'
  PROVE  TaskInv'
  BY DEF TaskInv, Carried

\* A call that goes out is waited for.
LEMMA CallIsAwaited ==
  ASSUME NEW kind \in {"plan", "motion", "path", "close", "open", "reopen"},
         Sorting!Call(kind, <<>>), busy' = TRUE, Suits(kind)'
  PROVE  Waiting'
<1>1. PICK call \in Calls : calls' = <<call>> /\ call.kind = kind
  BY CallOne
<1>2. QED
  BY <1>1 DEF Waiting

\* A call to the gripper goes out, or its server is not there.
LEMMA GripperIsAwaited ==
  ASSUME NEW kind \in {"close", "open", "reopen"}, Sorting!Gripper(kind, <<>>), Suits(kind)'
  PROVE  busy' \in BOOLEAN /\ (Idle' \/ Waiting')
<1>1. CASE busy' = TRUE /\ Sorting!Call(kind, <<>>)
  BY <1>1, CallIsAwaited
<1>2. CASE busy' = FALSE /\ calls' = <<>>
  BY <1>2 DEF Idle
<1>3. QED
  BY <1>1, <1>2 DEF Sorting!Gripper

\* The job's record: what is changed of it leaves its cube.
LEMMA JobChanges ==
  ASSUME job \in Jobs
  PROVE  /\ \A b \in BOOLEAN :
                /\ [job EXCEPT !.assist = b] \in Jobs /\ [job EXCEPT !.assist = b].cube = job.cube
                /\ [job EXCEPT !.fatal = b] \in Jobs /\ [job EXCEPT !.fatal = b].cube = job.cube
         /\ \A n \in Int :
                /\ [job EXCEPT !.failures = n] \in Jobs
                /\ [job EXCEPT !.failures = n].cube = job.cube
                /\ [job EXCEPT !.attempt = n] \in Jobs
                /\ [job EXCEPT !.attempt = n].cube = job.cube
                /\ \A b \in BOOLEAN :
                       /\ [job EXCEPT !.failures = n, !.fatal = b] \in Jobs
                       /\ [job EXCEPT !.failures = n, !.fatal = b].cube = job.cube
                /\ \A m \in Int :
                       /\ [job EXCEPT !.attempt = m, !.failures = n] \in Jobs
                       /\ [job EXCEPT !.attempt = m, !.failures = n].cube = job.cube
         /\ job.cube \in Int /\ job.failures \in Int /\ job.attempt \in Int
  BY DEF Jobs

LEMMA FailureKeepsCube ==
  ASSUME job \in Jobs, Sorting!RecordFailure PROVE job' \in Jobs /\ job'.cube = job.cube
<1> DEFINE more == job.failures + 1
           enough == job.failures + 1 >= MaxReplans
<1>1. more \in Int
  BY DEF Jobs
<1>2. enough \in BOOLEAN
  <2>1. (enough = TRUE) \/ (enough = FALSE)
    BY <1>1, NumbersAssumption
  <2>2. QED
    BY <2>1
<1>3. job' = [job EXCEPT !.failures = more, !.fatal = enough]
  BY DEF Sorting!RecordFailure, Jobs
<1> HIDE DEF more, enough
<1>4. QED
  BY <1>1, <1>2, <1>3, JobChanges

-----------------------------------------------------------------------------
(* SortingTask: the timer's steps.                                         *)

LEMMA TimerKeepsTask ==
  ASSUME TaskInv, ~stale, Sorting!SendMotion \/ Sorting!Select \/ Sorting!NextObject
  PROVE  TaskInv'
<1>1. /\ Idle /\ busy \in BOOLEAN /\ ~dead /\ Carried
      /\ task \in States /\ job \in Jobs /\ scene \in Scenes
  BY DEF TaskInv, Waiting, Sorting!SendMotion, Sorting!Select, Sorting!NextObject,
     Sorting!Ready
<1>2. CASE Sorting!SendMotion
  <2>1. /\ scene' = IF task = "GRASP" THEN Sorting!RemoveWorldCube ELSE scene
        /\ UNCHANGED <<task, job, dead, stale>>
    BY <1>2 DEF Sorting!SendMotion
  <2>2. scene' \in Scenes /\ scene'.attached = scene.attached
    BY <1>1, <2>1 DEF Sorting!RemoveWorldCube, Scenes
  <2>3. busy' \in BOOLEAN /\ (Idle' \/ Waiting')
    <3>1. CASE busy' = TRUE /\ Sorting!Call("plan", calls)
      <4>1. Suits("plan")'
        BY DEF Suits
      <4>2. calls = <<>>
        BY <1>1 DEF Idle
      <4>3. QED
        BY <3>1, <4>1, <4>2, CallIsAwaited
    <3>2. CASE UNCHANGED <<busy, calls>>
      BY <1>1, <3>2 DEF Idle
    <3>3. QED
      BY <1>2, <3>1, <3>2 DEF Sorting!SendMotion
  <2>4. QED
    BY <1>1, <2>1, <2>2, <2>3 DEF TaskInv, Carried
<1>3. CASE Sorting!Select
  <2>1. /\ task' \in {"PRE_GRASP", "DONE"} /\ UNCHANGED <<job, busy, calls, scene, dead, stale>>
    BY <1>3 DEF Sorting!Select
  <2>2. QED
    BY <1>1, <2>1 DEF TaskInv, Carried, Idle, States
<1>4. CASE Sorting!NextObject
  <2>1. /\ task' \in {"DONE", "SELECT_OBJECT"} /\ UNCHANGED <<busy, calls, scene, dead, stale>>
        /\ job' = [job EXCEPT !.started = FALSE] \/ job' = [job EXCEPT !.cube = @ + 1]
    BY <1>4 DEF Sorting!NextObject
  <2>2. job' \in Jobs
    <3>1. CASE job' = [job EXCEPT !.started = FALSE]
      BY <1>1, <3>1 DEF Jobs
    <3>2. CASE job' = [job EXCEPT !.cube = @ + 1]
      <4> DEFINE next == job.cube + 1
      <4>1. next \in Int /\ job' = [job EXCEPT !.cube = next]
        BY <1>1, <3>2 DEF Jobs
      <4> HIDE DEF next
      <4>2. QED
        BY <1>1, <4>1 DEF Jobs
    <3>3. QED
      BY <2>1, <3>1, <3>2
  <2>3. QED
    BY <1>1, <2>1, <2>2 DEF TaskInv, Carried, Idle, States
<1>5. QED
  BY <1>2, <1>3, <1>4

-----------------------------------------------------------------------------
(* SortingTask: the answers.  There is one call out, the answered one.     *)

LEMMA PlanAnswersKeepTask ==
  ASSUME TaskInv, ~stale, ~dead, NEW call \in Calls, busy, calls = <<call>>, Suits(call.kind),
         Sorting!Answered(1) \/ Sorting!PlanResult(1) \/ Sorting!PathComes(1)
  PROVE  TaskInv'
<1>1. job \in Jobs /\ calls[1] = call
  BY DEF TaskInv
<1>2. Sorting!Without(1) = <<>>
  BY NoneLeft
<1>3. task' = task /\ scene' = scene
  BY DEF Sorting!Answered, Sorting!PlanResult, Sorting!PathComes
<1>4. ASSUME busy' = FALSE, calls' = <<>>, job' = job \/ Sorting!RecordFailure
      PROVE  TaskInv'
  <2>1. job' \in Jobs /\ job'.cube = job.cube
    BY <1>1, <1>4, FailureKeepsCube
  <2>2. Idle'
    BY <1>4 DEF Idle
  <2>3. QED
    BY <1>3, <1>4, <2>1, <2>2, TaskStays
<1>5. ASSUME NEW other \in Calls, calls' = <<other>>, busy' = busy, job' = job, Suits(other.kind)'
      PROVE  TaskInv'
  <2>1. Waiting'
    BY <1>5 DEF Waiting
  <2>2. QED
    BY <1>1, <1>3, <1>5, <2>1, TaskStays
<1>6. ASSUME NEW kind \in {"path", "motion"}, Sorting!Call(kind, <<>>), busy' = busy, job' = job,
             kind = "path" => job.planner = "dynamic"
      PROVE  TaskInv'
  <2>1. PICK other \in Calls : calls' = <<other>> /\ other.kind = kind
    BY <1>6, CallOne
  <2>2. Suits(other.kind)'
    BY <1>6, <2>1 DEF Suits
  <2>3. QED
    BY <1>5, <1>6, <2>1, <2>2
<1>7. ASSUME Sorting!Execute(<<>>), job' = job PROVE TaskInv'
  BY <1>4, <1>6, <1>7 DEF Sorting!Execute
<1>8. CASE Sorting!Answered(1)
  <2>1. CASE /\ UNCHANGED <<job, busy>>
             /\ calls' = [Sorting!Unheld(calls, calls[1].kind)
                            EXCEPT ![1].stage = "running", ![1].held = TRUE]
    <3>1. PICK other \in Calls : /\ other.kind = call.kind
                                 /\ Sorting!Unheld(calls, call.kind) = <<other>>
      BY UnheldOne
    <3> DEFINE taken == [other EXCEPT !.stage = "running", !.held = TRUE]
    <3>2. taken \in Calls /\ taken.kind = call.kind
      BY <3>1 DEF Calls
    <3>3. calls' = [j \in {1} |-> taken]
      <4>1. /\ DOMAIN <<other>> = {1} /\ <<other>>[1] = other
            /\ calls' = [<<other>> EXCEPT ![1].stage = "running", ![1].held = TRUE]
        BY <1>1, <2>1, <3>1
      <4>2. calls' = [<<other>> EXCEPT ![1] = taken]
        BY <4>1
      <4> HIDE DEF taken
      <4>3. QED
        BY <4>1, <4>2
    <3> HIDE DEF taken
    <3>4. calls' = <<taken>>
      BY <3>3, OneElement
    <3>5. call.kind \in {"plan", "motion"}
      BY <1>1, <1>8 DEF Sorting!Answered
    <3>6. Suits(taken.kind)'
      BY <3>2, <3>5 DEF Suits
    <3>7. QED
      BY <1>5, <2>1, <3>2, <3>4, <3>6
  <2>2. CASE /\ busy' = FALSE /\ calls' = Sorting!Without(1)
             /\ IF calls[1].kind = "plan" THEN Sorting!RecordFailure
                ELSE Sorting!SetSafety("REPLAN") /\ UNCHANGED job
    BY <1>2, <1>4, <2>2
  <2>3. QED
    BY <1>8, <2>1, <2>2 DEF Sorting!Answered
<1>9. CASE Sorting!PlanResult(1)
  <2>1. Sorting!Unheld(Sorting!Without(1), "plan") = <<>>
    BY <1>2, UnheldEmpty
  <2>2. CASE Sorting!PlanComes(1) /\ UNCHANGED job
    <3>1. CASE calls' = <<>> /\ busy' = FALSE
      BY <1>4, <2>2, <3>1
    <3>2. CASE Sorting!SendTrajectory(<<>>)
      <4>1. CASE job.planner = "dynamic" /\ Sorting!Call("path", <<>>) /\ UNCHANGED busy
        BY <1>6, <2>2, <4>1
      <4>2. CASE Sorting!Execute(<<>>)
        BY <1>7, <2>2, <4>2
      <4>3. CASE calls' = <<>> /\ busy' = FALSE
        BY <1>4, <2>2, <4>3
      <4>4. QED
        BY <3>2, <4>1, <4>2, <4>3 DEF Sorting!SendTrajectory
    <3>3. QED
      BY <2>1, <2>2, <3>1, <3>2 DEF Sorting!PlanComes
  <2>3. CASE /\ busy' = FALSE /\ calls' = Sorting!Unheld(Sorting!Without(1), "plan")
             /\ Sorting!RecordFailure
    BY <1>4, <2>1, <2>3
  <2>4. QED
    BY <1>9, <2>2, <2>3 DEF Sorting!PlanResult
<1>10. CASE Sorting!PathComes(1)
  <2>1. job' = job /\ call.kind = "path" /\ job.planner = "dynamic"
    BY <1>1, <1>10 DEF Sorting!PathComes, Suits
  <2>2. CASE Sorting!Execute(<<>>)
    BY <1>7, <2>1, <2>2
  <2>3. CASE UNCHANGED busy /\ calls' = [calls EXCEPT ![1].stage = "dropped"]
    <3> DEFINE lost == [call EXCEPT !.stage = "dropped"]
    <3>1. lost \in Calls /\ lost.kind = "path"
      BY <2>1 DEF Calls
    <3>2. calls' = [j \in {1} |-> lost]
      <4>1. DOMAIN <<call>> = {1} /\ <<call>>[1] = call
        OBVIOUS
      <4>2. calls' = [<<call>> EXCEPT ![1] = lost]
        BY <2>3, <4>1
      <4> HIDE DEF lost
      <4>3. QED
        BY <4>1, <4>2
    <3> HIDE DEF lost
    <3>3. calls' = <<lost>> /\ Suits(lost.kind)'
      BY <2>1, <3>1, <3>2, OneElement DEF Suits
    <3>4. QED
      BY <1>5, <2>1, <2>3, <3>1, <3>3
  <2>4. QED
    BY <1>2, <1>10, <2>1, <2>2, <2>3 DEF Sorting!PathComes
<1>11. QED
  BY <1>8, <1>9, <1>10

LEMMA AdvanceKeepsTask ==
  ASSUME TaskInv, ~stale, ~dead, Sorting!Advance, busy' = FALSE, calls' = <<>>,
         job' \in Jobs, job'.cube = job.cube, scene' \in Scenes,
         \/ scene'.attached = scene.attached /\ task \notin {"GRASP", "PLACE"}
         \/ scene'.attached = scene.attached \union {job.cube}
         \/ task = "PLACE"
  PROVE  TaskInv'
<1>1. task \in States /\ Carried
  BY DEF TaskInv
<1>2. task' \in States
  BY <1>1, FollowingCarries DEF Sorting!Advance
<1>3. ASSUME ~dead' PROVE Carried'
  <2>1. task' = Sorting!Following(task)
    BY <1>3 DEF Sorting!Advance
  <2>2. task' \in {"LIFT", "TRANSIT", "PLACE"} => task \in {"GRASP", "LIFT", "TRANSIT"}
    BY <1>1, <2>1, FollowingCarries
  <2>3. QED
    BY <1>1, <2>2 DEF Carried
<1>4. QED
  BY <1>2, <1>3 DEF TaskInv, Idle

LEMMA MotionResultKeepsTask ==
  ASSUME TaskInv, ~stale, ~dead, NEW call \in Calls, busy, calls = <<call>>,
         Sorting!MotionResult(1)
  PROVE  TaskInv'
<1>1. job \in Jobs /\ scene \in Scenes /\ task \in States /\ Carried
  BY DEF TaskInv
<1>2. Sorting!Unheld(Sorting!Without(1), "motion") = <<>>
  BY NoneLeft, UnheldEmpty
<1>3. 0 \in Int /\ 1 \in Int /\ FALSE \in BOOLEAN
  OBVIOUS
<1>4. CASE Sorting!MotionComplete(<<>>)
  <2>1. CASE /\ busy' = FALSE /\ calls' = <<>> /\ UNCHANGED <<task, scene>>
             /\ job' = [job EXCEPT !.home = FALSE, !.started = FALSE, !.failures = 0]
    <3>1. job' \in Jobs /\ job'.cube = job.cube
      <4> DEFINE zero == 0
      <4>1. /\ zero \in Int
            /\ job' = [job EXCEPT !.home = FALSE, !.started = FALSE, !.failures = zero]
        BY <2>1
      <4> HIDE DEF zero
      <4>2. QED
        BY <1>1, <4>1 DEF Jobs
    <3>2. Idle'
      BY <2>1 DEF Idle
    <3>3. QED
      BY <2>1, <3>1, <3>2, TaskStays
  <2>2. CASE /\ task = "GRASP" /\ Sorting!Gripper("close", <<>>) /\ UNCHANGED <<task, scene>>
             /\ job' = [job EXCEPT !.attempt = 1, !.failures = 0]
    <3>1. job' \in Jobs /\ job'.cube = job.cube
      BY <1>1, <1>3, <2>2, JobChanges
    <3>2. Suits("close")'
      BY <2>2 DEF Suits
    <3>3. QED
      BY <2>2, <3>1, <3>2, GripperIsAwaited, TaskStays
  <2>3. CASE /\ task = "PLACE" /\ Sorting!Gripper("open", <<>>) /\ UNCHANGED <<task, scene>>
             /\ job' = [job EXCEPT !.failures = 0]
    <3>1. job' \in Jobs /\ job'.cube = job.cube
      BY <1>1, <1>3, <2>3, JobChanges
    <3>2. Suits("open")'
      BY <1>1, <2>3, <3>1 DEF Suits, Carried
    <3>3. QED
      BY <2>3, <3>1, <3>2, GripperIsAwaited, TaskStays
  <2>4. CASE /\ task \notin {"GRASP", "PLACE"} /\ busy' = FALSE /\ calls' = <<>>
             /\ job' = [job EXCEPT !.failures = 0]
             /\ scene' = IF task = "RETREAT" /\ job.cube \in Sorting!Cubes
                         THEN Sorting!AddPlacedCube ELSE scene
             /\ Sorting!Advance
    <3>1. job' \in Jobs /\ job'.cube = job.cube /\ job.cube \in Int
      BY <1>1, <1>3, <2>4, JobChanges
    <3>2. scene' \in Scenes /\ scene'.attached = scene.attached
      BY <1>1, <2>4, <3>1 DEF Scenes, Sorting!AddPlacedCube
    <3>3. QED
      BY <2>4, <3>1, <3>2, AdvanceKeepsTask
  <2>5. QED
    BY <1>4, <2>1, <2>2, <2>3, <2>4 DEF Sorting!MotionComplete
<1>5. CASE /\ busy' = FALSE /\ calls' = <<>> /\ UNCHANGED <<task, scene>>
           /\ job' = job \/ Sorting!RecordFailure
  <2>1. job' \in Jobs /\ job'.cube = job.cube
    BY <1>1, <1>5, FailureKeepsCube
  <2>2. Idle'
    BY <1>5 DEF Idle
  <2>3. QED
    BY <1>5, <2>1, <2>2, TaskStays
<1>6. QED
  BY <1>2, <1>4, <1>5 DEF Sorting!MotionResult

LEMMA GripperResultKeepsTask ==
  ASSUME TaskInv, ~stale, ~dead, NEW call \in Calls, busy, calls = <<call>>, Suits(call.kind),
         Sorting!GripperResult(1)
  PROVE  TaskInv'
<1>1. job \in Jobs /\ scene \in Scenes /\ task \in States /\ calls[1] = call
  BY DEF TaskInv
<1>2. Sorting!Without(1) = <<>>
  BY NoneLeft
<1>3. ASSUME busy' = FALSE, calls' = <<>>, UNCHANGED <<task, scene>>,
             job' = job \/ job' = [job EXCEPT !.fatal = TRUE]
      PROVE  TaskInv'
  <2>1. job' \in Jobs /\ job'.cube = job.cube
    BY <1>1, <1>3, JobChanges
  <2>2. Idle'
    BY <1>3 DEF Idle
  <2>3. QED
    BY <1>3, <2>1, <2>2, TaskStays
<1>4. ASSUME NEW kind \in {"close", "reopen"}, Sorting!Gripper(kind, <<>>), task = "GRASP",
             UNCHANGED <<task, scene>>, job' = job \/ job' = [job EXCEPT !.attempt = @ + 1]
      PROVE  TaskInv'
  <2>1. job' \in Jobs /\ job'.cube = job.cube
    BY <1>1, <1>4 DEF Jobs
  <2>2. Suits(kind)'
    BY <1>4 DEF Suits
  <2>3. QED
    BY <1>4, <2>1, <2>2, GripperIsAwaited, TaskStays
<1>5. ASSUME NEW assist \in BOOLEAN, Sorting!CompleteGrasp(assist, <<>>) PROVE TaskInv'
  <2>1. /\ busy' = FALSE /\ calls' = <<>> /\ scene' = Sorting!AttachCube
        /\ job' = [job EXCEPT !.assist = assist] /\ Sorting!Advance
    BY <1>5 DEF Sorting!CompleteGrasp
  <2>2. job' \in Jobs /\ job'.cube = job.cube /\ job.cube \in Int
    BY <1>1, <2>1, JobChanges
  <2>3. scene' \in Scenes /\ scene'.attached = scene.attached \union {job.cube}
    BY <1>1, <2>1, <2>2 DEF Scenes, Sorting!AttachCube
  <2>4. QED
    BY <2>1, <2>2, <2>3, AdvanceKeepsTask
<1>6. CASE call.kind = "close" /\ Sorting!ClosedGripper(<<>>)
  <2>1. task = "GRASP"
    BY <1>6 DEF Suits
  <2>2. CASE job.attempt < 1
    BY <1>3, <1>6, <2>2 DEF Sorting!ClosedGripper
  <2>3. CASE /\ Sorting!Gripper("reopen", <<>>) /\ UNCHANGED <<task, job, scene>>
    BY <1>4, <2>1, <2>3
  <2>4. CASE /\ busy' = FALSE /\ calls' = <<>> /\ UNCHANGED <<task, scene>>
             /\ job' = [job EXCEPT !.fatal = TRUE]
    BY <1>3, <2>4
  <2>5. CASE Sorting!CompleteGrasp(TRUE, <<>>) \/ Sorting!CompleteGrasp(FALSE, <<>>)
    BY <1>5, <2>5
  <2>6. QED
    BY <1>6, <2>2, <2>3, <2>4, <2>5 DEF Sorting!ClosedGripper
<1>7. CASE /\ call.kind = "reopen" /\ Sorting!Gripper("close", <<>>)
           /\ job' = [job EXCEPT !.attempt = @ + 1] /\ UNCHANGED <<task, scene>>
  <2>1. task = "GRASP"
    BY <1>7 DEF Suits
  <2>2. QED
    BY <1>4, <1>7, <2>1
<1>8. CASE /\ call.kind = "open" /\ busy' = FALSE /\ calls' = <<>>
           /\ scene' = Sorting!DetachCube /\ job' = [job EXCEPT !.assist = FALSE]
           /\ Sorting!Advance
  <2>1. task = "PLACE"
    BY <1>8 DEF Suits
  <2>2. job' \in Jobs /\ job'.cube = job.cube
    BY <1>1, <1>8, JobChanges
  <2>3. scene' \in Scenes
    BY <1>1, <1>8 DEF Scenes, Sorting!DetachCube
  <2>4. QED
    BY <1>8, <2>1, <2>2, <2>3, AdvanceKeepsTask
<1>9. CASE busy' = FALSE /\ calls' = <<>> /\ UNCHANGED <<task, job, scene>>
  BY <1>3, <1>9
<1>10. QED
  BY <1>1, <1>2, <1>6, <1>7, <1>8, <1>9 DEF Sorting!GripperResult


-----------------------------------------------------------------------------
(* SortingTask: every step.                                                *)

LEMMA StaleStays ==
  ASSUME Sorting!Next, stale PROVE stale'
<1>1. CASE Sorting!SendMotion \/ Sorting!Select \/ Sorting!NextObject
  BY <1>1 DEF Sorting!SendMotion, Sorting!Select, Sorting!NextObject
<1>2. CASE Sorting!Answer
  BY <1>2 DEF Sorting!Answer, Sorting!Answered, Sorting!PlanResult, Sorting!PathComes,
     Sorting!MotionResult, Sorting!MotionComplete, Sorting!GripperResult
<1>3. CASE Sorting!SafetyAgain \/ Sorting!SafetyWorse \/ Sorting!SafetyBetter
  BY <1>3
     DEF Sorting!SafetyAgain, Sorting!SafetyWorse, Sorting!SafetyBetter, Sorting!OnSafety
<1>4. CASE Sorting!OnCommand
  BY <1>4 DEF Sorting!OnCommand, Sorting!Start, Sorting!Home, Sorting!PauseTask,
     Sorting!ResumeTask, Sorting!Reset, Sorting!ChangeModes, Sorting!Pick
<1>5. QED
  BY <1>1, <1>2, <1>3, <1>4 DEF Sorting!Next

LEMMA AnswerKeepsTask ==
  ASSUME TaskInv, ~stale, Sorting!Answer PROVE TaskInv'
<1>1. PICK i \in DOMAIN calls :
          \/ Sorting!Answered(i) \/ Sorting!PlanResult(i) \/ Sorting!PathComes(i)
          \/ Sorting!MotionResult(i) \/ Sorting!GripperResult(i)
  BY DEF Sorting!Answer
<1>2. Waiting
  BY <1>1 DEF TaskInv, Idle
<1>3. PICK call \in Calls : calls = <<call>> /\ Suits(call.kind)
  BY <1>2 DEF Waiting
<1>4. i = 1 /\ busy /\ ~dead
  BY <1>1, <1>2, <1>3 DEF Waiting, Sorting!Answer
<1>5. QED
  BY <1>1, <1>3, <1>4, PlanAnswersKeepTask, MotionResultKeepsTask, GripperResultKeepsTask

\* The handles are cancelled: what is waited for stays so.
LEMMA CancelKeepsWaiting ==
  ASSUME Idle \/ Waiting, calls' = Sorting!CanceledHandles, busy' = busy,
         UNCHANGED <<task, job, scene>>
  PROVE  Idle' \/ Waiting'
<1>1. CASE Idle
  BY <1>1, CanceledNone DEF Idle
<1>2. CASE Waiting
  <2>1. PICK call \in Calls : calls = <<call>> /\ Suits(call.kind)
    BY <1>2 DEF Waiting
  <2>2. PICK other \in Calls : other.kind = call.kind /\ calls' = <<other>>
    BY <2>1, CanceledOne
  <2>3. Suits(other.kind)'
    BY <2>1, <2>2 DEF Suits
  <2>4. QED
    BY <1>2, <2>2, <2>3 DEF Waiting
<1>3. QED
  BY <1>1, <1>2

LEMMA SafetyKeepsTask ==
  ASSUME TaskInv, ~stale,
         Sorting!SafetyAgain \/ Sorting!SafetyWorse \/ Sorting!SafetyBetter
  PROVE  TaskInv'
<1>1. /\ UNCHANGED <<task, job, busy, scene, stale>> /\ ~dead
      /\ calls' = Sorting!CanceledHandles \/ calls' = calls
  BY DEF Sorting!SafetyAgain, Sorting!SafetyWorse, Sorting!SafetyBetter, Sorting!OnSafety
<1>2. job \in Jobs /\ busy \in BOOLEAN /\ (Idle \/ Waiting)
  BY DEF TaskInv
<1>3. Idle' \/ Waiting'
  <2>1. CASE calls' = calls
    BY <1>1, <1>2, <2>1 DEF Idle, Waiting, Suits
  <2>2. CASE calls' = Sorting!CanceledHandles
    BY <1>1, <1>2, <2>2, CancelKeepsWaiting
  <2>3. QED
    BY <1>1, <2>1, <2>2
<1>4. QED
  BY <1>1, <1>2, <1>3, TaskStays

\* What a command makes of the job.
LEMMA CommandedJobs ==
  ASSUME job \in Jobs
  PROVE  /\ Sorting!Start => job' \in Jobs /\ job'.cube = job.cube
                             /\ job'.planner = job.planner
         /\ Sorting!Home => job' \in Jobs
         /\ \A cube \in Int : Sorting!Pick(cube) => job' \in Jobs
         /\ Sorting!Reset => job' \in Jobs
         /\ Sorting!ChangeModes => job' \in Jobs /\ job'.cube = job.cube
<1> DEFINE zero == 0
<1>1. zero \in Int /\ zero = 0
  OBVIOUS
<1> HIDE DEF zero
<1>2. Sorting!Start => job' \in Jobs /\ job'.cube = job.cube /\ job'.planner = job.planner
  BY DEF Sorting!Start, Jobs
<1>3. ASSUME Sorting!Home PROVE job' \in Jobs
  <2>1. job' = [job EXCEPT !.selected = FALSE, !.home = TRUE, !.failures = zero,
                           !.fatal = FALSE, !.started = TRUE]
    BY <1>1, <1>3 DEF Sorting!Home
  <2>2. QED
    BY <1>1, <2>1 DEF Jobs
<1>4. ASSUME NEW cube \in Int, Sorting!Pick(cube) PROVE job' \in Jobs
  <2>1. job' = [job EXCEPT !.cube = cube, !.selected = TRUE, !.home = FALSE,
                           !.failures = zero, !.fatal = FALSE, !.attempt = zero,
                           !.assist = FALSE, !.started = TRUE]
    BY <1>1, <1>4 DEF Sorting!Pick
  <2>2. QED
    BY <1>1, <2>1 DEF Jobs
<1>5. ASSUME Sorting!Reset PROVE job' \in Jobs
  <2>1. job' = [job EXCEPT !.cube = zero, !.selected = FALSE, !.home = FALSE,
                           !.failures = zero, !.fatal = FALSE, !.attempt = zero,
                           !.assist = FALSE, !.started = FALSE]
    BY <1>1, <1>5 DEF Sorting!Reset
  <2>2. QED
    BY <1>1, <2>1 DEF Jobs
<1>6. Sorting!ChangeModes => job' \in Jobs /\ job'.cube = job.cube
  BY DEF Sorting!ChangeModes, Jobs
<1>7. QED
  BY <1>2, <1>3, <1>4, <1>5, <1>6

LEMMA CommandKeepsTask ==
  ASSUME TaskInv, ~stale, Sorting!OnCommand PROVE TaskInv'
<1>1. /\ task \in States /\ job \in Jobs /\ scene \in Scenes /\ busy \in BOOLEAN
      /\ Idle \/ Waiting
      /\ ~dead /\ Carried /\ UNCHANGED <<scene, dead>>
  BY DEF TaskInv, Sorting!OnCommand
<1>2. "HOME" \in States /\ "HOME" \notin {"LIFT", "TRANSIT", "PLACE"}
  BY DEF States
<1>3. CASE Sorting!Start
  <2>1. /\ job' \in Jobs /\ job'.cube = job.cube /\ job'.planner = job.planner
        /\ UNCHANGED <<task, busy, calls, stale>>
    BY <1>1, <1>3, CommandedJobs DEF Sorting!Start
  <2>2. Idle' \/ Waiting'
    BY <1>1, <2>1 DEF Idle, Waiting, Suits
  <2>3. QED
    BY <1>1, <2>1, <2>2, TaskStays
<1>4. ASSUME ~busy, task' = "HOME", job' \in Jobs, UNCHANGED <<busy, calls, stale>>
      PROVE  TaskInv'
  <2>1. Idle'
    BY <1>1, <1>4 DEF Idle, Waiting
  <2>2. QED
    BY <1>1, <1>2, <1>4, <2>1 DEF TaskInv, Carried
<1>5. CASE Sorting!Home
  BY <1>1, <1>4, <1>5, CommandedJobs DEF Sorting!Home, Sorting!Renewed
<1>6. ASSUME NEW cube \in Sorting!Cubes, Sorting!Pick(cube) PROVE TaskInv'
  <2>1. cube \in Int
    BY <1>6, NumbersAssumption DEF Sorting!Cubes
  <2>2. QED
    BY <1>1, <1>4, <1>6, <2>1, CommandedJobs DEF Sorting!Pick, Sorting!Renewed
<1>7. CASE Sorting!PauseTask \/ Sorting!ResumeTask
  <2>1. UNCHANGED <<task, job, busy, calls, stale>>
    BY <1>7 DEF Sorting!PauseTask, Sorting!ResumeTask
  <2>2. Idle' \/ Waiting'
    BY <1>1, <2>1 DEF Idle, Waiting, Suits
  <2>3. QED
    BY <1>1, <2>1, <2>2, TaskStays
<1>8. CASE Sorting!Reset
  <2> SUFFICES ASSUME ~stale' PROVE TaskInv'
    BY DEF TaskInv
  <2>1. calls = <<>> /\ calls' = Sorting!CanceledHandles
    BY <1>8 DEF Sorting!Reset
  <2>2. /\ task' = "HOME" /\ busy' = FALSE /\ calls' = <<>> /\ job' \in Jobs
    BY <1>1, <1>8, <2>1, CanceledNone, CommandedJobs DEF Sorting!Reset, Sorting!Renewed
  <2>3. QED
    BY <1>1, <1>2, <2>2 DEF TaskInv, Idle, Carried
<1>9. CASE Sorting!ChangeModes
  <2>1. /\ job' \in Jobs /\ job'.cube = job.cube /\ ~busy
        /\ UNCHANGED <<task, busy, calls, stale>>
    BY <1>1, <1>9, CommandedJobs DEF Sorting!ChangeModes
  <2>2. Idle'
    BY <1>1, <2>1 DEF Idle, Waiting
  <2>3. QED
    BY <1>1, <2>1, <2>2, TaskStays
<1>10. QED
  BY <1>3, <1>5, <1>6, <1>7, <1>8, <1>9 DEF Sorting!OnCommand

LEMMA TaskInvKept ==
  ASSUME TaskInv, [Sorting!Next]_(Sorting!vars) PROVE TaskInv'
<1>1. CASE UNCHANGED Sorting!vars
  BY <1>1 DEF Sorting!vars, TaskInv, Idle, Waiting, Suits, Carried
<1>2. CASE Sorting!Next /\ stale
  BY <1>2, StaleStays DEF TaskInv
<1>3. CASE Sorting!Next /\ ~stale
  BY <1>3, TimerKeepsTask, AnswerKeepsTask, SafetyKeepsTask, CommandKeepsTask
  DEF Sorting!Next
<1>4. QED
  BY <1>1, <1>2, <1>3

-----------------------------------------------------------------------------
(* GazeboGateway.  A home that a resume could start again, or that runs,   *)
(* has been asked for and neither stopped nor reset since.                 *)

resumeHome == v3
wanted == v8
homes == v7
USE DEF resumeHome, wanted, homes

GatewayInv ==
    /\ wanted \in BOOLEAN /\ resumeHome \in BOOLEAN
    /\ resumeHome => wanted
    /\ task = "HOME_RUNNING" => wanted

LEMMA GatewayInvInit == Gateway!Init => GatewayInv
  BY DEF Gateway!Init, GatewayInv

LEMMA GatewayCommands ==
  ASSUME GatewayInv,
         \/ Gateway!Home \/ Gateway!Pause \/ Gateway!Resume \/ Gateway!Reset
         \/ Gateway!EmergencyStop \/ Gateway!SafetyReset \/ Gateway!Pick
  PROVE  GatewayInv' /\ Gateway!NoUnwantedHome
<1>1. CASE Gateway!Home
  BY <1>1 DEF GatewayInv, Gateway!NoUnwantedHome, Gateway!Home, Gateway!StartHome,
     Gateway!SendHome, Gateway!Untouched
<1>2. CASE Gateway!Pause
  BY <1>2 DEF GatewayInv, Gateway!NoUnwantedHome, Gateway!Pause, Gateway!CancelAll
<1>3. CASE Gateway!Resume
  <2>1. wanted' = wanted
    BY <1>3 DEF Gateway!Resume
  <2>2. CASE /\ task' \in {"RESET_REQUIRED", "IDLE", "NOT_READY"}
             /\ UNCHANGED <<resumeHome, homes>>
    BY <2>1, <2>2 DEF GatewayInv, Gateway!NoUnwantedHome
  <2>3. CASE resumeHome /\ resumeHome' = TRUE
    BY <2>1, <2>3 DEF GatewayInv, Gateway!NoUnwantedHome
  <2>4. QED
    BY <1>3, <2>2, <2>3 DEF Gateway!Resume, Gateway!SendHome, Gateway!Untouched
<1>4. CASE Gateway!Reset \/ Gateway!EmergencyStop
  BY <1>4 DEF GatewayInv, Gateway!NoUnwantedHome, Gateway!Reset, Gateway!EmergencyStop,
     Gateway!CancelAll
<1>5. CASE Gateway!SafetyReset \/ Gateway!Pick
  BY <1>5 DEF GatewayInv, Gateway!NoUnwantedHome, Gateway!SafetyReset, Gateway!Pick,
     Gateway!Untouched
<1>6. QED
  BY <1>1, <1>2, <1>3, <1>4, <1>5

LEMMA GatewayAnswers ==
  ASSUME GatewayInv, NEW id,
         Gateway!GoalResponse(id) \/ Gateway!GoalResult(id) \/ Gateway!Controller(id)
  PROVE  GatewayInv' /\ Gateway!NoUnwantedHome
<1>1. UNCHANGED <<wanted, homes>>
  BY DEF Gateway!GoalResponse, Gateway!GoalResult, Gateway!Controller
<1>2. \/ task' \in {"HOME_FAILED", "HOME_REACHED"} /\ resumeHome' = FALSE
      \/ UNCHANGED <<task, resumeHome>>
  <2>1. CASE Gateway!GoalResponse(id)
    BY <2>1, Zenon DEF Gateway!GoalResponse
  <2>2. CASE Gateway!GoalResult(id)
    BY <2>2 DEF Gateway!GoalResult
  <2>3. CASE Gateway!Controller(id)
    BY <2>3 DEF Gateway!Controller
  <2>4. QED
    BY <2>1, <2>2, <2>3
<1>3. CASE UNCHANGED <<task, resumeHome>>
  BY <1>1, <1>3 DEF GatewayInv, Gateway!NoUnwantedHome
<1>4. CASE task' \in {"HOME_FAILED", "HOME_REACHED"} /\ resumeHome' = FALSE
  BY <1>1, <1>4 DEF GatewayInv, Gateway!NoUnwantedHome
<1>5. QED
  BY <1>2, <1>3, <1>4

LEMMA GatewayInvKept ==
  ASSUME GatewayInv, [Gateway!Next]_(Gateway!vars)
  PROVE  GatewayInv' /\ Gateway!NoUnwantedHome
<1>1. CASE UNCHANGED Gateway!vars
  BY <1>1 DEF Gateway!vars, GatewayInv, Gateway!NoUnwantedHome
<1>2. CASE Gateway!Next
  BY <1>2, GatewayCommands, GatewayAnswers DEF Gateway!Next
<1>3. QED
  BY <1>1, <1>2

-----------------------------------------------------------------------------
(* MaskAdapter.  A bundle loses its parts only when it is published or     *)
(* when Keep later stamps have been opened, and no cloud is newer than     *)
(* what each topic has brought.                                            *)

seen == v1
info == v2
inputs == v3
last == v4       \* out
arrived == v5
USE DEF seen, info, inputs, last, arrived

Stamps == 1 .. LastStamp
Parts == {"color", "depth", "mask"}
Later(s) == {t \in Stamps : t > s /\ arrived[t] # {}}

AdapterTypes ==
    /\ seen \in [Parts -> Nat] /\ info \in BOOLEAN /\ last \in Nat
    /\ inputs \in [Stamps -> SUBSET Parts] /\ arrived \in [Stamps -> SUBSET Parts]

InOrder ==
    /\ \A s \in Stamps : inputs[s] \subseteq arrived[s]
    /\ \A s \in Stamps : \A p \in arrived[s] : s <= seen[p]
    /\ \A p \in Parts : last <= seen[p]

NothingLost ==
    \A s \in Stamps :
        arrived[s] # Parts /\ Cardinality(Later(s)) < Keep => inputs[s] = arrived[s]

AdapterInv == AdapterTypes /\ InOrder /\ NothingLost

LEMMA AdapterInvInit == Adapter!Init => AdapterInv
<1> SUFFICES ASSUME Adapter!Init PROVE AdapterInv
  OBVIOUS
<1>1. /\ seen = [p \in Parts |-> 0] /\ info = FALSE /\ last = 0
      /\ inputs = [s \in Stamps |-> {}] /\ arrived = [s \in Stamps |-> {}]
  BY DEF Adapter!Init, Adapter!Parts, Adapter!Stamps, Parts, Stamps
<1>2. AdapterTypes
  BY <1>1 DEF AdapterTypes
<1>3. InOrder /\ NothingLost
  BY <1>1 DEF InOrder, NothingLost
<1>4. QED
  BY <1>2, <1>3 DEF AdapterInv

LEMMA OneCardinality == \A S : Adapter!Cardinality(S) = Cardinality(S)
  BY DEF Adapter!Cardinality, Cardinality, Adapter!IsFiniteSet, IsFiniteSet

\* The stamps opened later are finitely many, and so is every part of them.
LEMMA LaterIsFinite ==
  ASSUME NEW T \in SUBSET Stamps, NEW S \in SUBSET T
  PROVE  Cardinality(S) <= Cardinality(T) /\ Cardinality(S) \in Nat /\ Cardinality(T) \in Nat
<1>1. IsFiniteSet(Stamps)
  BY FS_Interval, NumbersAssumption DEF Stamps
<1>2. IsFiniteSet(T)
  BY <1>1, FS_Subset
<1>3. QED
  BY <1>2, FS_Subset, FS_CardinalityType

\* What is kept of the bundles when a cloud goes out.
LEMMA TrimmedKeeps ==
  ASSUME NEW bundles \in [Stamps -> SUBSET Parts]
  PROVE  /\ Adapter!Trimmed(bundles) \in [Stamps -> SUBSET Parts]
         /\ \A s \in Stamps : Adapter!Trimmed(bundles)[s] \subseteq bundles[s]
         /\ \A s \in Stamps : Cardinality({t \in Stamps : bundles[t] # {} /\ t > s}) < Keep
                              => Adapter!Trimmed(bundles)[s] = bundles[s]
<1> DEFINE Few(s) == Cardinality({t \in Adapter!Open(bundles) : t > s}) < Keep
<1>1. Adapter!Trimmed(bundles) = [s \in Stamps |-> IF Few(s) THEN bundles[s] ELSE {}]
  <2>1. Adapter!Stamps = Stamps
    BY DEF Adapter!Stamps, Stamps
  <2>2. QED
    BY <2>1, OneCardinality, Zenon DEF Adapter!Trimmed
<1>2. ASSUME NEW s \in Stamps
      PROVE  {t \in Adapter!Open(bundles) : t > s} = {t \in Stamps : bundles[t] # {} /\ t > s}
  BY DEF Adapter!Open, Adapter!Stamps, Stamps
<1>3. \A s \in Stamps : Cardinality({t \in Stamps : bundles[t] # {} /\ t > s}) < Keep => Few(s)
  BY <1>2
<1> HIDE DEF Few
<1>4. QED
  BY <1>1, <1>3

LEMMA ReceiveKeepsAdapter ==
  ASSUME AdapterInv, NEW p \in Parts, NEW s \in Stamps, Adapter!Receive(p, s)
  PROVE  AdapterInv' /\ Adapter!LateMaskFindsItsFrame
<1> DEFINE bundles == [inputs EXCEPT ![s] = @ \union {p}]
           emptied == [bundles EXCEPT ![s] = {}]
           complete == info /\ bundles[s] = Parts
<1>1. /\ s > seen[p] /\ seen' = [seen EXCEPT ![p] = s] /\ info' = info
      /\ arrived' = [arrived EXCEPT ![s] = @ \union {p}]
      /\ complete => inputs' = Adapter!Trimmed(emptied) /\ last' = s
      /\ ~complete => inputs' = bundles /\ last' = last
  BY DEF Adapter!Receive, Adapter!Parts, Parts
<1>2. s \in Nat /\ AdapterTypes /\ InOrder /\ NothingLost
  BY DEF Stamps, AdapterInv
<1>3. bundles \in [Stamps -> SUBSET Parts] /\ emptied \in [Stamps -> SUBSET Parts]
  BY <1>2 DEF AdapterTypes
<1>4. AdapterTypes'
  <2>1. inputs' \in [Stamps -> SUBSET Parts]
    BY <1>1, <1>3, TrimmedKeeps
  <2>2. QED
    BY <1>1, <1>2, <2>1 DEF AdapterTypes
<1>5. /\ arrived'[s] = arrived[s] \union {p} /\ bundles[s] = inputs[s] \union {p}
      /\ emptied[s] = {} /\ seen'[p] = s
      /\ \A t \in Stamps : t # s => arrived'[t] = arrived[t] /\ bundles[t] = inputs[t]
                                    /\ emptied[t] = inputs[t]
      /\ \A q \in Parts : q # p => seen'[q] = seen[q]
      /\ \A q \in Parts : seen[q] \in Nat /\ seen'[q] \in Nat
  BY <1>1, <1>2, <1>4 DEF AdapterTypes
<1>6. \A q \in Parts : seen[q] <= seen'[q]
  BY <1>1, <1>2, <1>5
<1> HIDE DEF bundles, emptied
<1>7. \A t \in Stamps : bundles[t] \subseteq arrived'[t] /\ emptied[t] \subseteq arrived'[t]
  BY <1>2, <1>5 DEF InOrder
<1>8. \A t \in Stamps : \A q \in arrived'[t] : t <= seen'[q]
  <2> TAKE t \in Stamps
  <2> TAKE q \in arrived'[t]
  <2>1. q \in Parts /\ t \in Nat
    BY <1>4 DEF AdapterTypes, Stamps
  <2>2. CASE q \in arrived[t]
    <3>1. t <= seen[q]
      BY <1>2, <2>2 DEF InOrder
    <3>2. QED
      BY <1>5, <1>6, <2>1, <3>1
  <2>3. CASE q \notin arrived[t]
    BY <1>2, <1>5, <2>1, <2>3
  <2>4. QED
    BY <2>2, <2>3
<1>9. \A q \in Parts : last' <= seen'[q]
  <2>1. CASE complete
    <3>1. \A q \in Parts : s <= seen'[q]
      BY <1>7, <1>8, <2>1
    <3>2. QED
      BY <1>1, <2>1, <3>1
  <2>2. CASE ~complete
    BY <1>1, <1>2, <1>5, <1>6, <2>2 DEF InOrder, AdapterTypes
  <2>3. QED
    BY <2>1, <2>2
<1>10. last' >= last
  <2>1. last <= seen[p]
    BY <1>2 DEF InOrder
  <2>2. QED
    BY <1>1, <1>2, <1>5, <2>1 DEF AdapterTypes
<1>11. InOrder'
  <2>1. \A t \in Stamps : inputs'[t] \subseteq arrived'[t]
    BY <1>1, <1>3, <1>7, TrimmedKeeps
  <2>2. QED
    BY <1>8, <1>9, <2>1 DEF InOrder
<1>12. \A t \in Stamps : Later(t) \in SUBSET Later(t)' /\ Later(t)' \in SUBSET Stamps
  BY <1>5 DEF Later
<1>13. \A t \in Stamps : /\ Cardinality(Later(t)) <= Cardinality(Later(t)')
                         /\ Cardinality(Later(t)) \in Nat /\ Cardinality(Later(t)') \in Nat
  BY <1>12, LaterIsFinite
<1>14. ASSUME NEW t \in Stamps, arrived'[t] # Parts, Cardinality(Later(t)') < Keep
       PROVE  inputs'[t] = arrived'[t]
  <2>1. Cardinality(Later(t)) < Keep /\ arrived[t] # Parts
    <3>1. arrived[t] \subseteq arrived'[t] /\ arrived'[t] \subseteq Parts
      BY <1>4, <1>5 DEF AdapterTypes
    <3>2. Cardinality(Later(t)) < Keep
      BY <1>13, <1>14, NumbersAssumption
    <3>3. QED
      BY <1>14, <3>1, <3>2
  <2>2. inputs[t] = arrived[t]
    BY <1>2, <2>1 DEF NothingLost
  <2>3. CASE complete
    <3>1. t # s
      <4>1. bundles[s] \subseteq arrived'[s] /\ arrived'[s] \subseteq Parts
        BY <1>4, <1>7 DEF AdapterTypes
      <4>2. QED
        BY <1>14, <2>3, <4>1
    <3> DEFINE opened == {u \in Stamps : emptied[u] # {} /\ u > t}
    <3>2. opened \in SUBSET Later(t)'
      BY <1>7 DEF Later
    <3>3. Cardinality(opened) < Keep
      <4> HIDE DEF opened
      <4>1. Cardinality(opened) <= Cardinality(Later(t)') /\ Cardinality(opened) \in Nat
        BY <1>12, <3>2, LaterIsFinite
      <4>2. QED
        BY <1>13, <1>14, <4>1, NumbersAssumption
    <3>4. Adapter!Trimmed(emptied)[t] = emptied[t]
      BY <1>3, <3>3, TrimmedKeeps
    <3>5. QED
      BY <1>1, <1>5, <2>2, <2>3, <3>1, <3>4
  <2>4. CASE ~complete
    BY <1>1, <1>5, <2>2, <2>4
  <2>5. QED
    BY <2>3, <2>4
<1>15. NothingLost'
  BY <1>14 DEF NothingLost
<1>16. ASSUME NEW t \in Stamps, info, arrived[t] # Parts, arrived'[t] = Parts,
              Cardinality(Later(t)) < Keep
       PROVE  last' = t
  <2>1. t = s /\ inputs[t] = arrived[t]
    BY <1>2, <1>5, <1>16 DEF NothingLost
  <2>2. QED
    BY <1>1, <1>5, <1>16, <2>1
<1>17. Adapter!LateMaskFindsItsFrame
  <2>1. Adapter!Parts = Parts /\ Adapter!Stamps = Stamps
    BY DEF Adapter!Parts, Adapter!Stamps, Parts, Stamps
  <2>2. ASSUME NEW t \in Stamps, info, arrived[t] # Parts, arrived'[t] = Parts,
               Cardinality({u \in Stamps : u > t /\ arrived[u] # {}}) < Keep
        PROVE  last' = t
    BY <1>16, <2>2 DEF Later
  <2>3. QED
    BY <1>10, <2>1, <2>2, OneCardinality, Zenon DEF Adapter!LateMaskFindsItsFrame
<1>18. QED
  BY <1>4, <1>11, <1>15, <1>17 DEF AdapterInv

LEMMA AdapterInvKept ==
  ASSUME AdapterInv, [Adapter!Next]_(Adapter!vars)
  PROVE  AdapterInv' /\ Adapter!LateMaskFindsItsFrame
<1>1. ASSUME UNCHANGED <<seen, inputs, last, arrived>>, info' \in BOOLEAN
      PROVE  AdapterInv' /\ Adapter!LateMaskFindsItsFrame
  <2>1. AdapterInv'
    BY <1>1 DEF AdapterInv, AdapterTypes, InOrder, NothingLost, Later
  <2>2. Adapter!LateMaskFindsItsFrame
    BY <1>1 DEF AdapterInv, AdapterTypes, Adapter!LateMaskFindsItsFrame
  <2>3. QED
    BY <2>1, <2>2
<1>2. CASE UNCHANGED Adapter!vars
  BY <1>1, <1>2 DEF Adapter!vars, AdapterInv, AdapterTypes
<1>3. CASE Adapter!Info
  BY <1>1, <1>3 DEF Adapter!Info
<1>4. CASE \E p \in Adapter!Parts, s \in Adapter!Stamps : Adapter!Receive(p, s)
  BY <1>4, ReceiveKeepsAdapter DEF Adapter!Parts, Adapter!Stamps, Parts, Stamps
<1>5. QED
  BY <1>2, <1>3, <1>4 DEF Adapter!Next

-----------------------------------------------------------------------------
(* ObstacleResampler.  No topic has brought less than what was held or     *)
(* published of it, and the mask's time is at most the tolerance after the *)
(* result the mask was seeded from.                                        *)

images == v2
frames == v3
waiting == v5
seed == v6
base == v7
out == v9
USE DEF images, frames, waiting, seed, base, out

Seeded(m, from) == m \in Nat /\ from \in Nat /\ from - m <= Tolerance

ResamplerInv ==
    /\ seen \in [rgb : Nat, cloud : Nat, model : Nat]
    /\ \A s \in images : s \in Nat /\ s <= seen.rgb
    /\ \A s \in frames : s \in Nat /\ s <= seen.cloud
    /\ waiting \subseteq Nat
    /\ seed # None => Seeded(seed, base)
    /\ out.stamp \in Nat /\ out.stamp <= seen.rgb /\ out.stamp <= seen.cloud
    /\ out.seed # None => out.seed \in Nat /\ out.stamp - out.seed <= Timeout + Tolerance

LEMMA ResamplerInvInit == Resampler!Init => ResamplerInv
<1> SUFFICES ASSUME Resampler!Init PROVE ResamplerInv
  OBVIOUS
<1> DEFINE zero == 0
<1>1. zero \in Nat /\ zero <= zero /\ zero = 0
  OBVIOUS
<1>2. /\ seen = [rgb |-> zero, cloud |-> zero, model |-> zero]
      /\ images = {} /\ frames = {} /\ waiting = {} /\ seed = None
      /\ out = [stamp |-> zero, seed |-> None]
  BY DEF Resampler!Init
<1> HIDE DEF zero
<1>3. /\ seen \in [rgb : Nat, cloud : Nat, model : Nat]
      /\ seen.rgb = zero /\ seen.cloud = zero /\ out.stamp = zero /\ out.seed = None
  BY <1>1, <1>2
<1>4. QED
  BY <1>1, <1>2, <1>3 DEF ResamplerInv

\* Every nonempty set of natural numbers has a least one.
LEMMA NatMinimum ==
  ASSUME NEW T \in SUBSET Nat, T # {}
  PROVE  \E m \in T : \A t \in T : m <= t
<1> DEFINE R == OpToRel(<, Nat)
<1>1. IsWellFoundedOn(R, Nat)
  BY NatLessThanWellFounded
<1>2. PICK m \in T : \A t \in T : ~(<<t, m>> \in R)
  <2> HIDE DEF R
  <2> QED
    BY <1>1, WFMin
<1>3. \A t \in T : ~(t < m)
  BY <1>2 DEF OpToRel
<1>4. QED
  BY <1>3

\* nearest_timestamp finds a time within the tolerance where there is one.
LEMMA NearestIsNear ==
  ASSUME NEW S \in SUBSET Nat, NEW s \in Nat, Resampler!Near(S, s) # {}
  PROVE  /\ Resampler!Nearest(S, s) \in S
         /\ Seeded(Resampler!Nearest(S, s), s)
<1> DEFINE near == Resampler!Near(S, s)
           gap(t) == Resampler!Gap(s, t)
           Best(t) == \A u \in near : gap(t) < gap(u) \/ (gap(t) = gap(u) /\ t <= u)
<1>1. near \in SUBSET Nat /\ \A t \in Nat : gap(t) \in Nat
  <2>1. near \in SUBSET Nat
    BY DEF Resampler!Near
  <2>2. ASSUME NEW t \in Nat PROVE gap(t) \in Nat
    BY DEF Resampler!Gap
  <2>3. QED
    BY <2>1, <2>2
<1>2. \A t \in near : t \in S /\ gap(t) <= Tolerance
  BY DEF Resampler!Near
<1>3. Resampler!Nearest(S, s) = CHOOSE t \in near : Best(t)
  BY DEF Resampler!Nearest
<1>4. \A t \in Nat : s - t <= gap(t)
  BY DEF Resampler!Gap
<1> HIDE DEF near, gap
<1> DEFINE gaps == {gap(t) : t \in near}
<1>5. PICK g \in gaps : \A h \in gaps : g <= h
  <2>1. gaps \in SUBSET Nat /\ gaps # {}
    BY <1>1 DEF near
  <2> HIDE DEF gaps
  <2>2. QED
    BY <2>1, NatMinimum
<1> DEFINE closest == {t \in near : gap(t) = g}
<1>6. PICK m \in closest : \A t \in closest : m <= t
  <2>1. closest \in SUBSET Nat /\ closest # {}
    BY <1>1, <1>5
  <2> HIDE DEF closest
  <2>2. QED
    BY <2>1, NatMinimum
<1>7. m \in near /\ Best(m)
  <2> SUFFICES ASSUME NEW u \in near
               PROVE  gap(m) < gap(u) \/ (gap(m) = gap(u) /\ m <= u)
    BY <1>6
  <2>1. gap(m) = g /\ g <= gap(u) /\ gap(m) \in Nat /\ gap(u) \in Nat
    BY <1>1, <1>5, <1>6
  <2>2. QED
    BY <1>6, <2>1
<1> HIDE DEF Best
<1>8. (CHOOSE t \in near : Best(t)) \in near
  BY <1>7
<1> DEFINE found == Resampler!Nearest(S, s)
<1>9. found \in near
  BY <1>3, <1>8
<1> HIDE DEF found
<1>10. found \in S /\ found \in Nat /\ s - found <= gap(found) /\ gap(found) <= Tolerance
       /\ gap(found) \in Nat
  BY <1>1, <1>2, <1>4, <1>9
<1>11. s - found <= Tolerance
  BY <1>10, NumbersAssumption
<1>12. QED
  BY <1>10, <1>11 DEF Seeded, found

\* What is held or waits comes from what it was trimmed from.
LEMMA TrimSelects ==
  ASSUME NEW held, NEW results, Resampler!Trim(held, results)
  PROVE  frames' \subseteq held /\ waiting' \subseteq results
  BY DEF Resampler!Trim, Resampler!Trimmed

\* A processed frame: its cloud shows nothing that is too old.
LEMMA PublishIsFresh ==
  ASSUME NEW s \in Nat, NEW m, NEW from, m # None => Seeded(m, from),
         Resampler!Publish(s, m, from)
  PROVE  /\ seed' # None => Seeded(seed', base')
         /\ \/ out' = out
            \/ /\ out'.stamp = s
               /\ out'.seed # None =>
                      out'.seed \in Nat /\ out'.stamp - out'.seed <= Timeout + Tolerance
<1>1. CASE m # None /\ s - from <= Timeout
  <2>1. seed' = m /\ base' = from /\ (out' = out \/ out' = [stamp |-> s, seed |-> m])
    BY <1>1 DEF Resampler!Publish
  <2>2. m \in Nat /\ s - m <= Timeout + Tolerance
    BY <1>1, NumbersAssumption DEF Seeded
  <2>3. QED
    BY <1>1, <2>1, <2>2
<1>2. CASE ~(m # None /\ s - from <= Timeout)
  BY <1>2 DEF Resampler!Publish, Resampler!Cleared
<1>3. QED
  BY <1>1, <1>2

LEMMA CompleteIsFresh ==
  ASSUME ResamplerInv, NEW s \in Nat, NEW held, Resampler!Complete(s, held)
  PROVE  /\ frames' \subseteq held /\ waiting' \subseteq waiting
         /\ seed' # None => Seeded(seed', base')
         /\ \/ out' = out
            \/ /\ out'.stamp = s
               /\ out'.seed # None =>
                      out'.seed \in Nat /\ out'.stamp - out'.seed <= Timeout + Tolerance
<1>1. (seed # None => Seeded(seed, base)) /\ waiting \in SUBSET Nat
  BY DEF ResamplerInv
<1>2. CASE Resampler!Near(waiting, s) = {}
  <2>1. Resampler!Publish(s, seed, base) /\ Resampler!Trim(held, waiting)
    BY <1>2 DEF Resampler!Complete
  <2>2. QED
    BY <1>1, <2>1, PublishIsFresh, TrimSelects
<1>3. CASE Resampler!Near(waiting, s) # {}
  <2> DEFINE m == Resampler!Nearest(waiting, s)
  <2>1. /\ Resampler!Publish(s, m, s) \/ Resampler!Publish(s, seed, base)
        /\ Resampler!Trim(held, waiting \ {m})
    BY <1>3 DEF Resampler!Complete
  <2>2. Seeded(m, s)
    BY <1>1, <1>3, NearestIsNear
  <2> HIDE DEF m
  <2>3. frames' \subseteq held /\ waiting' \subseteq (waiting \ {m})
    BY <2>1, TrimSelects
  <2>4. QED
    BY <1>1, <2>1, <2>2, <2>3, PublishIsFresh
<1>4. QED
  BY <1>2, <1>3

\* A step that publishes no cloud, or the one of a stamp that both topics have
\* brought.
LEMMA ResamplerStep ==
  ASSUME ResamplerInv,
         seen' \in [rgb : Nat, cloud : Nat, model : Nat],
         seen'.rgb >= seen.rgb, seen'.cloud >= seen.cloud,
         \A s \in images' : s \in Nat /\ s <= seen'.rgb,
         \A s \in frames' : s \in Nat /\ s <= seen'.cloud,
         waiting' \subseteq Nat,
         seed' # None => Seeded(seed', base'),
         \/ out' = out
         \/ /\ out'.stamp >= out.stamp /\ out'.stamp \in Nat
            /\ out'.stamp <= seen'.rgb /\ out'.stamp <= seen'.cloud
            /\ out'.seed # None =>
                   out'.seed \in Nat /\ out'.stamp - out'.seed <= Timeout + Tolerance
  PROVE  ResamplerInv' /\ Resampler!GeometryIsFresh
<1>1. /\ out.stamp \in Nat /\ out.stamp <= seen.rgb /\ out.stamp <= seen.cloud
      /\ seen.rgb \in Nat /\ seen.cloud \in Nat /\ seen'.rgb \in Nat /\ seen'.cloud \in Nat
      /\ out.seed # None => out.seed \in Nat /\ out.stamp - out.seed <= Timeout + Tolerance
  BY DEF ResamplerInv
<1>2. /\ out'.stamp \in Nat /\ out'.stamp >= out.stamp
      /\ out'.stamp <= seen'.rgb /\ out'.stamp <= seen'.cloud
      /\ out'.seed # None =>
             out'.seed \in Nat /\ out'.stamp - out'.seed <= Timeout + Tolerance
  <2>1. CASE out' = out
    BY <1>1, <2>1
  <2>2. CASE out' # out
    BY <2>2
  <2>3. QED
    BY <2>1, <2>2
<1>3. QED
  BY <1>2 DEF ResamplerInv, Resampler!GeometryIsFresh

LEMMA ReceiveRgbKeeps ==
  ASSUME ResamplerInv, NEW s \in Nat, Resampler!ReceiveRgb(s)
  PROVE  ResamplerInv' /\ Resampler!GeometryIsFresh
<1>1. /\ seen \in [rgb : Nat, cloud : Nat, model : Nat]
      /\ s > seen.rgb /\ seen' = [seen EXCEPT !.rgb = s]
      /\ images' = Resampler!Trimmed(images \union {s})
  BY DEF ResamplerInv, Resampler!ReceiveRgb
<1>2. /\ seen' \in [rgb : Nat, cloud : Nat, model : Nat]
      /\ seen'.rgb = s /\ seen'.cloud = seen.cloud
      /\ seen.rgb \in Nat /\ seen.cloud \in Nat
  BY <1>1
<1>3. images' \subseteq images \union {s}
  BY <1>1 DEF Resampler!Trimmed
<1>4. \A t \in images' : t \in Nat /\ t <= seen'.rgb
  <2>1. \A t \in images : t \in Nat /\ t <= seen.rgb
    BY DEF ResamplerInv
  <2>2. QED
    BY <1>1, <1>2, <1>3, <2>1
<1>5. /\ \A t \in frames : t \in Nat /\ t <= seen.cloud
      /\ waiting \subseteq Nat /\ (seed # None => Seeded(seed, base))
      /\ out.stamp \in Nat /\ out.stamp <= seen.rgb
  BY DEF ResamplerInv
<1>6. CASE s \in frames
  <2>1. Resampler!Complete(s, frames)
    BY <1>6 DEF Resampler!ReceiveRgb
  <2>2. /\ frames' \subseteq frames /\ waiting' \subseteq waiting
        /\ seed' # None => Seeded(seed', base')
        /\ \/ out' = out
           \/ /\ out'.stamp = s
              /\ out'.seed # None =>
                     out'.seed \in Nat /\ out'.stamp - out'.seed <= Timeout + Tolerance
    BY <2>1, CompleteIsFresh
  <2>3. s <= seen'.cloud /\ s <= seen'.rgb /\ s >= out.stamp
        /\ seen'.rgb >= seen.rgb /\ seen'.cloud >= seen.cloud
    BY <1>1, <1>2, <1>5, <1>6
  <2>4. (\A t \in frames' : t \in Nat /\ t <= seen'.cloud) /\ waiting' \subseteq Nat
    BY <1>2, <1>5, <2>2
  <2>5. QED
    BY <1>2, <1>4, <2>2, <2>3, <2>4, ResamplerStep
<1>7. CASE s \notin frames
  <2>1. Resampler!Trim(frames, waiting) /\ UNCHANGED <<seed, base, out>>
    BY <1>7 DEF Resampler!ReceiveRgb
  <2>2. frames' \subseteq frames /\ waiting' \subseteq waiting
    BY <2>1, TrimSelects
  <2>3. seen'.rgb >= seen.rgb /\ seen'.cloud >= seen.cloud
    BY <1>1, <1>2
  <2>4. (\A t \in frames' : t \in Nat /\ t <= seen'.cloud) /\ waiting' \subseteq Nat
    BY <1>2, <1>5, <2>2
  <2>5. seed' # None => Seeded(seed', base')
    BY <1>5, <2>1
  <2>6. QED
    BY <1>2, <1>4, <2>1, <2>3, <2>4, <2>5, ResamplerStep
<1>8. QED
  BY <1>6, <1>7

LEMMA ReceiveRgbdKeeps ==
  ASSUME ResamplerInv, NEW s \in Nat, Resampler!ReceiveRgbd(s)
  PROVE  ResamplerInv' /\ Resampler!GeometryIsFresh
<1>1. /\ seen \in [rgb : Nat, cloud : Nat, model : Nat]
      /\ s > seen.cloud /\ seen' = [seen EXCEPT !.cloud = s] /\ images' = images
  BY DEF ResamplerInv, Resampler!ReceiveRgbd
<1>2. /\ seen' \in [rgb : Nat, cloud : Nat, model : Nat]
      /\ seen'.cloud = s /\ seen'.rgb = seen.rgb
      /\ seen.rgb \in Nat /\ seen.cloud \in Nat
  BY <1>1
<1>3. /\ \A t \in images : t \in Nat /\ t <= seen.rgb
      /\ \A t \in frames : t \in Nat /\ t <= seen.cloud
      /\ waiting \subseteq Nat /\ (seed # None => Seeded(seed, base))
      /\ out.stamp \in Nat /\ out.stamp <= seen.cloud
  BY DEF ResamplerInv
<1>4. /\ seen'.rgb >= seen.rgb /\ seen'.cloud >= seen.cloud
      /\ \A t \in images' : t \in Nat /\ t <= seen'.rgb
      /\ \A t \in frames \union {s} : t \in Nat /\ t <= seen'.cloud
  BY <1>1, <1>2, <1>3
<1>5. CASE s \in images
  <2>1. Resampler!Complete(s, frames \union {s})
    BY <1>5 DEF Resampler!ReceiveRgbd
  <2>2. /\ frames' \subseteq frames \union {s} /\ waiting' \subseteq waiting
        /\ seed' # None => Seeded(seed', base')
        /\ \/ out' = out
           \/ /\ out'.stamp = s
              /\ out'.seed # None =>
                     out'.seed \in Nat /\ out'.stamp - out'.seed <= Timeout + Tolerance
    BY <2>1, CompleteIsFresh
  <2>3. s <= seen'.cloud /\ s <= seen'.rgb /\ s >= out.stamp
    BY <1>1, <1>2, <1>3, <1>5
  <2>4. (\A t \in frames' : t \in Nat /\ t <= seen'.cloud) /\ waiting' \subseteq Nat
    BY <1>3, <1>4, <2>2
  <2>5. QED
    BY <1>2, <1>4, <2>2, <2>3, <2>4, ResamplerStep
<1>6. CASE s \notin images
  <2>1. Resampler!Trim(frames \union {s}, waiting) /\ UNCHANGED <<seed, base, out>>
    BY <1>6 DEF Resampler!ReceiveRgbd
  <2>2. frames' \subseteq frames \union {s} /\ waiting' \subseteq waiting
    BY <2>1, TrimSelects
  <2>3. (\A t \in frames' : t \in Nat /\ t <= seen'.cloud) /\ waiting' \subseteq Nat
    BY <1>3, <1>4, <2>2
  <2>4. seed' # None => Seeded(seed', base')
    BY <1>3, <2>1
  <2>5. QED
    BY <1>2, <1>4, <2>1, <2>3, <2>4, ResamplerStep
<1>7. QED
  BY <1>5, <1>6

LEMMA ReceiveResultKeeps ==
  ASSUME ResamplerInv, NEW m \in Nat, Resampler!ReceiveModel(m) \/ Resampler!ReceiveEmpty(m)
  PROVE  ResamplerInv' /\ Resampler!GeometryIsFresh
<1>1. /\ seen \in [rgb : Nat, cloud : Nat, model : Nat]
      /\ seen' = [seen EXCEPT !.model = m] /\ images' = images /\ out' = out
  BY DEF ResamplerInv, Resampler!ReceiveModel, Resampler!ReceiveEmpty
<1>2. /\ seen' \in [rgb : Nat, cloud : Nat, model : Nat]
      /\ seen'.cloud = seen.cloud /\ seen'.rgb = seen.rgb
      /\ seen'.rgb >= seen.rgb /\ seen'.cloud >= seen.cloud
  <2>1. /\ seen' \in [rgb : Nat, cloud : Nat, model : Nat]
        /\ seen'.cloud = seen.cloud /\ seen'.rgb = seen.rgb
        /\ seen.rgb \in Nat /\ seen.cloud \in Nat
    BY <1>1
  <2>2. QED
    BY <2>1
<1>3. /\ \A t \in images : t \in Nat /\ t <= seen.rgb
      /\ \A t \in frames : t \in Nat /\ t <= seen.cloud
      /\ waiting \subseteq Nat /\ (seed # None => Seeded(seed, base))
  BY DEF ResamplerInv
<1>4. Seeded(m, m)
  BY NumbersAssumption DEF Seeded
<1>5. frames' \subseteq frames /\ waiting' \subseteq waiting \union {m}
  <2>1. CASE UNCHANGED <<frames, waiting>>
    BY <2>1
  <2>2. CASE Resampler!Trim(frames, waiting \union {m})
    BY <2>2, TrimSelects
  <2>3. QED
    BY <2>1, <2>2 DEF Resampler!ReceiveModel, Resampler!ReceiveEmpty
<1>6. seed' # None => Seeded(seed', base')
  <2>1. \/ seed' = m /\ base' = m
        \/ UNCHANGED <<seed, base>>
        \/ seed' = None
    BY DEF Resampler!ReceiveModel, Resampler!ReceiveEmpty, Resampler!Cleared
  <2>2. QED
    BY <1>3, <1>4, <2>1
<1>7. /\ \A t \in images' : t \in Nat /\ t <= seen'.rgb
      /\ \A t \in frames' : t \in Nat /\ t <= seen'.cloud
      /\ waiting' \subseteq Nat
  BY <1>1, <1>2, <1>3, <1>5
<1>8. QED
  BY <1>1, <1>2, <1>6, <1>7, ResamplerStep

LEMMA ResamplerInvKept ==
  ASSUME ResamplerInv, [Resampler!Next]_(Resampler!vars)
  PROVE  ResamplerInv' /\ Resampler!GeometryIsFresh
<1>1. CASE UNCHANGED Resampler!vars
  <2>1. UNCHANGED <<seen, images, frames, waiting, seed, base, out>>
    BY <1>1 DEF Resampler!vars
  <2>2. ResamplerInv'
    BY <2>1 DEF ResamplerInv
  <2>3. out.stamp >= out.stamp
    BY DEF ResamplerInv
  <2>4. QED
    BY <2>1, <2>2, <2>3 DEF ResamplerInv, Resampler!GeometryIsFresh
<1>2. CASE Resampler!Next
  <2>1. Resampler!Stamps \subseteq Nat
    BY NumbersAssumption DEF Resampler!Stamps
  <2>2. PICK s \in Nat :
            \/ Resampler!ReceiveRgb(s) \/ Resampler!ReceiveRgbd(s)
            \/ Resampler!ReceiveModel(s) \/ Resampler!ReceiveEmpty(s)
    BY <1>2, <2>1 DEF Resampler!Next
  <2>3. QED
    BY <2>2, ReceiveRgbKeeps, ReceiveRgbdKeeps, ReceiveResultKeeps
<1>3. QED
  BY <1>1, <1>2

-----------------------------------------------------------------------------
(* CameraPlacement.  No pose on its way or held is of an edit that has not *)
(* been made, and one that is not newer than the cloud is of none that     *)
(* came after the cloud.                                                   *)

world == v1
states == v2
sync == v3
poses == v4
adapter == v5
cloud == v6
placed == v7
USE DEF world, states, sync, poses, adapter, cloud, placed

Entries == [stamp : Nat, pose : Nat]
Made(pose) == pose # None => pose \in Nat /\ pose <= world.pose

Fits(p) ==
    /\ p.pose <= world.pose
    /\ cloud # None /\ p.stamp <= cloud.stamp => p.pose <= cloud.pose

CloudOfItsTime ==
    cloud # None =>
        /\ cloud \in Entries
        /\ cloud.stamp <= world.now /\ cloud.pose <= world.pose
        /\ cloud.stamp = world.now => cloud.pose = world.pose

PosesFit(sequence) ==
    sequence \in Seq(Entries) /\ \A i \in 1 .. Len(sequence) : Fits(sequence[i])

CameraInv ==
    /\ world \in [now : Nat, pose : Nat]
    /\ Made(states) /\ Made(sync)
    /\ PosesFit(poses) /\ PosesFit(adapter)
    /\ CloudOfItsTime
    /\ Camera!NoFutureEdit

LEMMA CameraInvInit == Camera!CameraInit => CameraInv
<1> SUFFICES ASSUME Camera!CameraInit PROVE CameraInv
  OBVIOUS
<1> DEFINE zero == 0
<1>1. /\ zero \in Nat
      /\ world = [now |-> zero, pose |-> zero] /\ states = None /\ sync = None
      /\ poses = <<>> /\ adapter = <<>> /\ cloud = None /\ placed = None
  BY DEF Camera!CameraInit
<1> HIDE DEF zero
<1>2. <<>> \in Seq(Entries) /\ Len(<<>>) = 0
  OBVIOUS
<1>3. world \in [now : Nat, pose : Nat]
  BY <1>1
<1>4. PosesFit(poses) /\ PosesFit(adapter)
  BY <1>1, <1>2 DEF PosesFit
<1>5. QED
  BY <1>1, <1>3, <1>4 DEF CameraInv, Made, CloudOfItsTime, Camera!NoFutureEdit

\* The pose a cloud is placed with is one that is held and, unless it is the oldest,
\* not newer than the cloud.
LEMMA PoseIsHeld ==
  ASSUME NEW stamp \in Nat, adapter \in Seq(Entries), adapter # <<>>
  PROVE  \E i \in 1 .. Len(adapter) :
             /\ Camera!PoseForStamp(stamp) = adapter[i].pose
             /\ i = 1 \/ adapter[i].stamp <= stamp
<1> DEFINE n == Len(adapter)
           past == {i \in 1 .. n : adapter[i].stamp <= stamp}
           index == IF past # {} THEN Camera!Max(past) ELSE 0
<1>1. Camera!PoseForStamp(stamp) = adapter[IF index > 0 THEN index ELSE 1].pose
  BY DEF Camera!PoseForStamp, Camera!SelectLastInSeq
<1>2. n \in Nat /\ n >= 1
  OBVIOUS
<1>3. CASE past = {}
  <2>1. index = 0
    BY <1>3
  <2>2. Camera!PoseForStamp(stamp) = adapter[1].pose
    BY <1>1, <2>1
  <2>3. QED
    BY <1>2, <2>2
<1>4. CASE past # {}
  <2> DEFINE behind == {n - i : i \in past}
  <2>1. PICK b \in behind : \A c \in behind : b <= c
    <3>1. behind \in SUBSET Nat /\ behind # {}
      BY <1>2, <1>4
    <3> HIDE DEF behind
    <3>2. QED
      BY <3>1, NatMinimum
  <2>2. PICK m \in past : b = n - m
    BY <2>1
  <2>3. \A i \in past : m >= i
    <3> SUFFICES ASSUME NEW i \in past PROVE m >= i
      OBVIOUS
    <3>1. n - m <= n - i
      BY <2>1, <2>2
    <3>2. QED
      BY <1>2, <2>2, <3>1
  <2>4. Camera!Max(past) \in past
    <3> HIDE DEF past
    <3>1. QED
      BY <2>2, <2>3 DEF Camera!Max
  <2>5. index = Camera!Max(past)
    BY <1>4
  <2> HIDE DEF index
  <2>6. index \in 1 .. n /\ adapter[index].stamp <= stamp
    BY <2>4, <2>5
  <2>7. Camera!PoseForStamp(stamp) = adapter[index].pose
    BY <1>1, <1>2, <2>6
  <2>8. QED
    BY <2>6, <2>7
<1>5. QED
  BY <1>3, <1>4

\* A step that moves no pose and keeps every one of them fitting.
LEMMA PosesStay ==
  ASSUME CameraInv, \A p \in Entries : Fits(p) => Fits(p)', UNCHANGED <<poses, adapter>>
  PROVE  PosesFit(poses)' /\ PosesFit(adapter)'
<1>1. ASSUME NEW sequence, PosesFit(sequence)
      PROVE  \A i \in 1 .. Len(sequence) : Fits(sequence[i])'
  BY <1>1 DEF PosesFit
<1>2. PosesFit(poses) /\ PosesFit(adapter)
  BY DEF CameraInv
<1>3. QED
  BY <1>1, <1>2 DEF PosesFit

\* Time passes, and the simulator states its models or takes a cloud.
LEMMA SimulatorKeepsCamera ==
  ASSUME CameraInv,
         (\E edits \in 0 .. 1 : Camera!Tick(edits)) \/ Camera!StateModels \/ Camera!TakeCloud
  PROVE  CameraInv'
<1>1. /\ world \in [now : Nat, pose : Nat] /\ Made(states) /\ Made(sync)
      /\ PosesFit(poses) /\ PosesFit(adapter) /\ CloudOfItsTime /\ Camera!NoFutureEdit
      /\ world.now \in Nat /\ world.pose \in Nat
  BY DEF CameraInv
<1>2. ASSUME NEW edits \in 0 .. 1, Camera!Tick(edits) PROVE CameraInv'
  <2> DEFINE later == world.now + 1
             edited == world.pose + edits
  <2>1. /\ later \in Nat /\ edited \in Nat /\ later > world.now /\ edited >= world.pose
        /\ world' = [now |-> later, pose |-> edited]
        /\ UNCHANGED <<states, sync, poses, adapter, cloud, placed>>
    BY <1>1, <1>2 DEF Camera!Tick
  <2> HIDE DEF later, edited
  <2>2. world' \in [now : Nat, pose : Nat] /\ world'.now = later /\ world'.pose = edited
    BY <2>1
  <2>3. Made(states)' /\ Made(sync)'
    BY <1>1, <2>1, <2>2 DEF Made
  <2>4. ASSUME NEW p \in Entries, Fits(p) PROVE Fits(p)'
    <3>1. p.pose \in Nat /\ p.pose <= edited
      BY <1>1, <2>1, <2>4 DEF Fits, Entries
    <3>2. QED
      BY <2>1, <2>2, <2>4, <3>1 DEF Fits
  <2>5. CloudOfItsTime'
    <3> SUFFICES ASSUME cloud # None PROVE CloudOfItsTime'
      BY <2>1 DEF CloudOfItsTime
    <3>1. /\ cloud.stamp \in Nat /\ cloud.pose \in Nat /\ cloud \in Entries
          /\ cloud.stamp <= world.now /\ cloud.pose <= world.pose
      BY <1>1 DEF CloudOfItsTime, Entries
    <3>2. cloud.stamp <= later /\ cloud.stamp # later /\ cloud.pose <= edited
      BY <1>1, <2>1, <3>1
    <3>3. QED
      BY <2>1, <2>2, <3>1, <3>2 DEF CloudOfItsTime
  <2>6. Camera!NoFutureEdit'
    BY <1>1, <2>1 DEF Camera!NoFutureEdit
  <2>7. QED
    BY <2>1, <2>2, <2>3, <2>4, <2>5, <2>6, PosesStay DEF CameraInv
<1>3. CASE Camera!StateModels
  <2>1. states' = world.pose /\ UNCHANGED <<world, sync, poses, adapter, cloud, placed>>
    BY <1>3 DEF Camera!StateModels
  <2>2. Made(states)' /\ Made(sync)' /\ CloudOfItsTime' /\ Camera!NoFutureEdit'
    BY <1>1, <2>1 DEF Made, CloudOfItsTime, Camera!NoFutureEdit
  <2>3. \A p \in Entries : Fits(p) => Fits(p)'
    BY <2>1 DEF Fits
  <2>4. QED
    BY <1>1, <2>1, <2>2, <2>3, PosesStay DEF CameraInv
<1>4. CASE Camera!TakeCloud
  <2>1. /\ cloud' = [stamp |-> world.now, pose |-> world.pose]
        /\ UNCHANGED <<world, states, sync, poses, adapter, placed>>
    BY <1>4 DEF Camera!TakeCloud
  <2>2. /\ cloud' \in Entries /\ cloud'.stamp = world.now /\ cloud'.pose = world.pose
    BY <1>1, <2>1 DEF Entries
  <2>3. Made(states)' /\ Made(sync)' /\ Camera!NoFutureEdit'
    BY <1>1, <2>1 DEF Made, Camera!NoFutureEdit
  <2>4. CloudOfItsTime'
    BY <1>1, <2>1, <2>2 DEF CloudOfItsTime
  <2>5. \A p \in Entries : Fits(p) => Fits(p)'
    BY <2>1, <2>2 DEF Fits
  <2>6. QED
    BY <1>1, <2>1, <2>3, <2>4, <2>5, PosesStay DEF CameraInv
<1>5. QED
  BY <1>2, <1>3, <1>4

\* The pose that is repeated now is no edit that a cloud on its way came before.
LEMMA RepeatedPoseFits ==
  ASSUME CameraInv, sync # None
  PROVE  /\ [stamp |-> world.now, pose |-> sync] \in Entries
         /\ Fits([stamp |-> world.now, pose |-> sync])
<1>1. /\ world.now \in Nat /\ world.pose \in Nat /\ sync \in Nat /\ sync <= world.pose
      /\ CloudOfItsTime
  BY DEF CameraInv, Made
<1>2. ASSUME cloud # None, world.now <= cloud.stamp PROVE sync <= cloud.pose
  <2>1. cloud.stamp \in Nat /\ cloud.stamp <= world.now
    BY <1>1, <1>2 DEF CloudOfItsTime, Entries
  <2>2. cloud.pose = world.pose
    BY <1>1, <1>2, <2>1 DEF CloudOfItsTime
  <2>3. QED
    BY <1>1, <2>2
<1>3. QED
  BY <1>1, <1>2 DEF Fits, Entries

\* gazebo_scene_pose_sync
LEMMA SyncKeepsCamera ==
  ASSUME CameraInv, Camera!OnStates \/ Camera!PublishCameraPose PROVE CameraInv'
<1>1. /\ world \in [now : Nat, pose : Nat] /\ Made(states) /\ Made(sync)
      /\ PosesFit(poses) /\ PosesFit(adapter) /\ CloudOfItsTime /\ Camera!NoFutureEdit
  BY DEF CameraInv
<1>2. UNCHANGED <<world, adapter, cloud, placed>>
  BY DEF Camera!OnStates, Camera!PublishCameraPose
<1>3. CloudOfItsTime' /\ Camera!NoFutureEdit' /\ \A p \in Entries : Fits(p) => Fits(p)'
  BY <1>1, <1>2 DEF CloudOfItsTime, Camera!NoFutureEdit, Fits
<1>4. CASE Camera!OnStates
  <2>1. sync' = states /\ states' = None /\ poses' = poses
    BY <1>4 DEF Camera!OnStates
  <2>2. Made(states)' /\ Made(sync)'
    BY <1>1, <1>2, <2>1 DEF Made
  <2>3. QED
    BY <1>1, <1>2, <1>3, <2>1, <2>2, PosesStay DEF CameraInv
<1>5. CASE Camera!PublishCameraPose
  <2> DEFINE entry == [stamp |-> world.now, pose |-> sync]
  <2>1. /\ sync # None /\ UNCHANGED <<states, sync>> /\ poses' = Append(poses, entry)
    BY <1>5 DEF Camera!PublishCameraPose
  <2>2. entry \in Entries /\ Fits(entry)
    BY <2>1, RepeatedPoseFits
  <2> HIDE DEF entry
  <2>3. poses' \in Seq(Entries) /\ poses \in Seq(Entries) /\ Len(poses') = Len(poses) + 1
    BY <1>1, <2>1, <2>2 DEF PosesFit
  <2>4. ASSUME NEW i \in 1 .. Len(poses') PROVE Fits(poses'[i])
    <3>1. CASE i = Len(poses) + 1
      <4>1. poses'[i] = entry
        BY <2>1, <2>3, <3>1
      <4>2. QED
        BY <2>2, <4>1
    <3>2. CASE i # Len(poses) + 1
      <4>1. i \in 1 .. Len(poses) /\ poses'[i] = poses[i]
        BY <2>1, <2>3, <3>2
      <4>2. QED
        BY <1>1, <4>1 DEF PosesFit
    <3>3. QED
      BY <3>1, <3>2
  <2>5. PosesFit(poses)'
    BY <1>2, <2>3, <2>4 DEF PosesFit, Fits
  <2>6. PosesFit(adapter)'
    BY <1>1, <1>2 DEF PosesFit, Fits
  <2>7. Made(states)' /\ Made(sync)'
    BY <1>1, <1>2, <2>1 DEF Made
  <2>8. QED
    BY <1>1, <1>2, <1>3, <2>5, <2>6, <2>7 DEF CameraInv
<1>6. QED
  BY <1>4, <1>5

\* gazebo_rgbd_adapter takes a pose over.
LEMMA CallbackKeepsCamera ==
  ASSUME CameraInv, Camera!CameraPoseCallback PROVE CameraInv'
<1>1. /\ world \in [now : Nat, pose : Nat] /\ Made(states) /\ Made(sync)
      /\ PosesFit(poses) /\ PosesFit(adapter) /\ CloudOfItsTime /\ Camera!NoFutureEdit
  BY DEF CameraInv
<1> DEFINE longer == Append(adapter, Head(poses))
<1>2. /\ poses # <<>> /\ poses' = Tail(poses)
      /\ adapter' = longer \/ adapter' = Tail(longer)
      /\ UNCHANGED <<world, states, sync, cloud, placed>>
  BY DEF Camera!CameraPoseCallback
<1>3. /\ poses \in Seq(Entries) /\ adapter \in Seq(Entries)
      /\ Len(poses) \in Nat /\ Len(poses) >= 1 /\ Head(poses) = poses[1]
      /\ poses[1] \in Entries
  BY <1>1, <1>2 DEF PosesFit
<1>4. ASSUME NEW sequence \in Seq(Entries), sequence # <<>>,
             \A i \in 1 .. Len(sequence) : Fits(sequence[i])
      PROVE  /\ Tail(sequence) \in Seq(Entries)
             /\ \A i \in 1 .. Len(Tail(sequence)) : Fits(Tail(sequence)[i])
  <2>1. /\ Tail(sequence) \in Seq(Entries) /\ Len(Tail(sequence)) = Len(sequence) - 1
        /\ \A i \in 1 .. Len(Tail(sequence)) : Tail(sequence)[i] = sequence[i + 1]
    BY <1>4
  <2>2. \A i \in 1 .. Len(Tail(sequence)) : i + 1 \in 1 .. Len(sequence)
    BY <2>1
  <2>3. QED
    BY <1>4, <2>1, <2>2
<1>5. /\ poses' \in Seq(Entries)
      /\ \A i \in 1 .. Len(poses') : Fits(poses'[i])
  BY <1>1, <1>2, <1>3, <1>4 DEF PosesFit
<1>6. /\ longer \in Seq(Entries) /\ longer # <<>>
      /\ \A i \in 1 .. Len(longer) : Fits(longer[i])
  <2> DEFINE head == Head(poses)
  <2>1. head \in Entries /\ Fits(head)
    BY <1>1, <1>3 DEF PosesFit
  <2> HIDE DEF head
  <2>2. /\ Append(adapter, head) \in Seq(Entries) /\ Append(adapter, head) # <<>>
        /\ Len(Append(adapter, head)) = Len(adapter) + 1
        /\ Append(adapter, head)[Len(adapter) + 1] = head
        /\ \A i \in 1 .. Len(adapter) : Append(adapter, head)[i] = adapter[i]
    BY <1>3, <2>1
  <2>3. \A i \in 1 .. Len(adapter) : Fits(adapter[i])
    BY <1>1 DEF PosesFit
  <2>4. \A i \in 1 .. Len(Append(adapter, head)) :
            i = Len(adapter) + 1 \/ i \in 1 .. Len(adapter)
    BY <1>3, <2>2
  <2>5. \A i \in 1 .. Len(Append(adapter, head)) : Fits(Append(adapter, head)[i])
    BY <2>1, <2>2, <2>3, <2>4
  <2>6. QED
    BY <2>2, <2>5 DEF head
<1> HIDE DEF longer
<1>7. /\ adapter' \in Seq(Entries)
      /\ \A i \in 1 .. Len(adapter') : Fits(adapter'[i])
  BY <1>2, <1>4, <1>6
<1>8. PosesFit(poses)' /\ PosesFit(adapter)'
  BY <1>2, <1>5, <1>7 DEF PosesFit, Fits
<1>9. QED
  BY <1>1, <1>2, <1>8
  DEF CameraInv, Made, CloudOfItsTime, Camera!NoFutureEdit

\* gazebo_rgbd_adapter places a cloud.
LEMMA PlacingKeepsCamera ==
  ASSUME CameraInv, Camera!PointsCallback PROVE CameraInv'
<1>1. /\ world \in [now : Nat, pose : Nat] /\ Made(states) /\ Made(sync)
      /\ PosesFit(poses) /\ PosesFit(adapter) /\ CloudOfItsTime
  BY DEF CameraInv
<1> DEFINE used == Camera!PoseForStamp(cloud.stamp)
           early == adapter # <<>> /\ cloud.stamp < Head(adapter).stamp
<1>2. /\ cloud # None /\ cloud' = None
      /\ placed' = [stamp |-> cloud.stamp, pose |-> cloud.pose, used |-> used, early |-> early]
      /\ UNCHANGED <<world, states, sync, poses, adapter>>
  BY DEF Camera!PointsCallback
<1>3. cloud.stamp \in Nat /\ cloud.pose \in Nat
  BY <1>1, <1>2 DEF CloudOfItsTime, Entries
<1>4. ASSUME ~early PROVE used <= cloud.pose
  <2>1. CASE adapter = <<>>
    BY <1>3, <2>1 DEF Camera!PoseForStamp
  <2>2. CASE adapter # <<>>
    <3>1. adapter \in Seq(Entries) /\ \A i \in 1 .. Len(adapter) : Fits(adapter[i])
      BY <1>1 DEF PosesFit
    <3>2. PICK i \in 1 .. Len(adapter) :
              used = adapter[i].pose /\ (i = 1 \/ adapter[i].stamp <= cloud.stamp)
      BY <1>3, <2>2, <3>1, PoseIsHeld
    <3>3. adapter[i] \in Entries /\ adapter[i].stamp \in Nat
      <4>1. adapter[i] \in Entries
        BY <3>1, <3>2
      <4>2. QED
        BY <4>1 DEF Entries
    <3>4. adapter[i].stamp <= cloud.stamp
      <4>1. CASE i = 1
        <5>1. Head(adapter) = adapter[i]
          BY <3>1, <4>1
        <5>2. QED
          BY <1>3, <1>4, <2>2, <3>3, <5>1
      <4>2. QED
        BY <3>2, <4>1
    <3>5. QED
      BY <1>2, <3>1, <3>2, <3>4 DEF Fits
  <2>3. QED
    BY <2>1, <2>2
<1> HIDE DEF used, early
<1>5. Camera!NoFutureEdit'
  BY <1>2, <1>4 DEF Camera!NoFutureEdit
<1>6. PosesFit(poses)' /\ PosesFit(adapter)'
  BY <1>1, <1>2 DEF PosesFit, Fits
<1>7. QED
  BY <1>1, <1>2, <1>5, <1>6 DEF CameraInv, Made, CloudOfItsTime

LEMMA CameraInvKept ==
  ASSUME CameraInv, [Camera!CameraNext]_(Camera!cameraVars) PROVE CameraInv'
<1>1. CASE UNCHANGED Camera!cameraVars
  BY <1>1 DEF Camera!cameraVars, CameraInv, Made, PosesFit, Fits, CloudOfItsTime,
     Camera!NoFutureEdit
<1>2. CASE Camera!CameraNext
  BY <1>2, SimulatorKeepsCamera, SyncKeepsCamera, CallbackKeepsCamera, PlacingKeepsCamera
  DEF Camera!CameraNext
<1>3. QED
  BY <1>1, <1>2

-----------------------------------------------------------------------------
(* Every part.  A behaviour is one of one component, whose section says    *)
(* what holds in it.                                                       *)

SimulationInv ==
    /\ part = "isaac" => IsaacInv
    /\ part = "gateway" => GatewayInv
    /\ part = "resampler" => ResamplerInv
    /\ part = "adapter" => AdapterInv
    /\ part = "sorting" => TaskInv
    /\ part = "camera" => CameraInv

LEMMA SimulationInvInit == Init => SimulationInv
  BY IsaacInvInit, GatewayInvInit, ResamplerInvInit, AdapterInvInit, TaskInvInit,
     CameraInvInit
  DEF Init, SimulationInv

\* One step of the component that runs, with what it may never do.
Allowed ==
    /\ part = "isaac" => Isaac!HoldsCubes
    /\ part = "gateway" => Gateway!NoUnwantedHome
    /\ part = "resampler" => Resampler!GeometryIsFresh
    /\ part = "adapter" => Adapter!LateMaskFindsItsFrame

LEMMA SimulationInvKept ==
  ASSUME SimulationInv, [Next]_vars PROVE SimulationInv' /\ Allowed
<1>1. part' = part
  BY DEF Next, vars
<1>2. ASSUME part = "isaac" PROVE IsaacInv' /\ Isaac!HoldsCubes
  <2>1. [Isaac!Next]_(Isaac!vars)
    BY <1>2 DEF Next, vars, slots, Isaac!vars
  <2>2. QED
    BY <1>2, <2>1, IsaacInvKept DEF SimulationInv
<1>3. ASSUME part = "gateway" PROVE GatewayInv' /\ Gateway!NoUnwantedHome
  <2>1. [Gateway!Next]_(Gateway!vars)
    BY <1>3 DEF Next, vars, slots, Gateway!vars
  <2>2. QED
    BY <1>3, <2>1, GatewayInvKept DEF SimulationInv
<1>4. ASSUME part = "resampler" PROVE ResamplerInv' /\ Resampler!GeometryIsFresh
  <2>1. [Resampler!Next]_(Resampler!vars)
    BY <1>4 DEF Next, vars, slots, Resampler!vars
  <2>2. QED
    BY <1>4, <2>1, ResamplerInvKept DEF SimulationInv
<1>5. ASSUME part = "adapter" PROVE AdapterInv' /\ Adapter!LateMaskFindsItsFrame
  <2>1. [Adapter!Next]_(Adapter!vars)
    BY <1>5 DEF Next, vars, slots, Adapter!vars
  <2>2. QED
    BY <1>5, <2>1, AdapterInvKept DEF SimulationInv
<1>6. ASSUME part = "sorting" PROVE TaskInv'
  <2>1. [Sorting!Next]_(Sorting!vars)
    BY <1>6 DEF Next, vars, slots, Sorting!vars
  <2>2. QED
    BY <1>6, <2>1, TaskInvKept DEF SimulationInv
<1>7. ASSUME part = "camera" PROVE CameraInv'
  <2>1. [Camera!CameraNext]_(Camera!cameraVars)
    BY <1>7 DEF Next, vars, slots, Camera!cameraVars
  <2>2. QED
    BY <1>7, <2>1, CameraInvKept DEF SimulationInv
<1>8. SimulationInv'
  BY <1>1, <1>2, <1>3, <1>4, <1>5, <1>6, <1>7 DEF SimulationInv
<1>9. Allowed
  BY <1>2, <1>3, <1>4, <1>5 DEF Allowed
<1>10. QED
  BY <1>8, <1>9

LEMMA SimulationInvHolds == SimulationSpec => []SimulationInv /\ [][Allowed]_vars
<1>1. SimulationInv /\ [Next]_vars => SimulationInv' /\ Allowed
  BY SimulationInvKept
<1>2. SimulationSpec => []SimulationInv
  BY <1>1, SimulationInvInit, PTL DEF SimulationSpec, vars
<1>3. QED
  BY <1>1, <1>2, PTL DEF SimulationSpec, vars

\* Whatever the goals, the safety state and the threads do, no goal is reported to have
\* succeeded that did not settle (control.py); and until a reset leaves calls behind,
\* the sorting node waits for one call exactly while it is busy, and opens the gripper
\* over the bin only while the planning scene has the cube in the hand (node.py).
THEOREM AnswersStayHonest == SimulationSpec => []AnswersAreHonest
<1>1. SimulationInv => AnswersAreHonest
  BY IsaacInvSays, TaskInvSays DEF SimulationInv, AnswersAreHonest
<1>2. QED
  BY <1>1, SimulationInvHolds, PTL

\* A cube is let go by its own detach only (_update_cube_attachment), and a home that a
\* stop or a reset has ended does not come back with a resume, whatever results arrive
\* late (gazebo_openarm_gateway.py).
THEOREM NothingUnwantedHappens == SimulationSpec => NothingUnwanted
<1>1. Allowed => (/\ part = "isaac" => Isaac!HoldsCubes
                  /\ part = "gateway" => Gateway!NoUnwantedHome)
  BY DEF Allowed
<1>2. QED
  BY <1>1, SimulationInvHolds, PTL DEF NothingUnwanted, vars

\* However late and with whatever losses the messages come, no cloud is placed by a
\* later edit of the camera (gazebo_rgbd_adapter.py), none shows an obstacle of an
\* expired result (realtime_obstacle_resampler.py), and the last part of a stamp
\* publishes its cloud (openarm_perception_adapter/node.py).
THEOREM CloudsKeepTheirTime == SimulationSpec => CloudsAreOfTheirTime
<1>1. SimulationInv => (part = "camera" => Camera!NoFutureEdit)
  BY DEF SimulationInv, CameraInv
<1>2. Allowed => (/\ part = "resampler" => Resampler!GeometryIsFresh
                  /\ part = "adapter" => Adapter!LateMaskFindsItsFrame)
  BY DEF Allowed
<1>3. QED
  BY <1>1, <1>2, SimulationInvHolds, PTL DEF CloudsAreOfTheirTime, vars
=============================================================================

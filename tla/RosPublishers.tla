----------------------------- MODULE RosPublishers -----------------------------
(***************************************************************************)
(* The two worker-driven ROS publishers of the realtime pipeline and the   *)
(* process-wide runtime they share with the camera subscriber:             *)
(* PointCloudTopicPublisher sends the newest cloud at most every Interval, *)
(* ArmObstacleRelationshipPublisher repeats the newest relationship at a   *)
(* fixed rate with its age (realtime_safety/ros2_bridge/                   *)
(* pointcloud_publisher.py, relationship_publisher.py, runtime.py).        *)
(*                                                                         *)
(* A cloud and a perception update are their numbers.  The inference       *)
(* threads give them, the two workers send them, and the pipeline's owner  *)
(* starts both publishers and closes them in turn.                         *)
(***************************************************************************)
EXTENDS Integers, FiniteSetsExt

CONSTANTS
    MaxUpdates,     \* bound on the clouds and on the perception updates given
    MaxRuntimes,    \* bound on the runtimes ever made
    LastTick,       \* bound on the clock
    Interval,       \* ticks between two messages of one publisher
    None            \* no cloud, no state, no runtime

VARIABLES
    now,        \* time.perf_counter
    runtime,    \* _RUNTIME, its users, and how many runtimes there have been
    handle,     \* the runtime each user holds, with its node
    worker,     \* the two publishers' threads: "none", "runs" or "stops"
    cloud,      \* what the point-cloud publisher holds
    relation    \* what the relationship publisher holds

rosVars == <<now, runtime, handle, worker, cloud, relation>>

Publishers == {"cloud", "relation"}
Users == Publishers \cup {"camera"}

RosInit ==
    /\ now = 0
    /\ runtime = [live |-> None, users |-> 0, made |-> 0]
    /\ handle = [u \in Users |-> None]
    /\ worker = [p \in Publishers |-> "none"]
    /\ cloud = [given |-> 0, pending |-> None, taken |-> None, last |-> -Interval, tried |-> 0]
    /\ relation = [given |-> 0, latest |-> None, due |-> 0, message |-> None]

-----------------------------------------------------------------------------
Acquired(r) ==
    [live |-> IF r.live = None THEN r.made + 1 ELSE r.live,
     users |-> r.users + 1,
     made |-> IF r.live = None THEN r.made + 1 ELSE r.made]

\* A seeded fault: the runtime goes with its last user but one.
ReleasedEarly(r, held) ==
    IF held # r.live THEN r
    ELSE [r EXCEPT !.users = Max({@ - 1, 0}), !.live = IF r.users <= 2 THEN None ELSE @]

\* The last user's release shuts the runtime down, outside the lock.
Released(r, held) ==
    IF held # r.live THEN r
    ELSE [r EXCEPT !.users = Max({@ - 1, 0}), !.live = IF r.users <= 1 THEN None ELSE @]

Enter(user) ==
    /\ handle[user] = None /\ (runtime.live = None => runtime.made < MaxRuntimes)
    /\ runtime' = Acquired(runtime)
    /\ handle' = [handle EXCEPT ![user] = runtime'.live]

Leave(user) ==
    /\ handle[user] # None
    /\ runtime' = Released(runtime, handle[user])
    /\ handle' = [handle EXCEPT ![user] = None]

-----------------------------------------------------------------------------
\* A publisher is started once; the camera's topic may be reopened.
StartPublisher(p) ==
    /\ worker[p] = "none" /\ (p = "cloud" => cloud.given = 0) /\ (p = "relation" => relation.given = 0)
    /\ Enter(p)
    /\ worker' = [worker EXCEPT ![p] = "runs"]
    /\ UNCHANGED <<now, cloud, relation>>

OpenCamera == Enter("camera") /\ UNCHANGED <<now, worker, cloud, relation>>
CloseCamera == Leave("camera") /\ UNCHANGED <<now, worker, cloud, relation>>

\* close first asks the worker to stop, then waits two seconds for it.
StopWorker(p) ==
    /\ worker[p] = "runs" /\ worker' = [worker EXCEPT ![p] = "stops"]
    /\ UNCHANGED <<now, runtime, handle, cloud, relation>>

ClosePublisher(p) ==
    /\ worker[p] = "stops"
    /\ Leave(p)
    /\ cloud' = IF p = "cloud"
                THEN [cloud EXCEPT !.pending = None, !.taken = None, !.last = -Interval]
                ELSE cloud
    /\ relation' = IF p = "relation" THEN [relation EXCEPT !.latest = None] ELSE relation
    /\ UNCHANGED <<now, worker>>

-----------------------------------------------------------------------------
\* publish of a cloud: a newer one replaces the pending one.  A publisher that
\* is not started raises, which is the cloud that is not given.  No cloud comes
\* so late that the clock's bound ends its wait.
GiveCloud ==
    /\ handle["cloud"] # None /\ cloud.given < MaxUpdates /\ now + Interval <= LastTick
    /\ cloud' = [cloud EXCEPT !.given = @ + 1, !.pending = cloud.given + 1]
    /\ UNCHANGED <<now, runtime, handle, worker, relation>>

TakeCloud ==
    /\ worker["cloud"] = "runs" /\ cloud.taken = None /\ cloud.pending # None
    /\ cloud' = [cloud EXCEPT !.taken = cloud.pending, !.pending = None]
    /\ UNCHANGED <<now, runtime, handle, worker, relation>>

\* A seeded fault: what came during the wait is dropped instead of sent.
SendCloudTaken(outcome) ==
    /\ worker["cloud"] = "runs" /\ cloud.taken # None /\ now - cloud.last >= Interval
    /\ cloud' = [cloud EXCEPT !.tried = cloud.taken,
                              !.taken = None, !.pending = None,
                              !.last = IF outcome = "sent" THEN now ELSE @]
    /\ UNCHANGED <<now, runtime, handle, worker, relation>>

\* After the rate limit the newest cloud goes out; an empty one is not sent and
\* one that raises is logged, and neither comes again.
SendCloud(outcome) ==
    /\ worker["cloud"] = "runs" /\ cloud.taken # None /\ now - cloud.last >= Interval
    /\ cloud' = [cloud EXCEPT !.tried = IF cloud.pending = None THEN cloud.taken ELSE cloud.pending,
                              !.taken = None, !.pending = None,
                              !.last = IF outcome = "sent" THEN now ELSE @]
    /\ UNCHANGED <<now, runtime, handle, worker, relation>>

\* publish of a relationship: one state, kept until the next.
GiveState ==
    /\ handle["relation"] # None /\ relation.given < MaxUpdates
    /\ relation' = [relation EXCEPT !.given = @ + 1,
                                    !.latest = [perception |-> relation.given + 1, at |-> now]]
    /\ UNCHANGED <<now, runtime, handle, worker, cloud>>

\* A seeded fault: the age is counted from the last repetition.
RepeatStateRenewed ==
    /\ worker["relation"] = "runs" /\ now >= relation.due
    /\ relation' = [relation EXCEPT
          !.due = Max({@ + Interval, now}),
          !.latest = IF @ = None THEN @ ELSE [@ EXCEPT !.at = now],
          !.message = IF relation.latest = None THEN @
                      ELSE [perception |-> relation.latest.perception,
                            age |-> now - relation.latest.at, sent |-> now]]
    /\ UNCHANGED <<now, runtime, handle, worker, cloud>>

\* The fixed-rate worker repeats the state with its age; a message also carries
\* here the time it is sent at.
RepeatState ==
    /\ worker["relation"] = "runs" /\ now >= relation.due
    /\ relation' = [relation EXCEPT
          !.due = Max({@ + Interval, now}),
          !.message = IF relation.latest = None THEN @
                      ELSE [perception |-> relation.latest.perception,
                            age |-> now - relation.latest.at, sent |-> now]]
    /\ UNCHANGED <<now, runtime, handle, worker, cloud>>

Tick == now < LastTick /\ now' = now + 1 /\ UNCHANGED <<runtime, handle, worker, cloud, relation>>

RosNext ==
    \/ \E p \in Publishers : StartPublisher(p) \/ StopWorker(p) \/ ClosePublisher(p)
    \/ OpenCamera \/ CloseCamera \/ GiveCloud \/ TakeCloud \/ GiveState \/ RepeatState \/ Tick
    \/ \E outcome \in {"sent", "empty", "raised"} : SendCloud(outcome)

\* The workers run and time passes.
RosFairness ==
    /\ WF_rosVars(TakeCloud) /\ WF_rosVars(\E o \in {"sent", "empty", "raised"} : SendCloud(o))
    /\ WF_rosVars(RepeatState) /\ WF_rosVars(Tick)

RosSpec == RosInit /\ [][RosNext]_rosVars /\ RosFairness

-----------------------------------------------------------------------------
\* Whoever holds a node holds it in the runtime that is live: one user's close
\* never takes the executor from another (runtime.py:54-65).
RuntimeIsShared == \A u \in Users : handle[u] # None => handle[u] = runtime.live

\* A repeated relationship never looks fresher than it is: between two messages
\* of one perception update the age grows by the time between them
\* (relationship_publisher.py:356-399, perception_age_sec).
AgeIsHonest ==
    LET before == relation.message
        after == relation'.message
    IN  (before # None /\ after # before /\ before.perception = after.perception) =>
            after.age - before.age = after.sent - before.sent

\* The last cloud given is not held back by the rate limit for ever, unless its
\* publisher is closed (pointcloud_publisher.py:174-202).
NewestTried == cloud.tried >= cloud.given \/ worker["cloud"] = "stops"

LastCloudIsTried == []<>NewestTried

=============================================================================

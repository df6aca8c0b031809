------------------------------ MODULE MaskAdapter ------------------------------
(***************************************************************************)
(* The adapter that pairs color, aligned depth and mask of one stamp into  *)
(* a metric obstacle cloud (openarm_perception_adapter/node.py, input_mode *)
(* "mask").  The three topics keep the order of their stamps and may lose  *)
(* messages; masks and depth images have one size.                         *)
(***************************************************************************)
EXTENDS Integers, FiniteSets

CONSTANTS
    LastStamp,  \* bound on the stamps
    Keep        \* the bundles left after a cloud (5 in _try_process)

VARIABLES
    seen,       \* the last stamp of each topic
    info,       \* latest_info is known
    inputs,     \* per stamp the parts its bundle has
    out,        \* the stamp of the last cloud
    arrived     \* ghost: per stamp the parts that ever came

vars == <<seen, info, inputs, out, arrived>>
Parts == {"color", "depth", "mask"}
Stamps == 1 .. LastStamp

Init ==
    /\ seen = [part \in Parts |-> 0] /\ info = FALSE
    /\ inputs = [s \in Stamps |-> {}] /\ out = 0
    /\ arrived = [s \in Stamps |-> {}]

Open(bundles) == {s \in Stamps : bundles[s] # {}}

\* A seeded fault: the oldest bundles are kept.
TrimmedNewest(bundles) ==
    [s \in Stamps |->
        IF Cardinality({t \in Open(bundles) : t < s}) < Keep THEN bundles[s] ELSE {}]

\* After a cloud only the newest bundles stay; nothing else removes any.
Trimmed(bundles) ==
    [s \in Stamps |->
        IF Cardinality({t \in Open(bundles) : t > s}) < Keep THEN bundles[s] ELSE {}]

\* _color, _depth and _mask with _try_process
Receive(part, s) ==
    LET bundles == [inputs EXCEPT ![s] = @ \cup {part}] IN
    /\ s > seen[part] /\ seen' = [seen EXCEPT ![part] = s]
    /\ arrived' = [arrived EXCEPT ![s] = @ \cup {part}] /\ UNCHANGED info
    /\ IF info /\ bundles[s] = Parts
       THEN inputs' = Trimmed([bundles EXCEPT ![s] = {}]) /\ out' = s
       ELSE inputs' = bundles /\ UNCHANGED out

\* _info: bundles that were complete before it are not looked at again.
Info == ~info /\ info' = TRUE /\ UNCHANGED <<seen, inputs, out, arrived>>

Next == Info \/ \E part \in Parts, s \in Stamps : Receive(part, s)

AdapterSpec == Init /\ [][Next]_vars

-----------------------------------------------------------------------------
\* A mask that comes late still finds its frame: once the camera is known, the
\* last part of a stamp publishes its cloud whatever clouds went out since, as
\* long as at most Keep - 1 later stamps have been opened, and clouds go out in
\* the order of their stamps.
LateMaskFindsItsFrame ==
    /\ out' >= out
    /\ \A s \in Stamps :
         (/\ info /\ arrived[s] # Parts /\ arrived'[s] = Parts
          /\ Cardinality({t \in Stamps : t > s /\ arrived[t] # {}}) < Keep)
         => out' = s

=============================================================================

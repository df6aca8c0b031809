------------------------------ MODULE MCPipeline ------------------------------
(* A file of two frames without incidents, in either mode, read to its end   *)
(* or up to max_frames, and a file of one frame with one incident.           *)
EXTENDS RealtimePipeline

MCPlans ==
    {[mode |-> m, length |-> 2, limit |-> l, incidents |-> 0] :
        m \in {"safety", "reconstruction"}, l \in {0, 1}}
    \cup {[mode |-> "safety", length |-> 1, limit |-> 0, incidents |-> 1]}

=============================================================================

------------------------------ MODULE Mast3rSlam ------------------------------
(***************************************************************************)
(* The MASt3R-SLAM process and the adapter that talks to it over two pipes *)
(* (realtime_safety/pipeline/mast3r_slam_adapter.py and                    *)
(* mast3r_slam_worker.py).  One thread calls the adapter and waits for one *)
(* answer per request: with a time-out for the start and for a reset,      *)
(* without one for an inference.  The process may be slow, fail a request  *)
(* half-way, or die at any moment.                                         *)
(***************************************************************************)
EXTENDS Integers, Sequences

CONSTANTS
    MaxCalls,       \* bound on the calls
    MaxKeyframes,   \* bound on len(keyframes.frames)
    LoopClosure,    \* mast3r_slam_loop_closure: there is a retriever
    None

VARIABLES
    calls,      \* how many calls were made; the number of a request
    client,     \* the adapter: None, or the request whose answer it waits for
    usable,     \* _models_ready["mast3r_slam"] of the calling worker
    process,    \* Popen: None or its step and the map of its SlamEngine
    stdin,      \* requests written and not yet read
    stdout      \* answers written and not yet read

vars == <<calls, client, usable, process, stdin, stdout>>

Request(command) == [command |-> command, number |-> calls + 1]
Answer(request, ok) == [to |-> request.number, ok |-> ok]
EmptyMap == [keyframes |-> 0, sequence |-> 0]

available == process # None /\ process.pc # "exited"

Init ==
    /\ calls = 0 /\ client = None /\ usable = FALSE /\ process = None
    /\ stdin = <<>> /\ stdout = <<>>

-----------------------------------------------------------------------------
\* The adapter, and the calls _reconstruction_worker makes.
Call(command) ==
    /\ client = None /\ calls < MaxCalls
    /\ calls' = calls + 1 /\ client' = Request(command) /\ UNCHANGED usable

\* load: a process that has exited is replaced, pipes and all.
Load ==
    /\ Call("start") /\ ~usable /\ ~available
    /\ process' = [pc |-> "starting", map |-> EmptyMap, serves |-> Request("start")]
    /\ stdin' = <<>> /\ stdout' = <<>>

\* _send writes the request to a process that is alive; infer is called while
\* the method is ready, reset whenever the input has been reset.
Send(command) ==
    /\ Call(command) /\ available
    /\ command = "infer" => usable
    /\ stdin' = Append(stdin, Request(command))
    /\ UNCHANGED <<process, stdout>>

\* The process is gone: infer raises and the method is no longer ready.
FindMissing ==
    /\ client = None /\ usable /\ ~available
    /\ usable' = FALSE /\ UNCHANGED <<calls, client, process, stdin, stdout>>

\* close: the process is asked to leave, then terminated, then killed.
Closed == process' = None /\ stdin' = <<>> /\ stdout' = <<>>

Close ==
    /\ client = None /\ process # None /\ Closed
    /\ usable' = FALSE /\ UNCHANGED <<calls, client>>

\* _receive, and what the caller does with the answer.
UsableIf(ok) ==
    usable' = IF client.command = "reset" THEN usable ELSE ok

\* A seeded fault: a failed inference leaves the method ready.
ReceiveForgiving ==
    /\ client # None /\ stdout # <<>>
    /\ client' = None /\ UNCHANGED calls
    /\ usable' = (usable \/ (client.command = "start" /\ Head(stdout).ok))
    /\ IF ~Head(stdout).ok /\ client.command # "infer" THEN Closed
       ELSE stdout' = Tail(stdout) /\ UNCHANGED <<process, stdin>>

Receive ==
    /\ client # None /\ stdout # <<>>
    /\ UsableIf(Head(stdout).ok)
    /\ client' = None /\ UNCHANGED calls
    /\ IF ~Head(stdout).ok /\ client.command # "infer" THEN Closed
       ELSE stdout' = Tail(stdout) /\ UNCHANGED <<process, stdin>>

FindEof ==
    /\ client # None /\ stdout = <<>> /\ ~available
    /\ UsableIf(FALSE)
    /\ client' = None /\ UNCHANGED calls
    /\ IF client.command # "infer" THEN Closed ELSE UNCHANGED <<process, stdin, stdout>>

\* A seeded fault: a call whose time is over leaves the process running.
TimeOutKeepsProcess ==
    /\ client # None /\ stdout = <<>> /\ client.command # "infer"
    /\ client' = None /\ UNCHANGED <<calls, usable, process, stdin, stdout>>

TimeOut ==
    /\ client # None /\ stdout = <<>> /\ client.command # "infer"
    /\ UsableIf(FALSE) /\ Closed
    /\ client' = None /\ UNCHANGED calls

-----------------------------------------------------------------------------
\* The process: main and SlamEngine.
Serving(pc) == available /\ process.pc = pc /\ UNCHANGED <<calls, client, usable>>

Reply(ok, map) ==
    /\ stdout' = Append(stdout, Answer(process.serves, ok))
    /\ process' = [process EXCEPT !.pc = "read", !.map = map, !.serves = None]
    /\ UNCHANGED stdin

Start ==
    /\ Serving("starting")
    /\ \/ Reply(TRUE, EmptyMap)
       \/ /\ stdout' = Append(stdout, Answer(process.serves, FALSE))
          /\ process' = [process EXCEPT !.pc = "exited"]
          /\ UNCHANGED stdin

ReadMessage ==
    /\ Serving("read") /\ stdin # <<>>
    /\ process' = [process EXCEPT !.pc = Head(stdin).command, !.serves = Head(stdin)]
    /\ stdin' = Tail(stdin) /\ UNCHANGED stdout

\* A new worker is taken to be empty while it has answered no inference.
ResetMap ==
    /\ Serving("reset")
    /\ Reply(TRUE, IF process.map.sequence > 0 THEN EmptyMap ELSE process.map)

\* SlamEngine.infer: the first frame opens the map; a later one is tracked,
\* becomes a keyframe, or is relocalised.  The retrieval and the optimiser
\* may raise after the keyframe has been appended; a relocalisation that
\* fails takes its keyframe back.
Grown(map) ==
    [map EXCEPT !.keyframes = IF @ < MaxKeyframes THEN @ + 1 ELSE @]
Tracked(map) == [map EXCEPT !.sequence = 1]

InferFirst ==
    /\ process.map.keyframes = 0
    /\ \/ Reply(TRUE, Tracked(Grown(process.map)))
       \/ LoopClosure /\ Reply(FALSE, Grown(process.map))
       \/ Reply(FALSE, process.map)

InferNext ==
    /\ process.map.keyframes > 0
    /\ \/ Reply(TRUE, Tracked(process.map))
       \/ Reply(TRUE, Tracked(Grown(process.map)))
       \/ Reply(FALSE, Grown(process.map))
       \/ Reply(FALSE, process.map)

Infer == Serving("infer") /\ (InferFirst \/ InferNext)

Die ==
    /\ available /\ process' = [process EXCEPT !.pc = "exited", !.serves = None]
    /\ UNCHANGED <<calls, client, usable, stdin, stdout>>

-----------------------------------------------------------------------------
Adapter ==
    \/ Load \/ Send("infer") \/ Send("reset") \/ FindMissing \/ Close 
    \/ Receive \/ FindEof \/ TimeOut
Worker == Start \/ ReadMessage \/ ResetMap \/ Infer \/ Die
Next == Adapter \/ Worker

SlamSpec == Init /\ [][Next]_vars

\* An answer that comes after its caller has given up is never taken for the
\* answer to a later request: there is never more than one on its way, and
\* it belongs to the request the adapter waits for (the numbers are not on
\* the wire: reset and load close the process when their time is over).
AnswersMatch ==
    /\ Len(stdout) <= 1
    /\ \A i \in DOMAIN stdout : client # None /\ stdout[i].to = client.number

\* A reset is skipped by a process that has answered no inference ("A newly
\* started worker is already empty"): its map really is empty then, because
\* a first inference that fails after its keyframe was appended takes the
\* method out of use.
SkippedResetIsClean ==
    usable /\ client = None /\ available /\ process.map.sequence = 0
        => process.map.keyframes = 0

=============================================================================

----------------------------- MODULE SensorSync -----------------------------
(***************************************************************************)
(* From the sensor topics to the geometry frames the tracker processes:    *)
(* RosSensorSynchronizer pairs clouds and images and, when no partner      *)
(* comes, sends a geometry message alone; the node's bounded queue drops   *)
(* the oldest bundle; the worker compares each stamp with the last one it  *)
(* processed.  Pairing, fallback and queue each may reorder or repeat.     *)
(*                                                                         *)
(* Abstracted: stamps count sensor frames, and one geometry source (the    *)
(* point cloud) and one partner (the RGB image) are modelled, whose        *)
(* contents and calibration are left out.  Each topic keeps its order, but *)
(* may be late.  The clock, which the node shares with the sensors, may    *)
(* restart once.  The approximate-time synchronizer of message_filters is  *)
(* external: it pairs equal stamps and drops what is older than a pair.    *)
(***************************************************************************)
EXTENDS Integers, Sequences, FiniteSets, SequencesExt

CONSTANTS LastStamp,       \* bound on the stamps before the clock restarts
          LastStampAgain,  \* bound on the stamps after it
          QueueSize,       \* performance.maximum_queue_length
          MaxDataAge,      \* sync.max_data_age_sec, in frames
          ResetThreshold,  \* max(2 * sensor_stale_timeout_sec, 1), in frames
          None

VARIABLES epoch, clock,  \* the sensor's clock: restarts, and the last stamp used
          arriving,      \* sensor messages on their way, in any order
          unpaired,      \* what the synchronizer of message_filters still keeps
          pending,       \* _pending_geometry
          done,          \* _processed
          queue,         \* _work_queue
          last,          \* _last_processed_stamp
          reset          \* history: the epoch of the clock at the last reset of the tracker

syncVars == <<epoch, clock, arriving, unpaired, pending, done, queue, last, reset>>

(* A stamp in seconds; the epochs of a clock overlap in stamps.            *)
Stamped(kind, stamp) == [kind |-> kind, stamp |-> stamp, epoch |-> epoch]
Bundle(message) == [stamp |-> message.stamp, epoch |-> message.epoch]
Older(m, n) == m.epoch < n.epoch \/ (m.epoch = n.epoch /\ m.stamp < n.stamp)

Init ==
    /\ epoch = 1 /\ clock = 0
    /\ arriving = {} /\ unpaired = {} /\ pending = {} /\ done = {}
    /\ queue = <<>>
    /\ last = None
    /\ reset = None

(* A full queue loses its oldest bundle.                                   *)
Enqueued(q, bundle) == Append(IF Len(q) = QueueSize THEN Tail(q) ELSE q, bundle)

-----------------------------------------------------------------------------
(* The sensors: a frame may lack its image or its cloud, and clouds and    *)
(* images travel on their own topics.                                      *)

Sense ==
    /\ clock < IF epoch = 1 THEN LastStamp ELSE LastStampAgain
    /\ clock' = clock + 1
    /\ \E kinds \in (SUBSET {"cloud", "rgb"}) \ {{}} :
          arriving' = arriving \cup {Stamped(k, clock') : k \in kinds}
    /\ UNCHANGED <<epoch, unpaired, pending, done, queue, last, reset>>

(* A bag that is played again, or a simulator that restarts.               *)
ClockRestarts ==
    /\ epoch = 1 /\ clock = LastStamp
    /\ epoch' = 2 /\ clock' = 0
    /\ UNCHANGED <<arriving, unpaired, pending, done, queue, last, reset>>

-----------------------------------------------------------------------------
(* _on_raw runs for every message before the synchronizer sees it.         *)

Partner(message) ==
    {other \in unpaired : other.kind # message.kind /\ other.stamp = message.stamp}

(* A pair found: whatever geometry it holds counts as processed, also if   *)
(* it has gone out alone before.                                           *)
OnSynchronized(message, other) ==
    LET cloud == CHOOSE m \in {message, other} : m.kind = "cloud"
    IN  /\ done' = done \cup {cloud.stamp}
        /\ queue' = Enqueued(queue, Bundle(cloud))
        /\ unpaired' = {m \in unpaired : m.stamp > message.stamp}

Receive ==
    \E message \in arriving :
        LET raw == IF message.kind = "cloud"
                     THEN {m \in pending : m.stamp # message.stamp} \cup {message} ELSE pending
        IN  /\ \A m \in arriving : m.kind = message.kind => ~Older(m, message)
            /\ arriving' = arriving \ {message}
            /\ IF Partner(message) # {}
                 THEN /\ OnSynchronized(message, CHOOSE m \in Partner(message) : TRUE)
                      /\ pending' = {m \in raw : m.stamp # message.stamp}
                 ELSE /\ unpaired' = unpaired \cup {message}
                      /\ pending' = raw
                      /\ UNCHANGED <<done, queue>>
            /\ UNCHANGED <<epoch, clock, last, reset>>

(* The timer: geometry that has waited long enough is sent alone, unless   *)
(* its stamp counts as processed.                                          *)
EmitFallback(message) ==
    IF message.stamp \in done
      THEN UNCHANGED <<done, queue>>
      ELSE /\ done' = done \cup {message.stamp}
           /\ queue' = Enqueued(queue, Bundle(message))

FlushFallbacks ==
    \E message \in pending :
        /\ \A m \in pending : ~Older(m, message)
        /\ pending' = pending \ {message}
        /\ EmitFallback(message)
        /\ UNCHANGED <<epoch, clock, arriving, unpaired, last, reset>>

(* Stamps are forgotten some time after they were processed.               *)
ForgetProcessed ==
    \E stamp \in done :
        /\ done' = done \ {stamp}
        /\ UNCHANGED <<epoch, clock, arriving, unpaired, pending, queue, last, reset>>

-----------------------------------------------------------------------------
(* The worker: data that is too old or from the future is rejected, an     *)
(* equal stamp and a slightly older one are dropped, and a much older one  *)
(* is taken for a clock reset.                                             *)

\* A fault: the age of the data is not checked, only that it is not in the future.
ValidTimestampOfAnyAge(stamp) == stamp <= clock

ValidTimestamp(stamp) == clock - stamp <= MaxDataAge /\ stamp <= clock

Verdict(stamp) ==
    IF ~ValidTimestamp(stamp) THEN "rejected"
    ELSE IF last = None THEN "next"
    ELSE IF stamp > last THEN "next"
    ELSE IF last - stamp > ResetThreshold THEN "reset"
    ELSE "dropped"

ProcessBundle ==
    /\ queue # <<>>
    /\ queue' = Tail(queue)
    /\ LET bundle == Head(queue)
           verdict == Verdict(bundle.stamp)
       IN /\ last' = IF verdict \in {"next", "reset"} THEN bundle.stamp ELSE last
          /\ reset' = IF verdict = "reset" THEN epoch ELSE reset
    /\ UNCHANGED <<epoch, clock, arriving, unpaired, pending, done>>

Next ==
    \/ Sense \/ ClockRestarts \/ Receive \/ FlushFallbacks \/ ForgetProcessed \/ ProcessBundle

-----------------------------------------------------------------------------
(* A reset throws away every track, its number and its hand verdict.       *)
(* However late pairs and fallbacks come, in whatever order and how often, *)
(* the tracker is reset only after the clock has restarted.                *)
OnlyRestartsReset == reset # 1
=============================================================================

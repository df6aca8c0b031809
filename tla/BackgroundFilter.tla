-------------------------- MODULE BackgroundFilter --------------------------
(***************************************************************************)
(* The static background of a fixed camera (StaticBackgroundFilter).  A    *)
(* baseline is learned once; afterwards each frame is compared with it     *)
(* along the camera rays.  Monocular depth drifts by a common factor, so   *)
(* every frame yields a candidate for that factor, or none; a window of    *)
(* candidates is checked and the factor in use follows it step by step.    *)
(*                                                                         *)
(* Abstracted: factors are whole numbers of steps away from the factor at  *)
(* calibration (0).  A window may spread over Spread steps and its median  *)
(* deviation allows less than a step; one frame corrects at most Spread    *)
(* steps downwards and at most one step upwards, which is rate-limited.    *)
(***************************************************************************)
EXTENDS Integers, Sequences, SequencesExt

CONSTANTS WarmupFrames, CalibrationFrames,
          Factors,            \* the depth factors a frame can suggest, 0 among them
          WindowFrames, MinValidFrames,
          Spread,             \* alignment_max_window_range, alignment_max_step_fraction
          AlignmentHold,      \* alignment_hold_frames
          None

VARIABLES warmup, calibration,   \* _warmup_count, _calibration_count
          baseline,              \* a tree was built
          window,                \* _alignment_candidates
          factor, hasLock,       \* _alignment_scale, _alignment_has_lock
          invalid,               \* _alignment_invalid_frames, up to AlignmentHold + 1
          result,                \* what the last frame was told
          bridged,               \* history: frames subtracted with an earlier frame's factor
          proved                 \* history: the factors that settled windows proved

filterVars == <<warmup, calibration, baseline, window, factor, hasLock, invalid, result,
                bridged, proved>>

Init ==
    /\ warmup = 0 /\ calibration = 0 /\ baseline = FALSE
    /\ window = <<>>
    /\ factor = 0 /\ hasLock = FALSE /\ invalid = 0
    /\ result = [valid |-> FALSE, factor |-> 0]
    /\ bridged = 0 /\ proved = {0}

State ==
    IF baseline THEN "READY" ELSE IF warmup < WarmupFrames THEN "WARMING_UP" ELSE "CALIBRATING"

Result(valid, by) == result' = [valid |-> valid, factor |-> by]

Distance(a, b) == IF a > b THEN a - b ELSE b - a

-----------------------------------------------------------------------------
(* Learning the baseline.  With too few points it goes on collecting.      *)

WarmUp ==
    /\ State = "WARMING_UP"
    /\ warmup' = warmup + 1
    /\ UNCHANGED <<calibration, baseline, window, factor, hasLock, invalid, bridged, proved>>
    /\ Result(FALSE, 0)

BuildBaseline == baseline' \in BOOLEAN

Calibrate ==
    /\ State = "CALIBRATING"
    /\ calibration' = IF calibration < CalibrationFrames THEN calibration + 1 ELSE calibration
    /\ IF calibration' >= CalibrationFrames THEN BuildBaseline ELSE UNCHANGED baseline
    /\ UNCHANGED <<warmup, window, factor, hasLock, invalid, bridged, proved>>
    /\ Result(FALSE, 0)

-----------------------------------------------------------------------------
(* Following the drift.                                                    *)

Sorted(w) == SortSeq(SelectSeq(w, LAMBDA c : c # None), LAMBDA a, b : a < b)

(* The middle of the window's candidates, and whether they agree on it.    *)
Target(w) == LET s == Sorted(w) IN s[(Len(s) + 1) \div 2]
Agree(w) ==
    LET s == Sorted(w)
    IN  /\ s[Len(s)] - s[1] <= Spread
        /\ 2 * Len(SelectSeq(s, LAMBDA c : c = Target(w))) > Len(s)

\* A fault: a frame near the lock is not counted among the bridged ones.
HoldUncounted ==
    LET valid == hasLock /\ invalid <= AlignmentHold
    IN  /\ Result(valid, IF valid THEN factor ELSE 0)
        /\ bridged' = IF valid /\ bridged <= AlignmentHold THEN bridged + 1 ELSE bridged
        /\ UNCHANGED <<factor, hasLock, invalid, proved>>

(* No usable evidence: the lock bridges a few frames.                      *)
Hold ==
    LET n == IF invalid <= AlignmentHold THEN invalid + 1 ELSE invalid
        valid == hasLock /\ n <= AlignmentHold
    IN  /\ invalid' = n
        /\ Result(valid, IF valid THEN factor ELSE 0)
        /\ bridged' = IF valid /\ bridged <= AlignmentHold THEN bridged + 1 ELSE bridged
        /\ UNCHANGED <<factor, hasLock, proved>>

(* Too few candidates to judge by: only an unchanged factor is taken, or   *)
(* one near the lock.                                                      *)
FillWindow(candidate) ==
    IF candidate = 0
      THEN Result(TRUE, 0) /\ UNCHANGED <<factor, hasLock, invalid, bridged, proved>>
    ELSE IF hasLock /\ Distance(candidate, factor) <= Spread
      THEN Hold
    ELSE Result(FALSE, 0) /\ UNCHANGED <<factor, hasLock, invalid, bridged, proved>>

(* The factor moves towards the target; upwards it may take several frames *)
(* to make a step.  It is used once it has arrived.                        *)
Follow(w) ==
    LET target == Target(w)
    IN  /\ factor' \in IF target > factor THEN {factor, factor + 1}
                       ELSE IF factor - target > Spread THEN {factor - Spread} ELSE {target}
        /\ IF factor' = target
             THEN /\ hasLock' = TRUE /\ invalid' = 0
                  /\ Result(TRUE, factor')
                  /\ bridged' = 0 /\ proved' = proved \cup {factor'}
             ELSE /\ Result(FALSE, 0)
                  /\ UNCHANGED <<hasLock, invalid, bridged, proved>>

(* A candidate needs enough agreeing points, spread over the image's rim.  *)
Candidates == Factors \cup {None}

Validate(candidate) ==
    LET w == Append(IF Len(window) = WindowFrames THEN Tail(window) ELSE window, candidate)
    IN  /\ window' = w
        /\ IF candidate = None THEN Hold
           ELSE IF Len(w) < WindowFrames \/ Len(Sorted(w)) < MinValidFrames
             THEN FillWindow(candidate)
           ELSE IF ~Agree(w) THEN Hold
           ELSE Follow(w)

Subtract ==
    /\ State = "READY"
    /\ \E candidate \in Candidates : Validate(candidate)
    /\ UNCHANGED <<warmup, calibration, baseline>>

(* No ray meets the baseline: nothing is compared, nothing is remembered.  *)
NothingMatches ==
    /\ State = "READY"
    /\ Result(FALSE, 0)
    /\ UNCHANGED <<warmup, calibration, baseline, window, factor, hasLock, invalid,
                   bridged, proved>>

Next == WarmUp \/ Calibrate \/ Subtract \/ NothingMatches

-----------------------------------------------------------------------------
(* Between two frames whose own window settles at most AlignmentHold       *)
(* frames are subtracted with the factor of an earlier one, however good   *)
(* and bad frames alternate: a stale factor would hide a hand.             *)
LockIsBridgedBriefly == bridged <= AlignmentHold

(* A partial correction is never subtracted with, not even while bridging. *)
(* The code does not keep it.                                              *)
PartialIsNotUsed == result.valid => result.factor \in proved

(* The factor of consecutive frames follows the drift step by step.        *)
(* The code does not keep it.                                              *)
FactorIsSlewed ==
    result'.valid /\ result.valid => Distance(result'.factor, result.factor) <= Spread
=============================================================================

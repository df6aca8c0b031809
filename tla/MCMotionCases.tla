---------------------------- MODULE MCMotionCases ----------------------------
(***************************************************************************)
(* Two instances of the motion side in one run, told apart by part: both   *)
(* arms without retries, and one arm with every retry and refresh counter  *)
(* at one.  The properties are those of MotionSystem, read in both: none   *)
(* of them asks for an arm its request does not name.                      *)
(***************************************************************************)
EXTENDS MotionSystem

VARIABLE part       \* the instance of this behaviour

Budget(commands, changes, hand) ==
    [commands |-> commands, changes |-> changes, hand |-> hand]

BothArms == <<"left", "right">>
PairBudgets == {Budget(1, 1, 0), Budget(1, 0, 1)}

Retries == INSTANCE MotionSystem WITH
    SideOrder <- <<"left">>, CrisisRetries <- 1, RouteRetries <- 1,
    RouteRefreshes <- 1, TargetRetries <- 1, WaitingRetries <- 1,
    Commands <- {"target"}, MaxGoals <- 1, Budgets <- {Budget(1, 1, 0)}

CasesInit ==
    \/ part = "pair" /\ Init
    \/ part = "retries" /\ Retries!Init

CasesNext ==
    /\ UNCHANGED part
    /\ \/ part = "pair" /\ Next
       \/ part = "retries" /\ Retries!Next

CasesSpec == CasesInit /\ [][CasesNext]_<<part, vars>>
=============================================================================

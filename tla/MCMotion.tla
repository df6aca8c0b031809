------------------------------ MODULE MCMotion ------------------------------
EXTENDS MotionSystem

LeftOnly == <<"left">>

Budget(commands, changes, hand) ==
    [commands |-> commands, changes |-> changes, hand |-> hand]

\* One arm: a stop and what follows it, the hand while the supervisor changes its
\* mind, and two commands.
ArmBudgets == {Budget(1, 2, 0), Budget(1, 1, 1), Budget(2, 1, 0)}

\* The shortest behaviours that break a claim.
PauseBudgets == {Budget(1, 2, 0)}
StopBudgets == {Budget(1, 3, 0)}
=============================================================================

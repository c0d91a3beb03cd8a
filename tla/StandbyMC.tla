----------------------------- MODULE StandbyMC -----------------------------
(* Instances of Standby for TLC. *)
EXTENDS Standby

CONSTANTS eyes, striker

TwoRobots == {eyes, striker}
Eyes == {eyes}
Striker == {striker}

\* The striker may miss a state of the game altogether.
StrikerMissesOne == [r \in TwoRobots |-> IF r = striker THEN 2 ELSE 1]

=============================================================================

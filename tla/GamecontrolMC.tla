--------------------------- MODULE GamecontrolMC ---------------------------
(* Instances of Gamecontrol for TLC. *)
EXTENDS Gamecontrol

Says(s, p, shootout, kickoff) ==
  [state |-> s, penalty |-> p, shootout |-> shootout, kickoff |-> kickoff]

PlayOn == Says("PLAYING", "NONE", FALSE, FALSE)
PickedUp == Says("SET", "REQUEST_FOR_PICKUP", TRUE, TRUE)
GameOrPenalty == {PlayOn, PickedUp}

DebuggerWrites == {<<"penalty", "NONE">>}

=============================================================================

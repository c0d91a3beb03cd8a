--------------------------- MODULE BodyControlMC ---------------------------
(* Instances of BodyControl for TLC. *)
EXTENDS BodyControl

CONSTANTS walk, stand, standUp, designer

AMotionOfEachKind == {walk, stand, standUp, designer}
OneStance == {stand}
OneSequence == {standUp}

=============================================================================

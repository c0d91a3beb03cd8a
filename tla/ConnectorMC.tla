---------------------------- MODULE ConnectorMC ----------------------------
(* Instances of Connector for TLC. *)
EXTENDS Connector

BothPostures == {"upright", "tilted"}
Upright == {"upright"}
BothBatteries == {"fine", "low"}
Fine == {"fine"}
\* A fork that fails is a click that does nothing.
MostFaults == {"socket", "signal"}
OnlySocket == {"socket"}
SomeClicks == AllClicks \ {"DOUBLE"} \* does what NONE does
StartOnly == {"NONE", "SINGLE"}

=============================================================================

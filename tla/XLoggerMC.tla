----------------------------- MODULE XLoggerMC -----------------------------
(* Instances of XLogger for TLC. *)
EXTENDS XLogger

=============================================================================

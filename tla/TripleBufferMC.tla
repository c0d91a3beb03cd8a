--------------------------- MODULE TripleBufferMC ---------------------------
(* Instances of TripleBuffer for TLC. *)
EXTENDS TripleBuffer

Both == {"writer", "reader"}
OnlyWriter == {"writer"}

=============================================================================

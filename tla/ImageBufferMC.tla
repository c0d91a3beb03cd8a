--------------------------- MODULE ImageBufferMC ---------------------------
(* Instances of ImageBuffer for TLC. *)
EXTENDS ImageBuffer

=============================================================================

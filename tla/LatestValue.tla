---------------------------- MODULE LatestValue ----------------------------
(***************************************************************************)
(* What the triple buffer promises its two processes: a register of which  *)
(* the reader sees a stable copy. Messages may be skipped, never repeated  *)
(* out of order: the copy changes only to the latest published message.    *)
(***************************************************************************)
CONSTANTS
  Messages, \* what the writer may publish
  NoMessage \* what the register holds before the first message

VARIABLES
  latest, \* the last message published
  shown   \* the reader's copy

vars == <<latest, shown>>

Init == latest = NoMessage /\ shown = NoMessage

Publish == latest' \in Messages /\ UNCHANGED shown

Obtain == shown' = latest /\ UNCHANGED latest

Next == Publish \/ Obtain

Spec == Init /\ [][Next]_vars

=============================================================================

-------------------------------- MODULE Log --------------------------------
(***************************************************************************)
(* What a logger promises: messages are written one after the other, in    *)
(* the order in which they were accepted, and a thread that asks for a     *)
(* flush waits until all that was accepted before is written.              *)
(***************************************************************************)
EXTENDS Naturals, Sequences

CONSTANT Threads

VARIABLES
  accepted,  \* messages so far, which are numbered in that order
  log,       \* those that are written
  waiting,   \* the threads that flush
  owed       \* for each thread: what was accepted when it asked for the flush

Init ==
  accepted = 0 /\ log = << >> /\ waiting = {} /\ owed = [t \in Threads |-> 0]

Accept == accepted' = accepted + 1 /\ UNCHANGED <<log, waiting, owed>>

Write ==
  /\ Len(log) < accepted /\ log' = Append(log, Len(log) + 1)
  /\ UNCHANGED <<accepted, waiting, owed>>

BeginFlush(t) ==
  /\ t \notin waiting /\ waiting' = waiting \cup {t}
  /\ owed' = [owed EXCEPT ![t] = accepted]
  /\ UNCHANGED <<accepted, log>>

EndFlush(t) ==
  /\ t \in waiting /\ owed[t] <= Len(log) /\ waiting' = waiting \ {t}
  /\ UNCHANGED <<accepted, log, owed>>

Next == Accept \/ Write \/ \E t \in Threads : BeginFlush(t) \/ EndFlush(t)

Spec == Init /\ [][Next]_<<accepted, log, waiting, owed>>

=============================================================================

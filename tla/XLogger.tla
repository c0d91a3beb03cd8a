------------------------------ MODULE XLogger ------------------------------
(***************************************************************************)
(* The logger of the frontend (framework/logger/xlogger.cpp). Each thread  *)
(* of the program pushes its messages into a lock-free queue; a worker     *)
(* thread pops them one by one and writes each to the backends (files, the *)
(* console). flush() pushes a null pointer and polls until the queue is    *)
(* empty: a thread does this before it aborts the program. main() stops    *)
(* the worker and destroys the logger, which writes what is left, possibly *)
(* while threads that have missed the deadline of Kernel::stop still log.  *)
(*                                                                         *)
(* The queue (boost::lockfree) is external: push() and pop() are steps,    *)
(* and it grows when its 1000 nodes are used up.                           *)
(***************************************************************************)
EXTENDS Naturals, Sequences

CONSTANTS
  Threads,   \* those that log
  MaxPushes  \* bound: messages and null pointers in one run

ASSUME XLoggerAssumption == Threads # {} /\ MaxPushes \in Nat

VARIABLES
  queue,     \* io->q: messages, numbered as they are accepted, and null pointers
  written,   \* what the backends have got
  flushing,  \* the threads that poll in flush()
  stop,      \* io->stop
  finished,  \* io->finished
  worker,    \* where the worker is ...
  owner,     \* ... and main()
  hand,      \* what each of them has popped last and not written yet
  (* not in the code: *)
  pushes,    \* pushes so far
  accepted,  \* messages among them
  owed,      \* for each thread: what was accepted when it called flush() last
  due        \* what was accepted when the destructor was entered

vars == <<queue, written, flushing, stop, finished, worker, owner, hand,
          pushes, accepted, owed, due>>

Null == 0

TypeOK ==
  /\ queue \in Seq(Nat) /\ written \in Seq(Nat)
  /\ flushing \subseteq Threads
  /\ stop \in BOOLEAN /\ finished \in BOOLEAN
  /\ worker \in {"test", "pop", "write", "ending", "ended"}
  /\ owner \in {"running", "joining", "pop", "write", "deleting", "deleted"}
  /\ hand \in [{"worker", "owner"} -> Nat]
  /\ pushes \in 0 .. MaxPushes /\ accepted \in Nat
  /\ owed \in [Threads -> Nat] /\ due \in Nat

\* The constructor waits for the worker, which has reset stop by then.
Init ==
  /\ queue = << >> /\ written = << >> /\ flushing = {}
  /\ stop = FALSE /\ finished = FALSE
  /\ worker = "test" /\ owner = "running"
  /\ hand = [c \in {"worker", "owner"} |-> Null]
  /\ pushes = 0 /\ accepted = 0 /\ owed = [t \in Threads |-> 0] /\ due = 0

-----------------------------------------------------------------------------
(* Faults: what some of the definitions would be if the code were wrong,   *)
(* kept to show that the properties below notice.                          *)

MarkNothing == queue

SeeFinishedEarly == stop

StopLost == FALSE

EndAtOnce == "deleting"

-----------------------------------------------------------------------------
(* The threads that log.                                                   *)

\* The logger is found by its name until its destructor has taken that back.
Push(queued) ==
  /\ owner # "deleted" /\ pushes < MaxPushes
  /\ queue' = queued /\ pushes' = pushes + 1

LogMsg ==
  /\ Push(Append(queue, accepted + 1)) /\ accepted' = accepted + 1
  /\ UNCHANGED <<written, flushing, stop, finished, worker, owner, hand, owed, due>>

Marked == Append(queue, Null)

Flush(t) ==
  /\ t \notin flushing /\ flushing' = flushing \cup {t}
  /\ Push(Marked) /\ owed' = [owed EXCEPT ![t] = accepted]
  /\ UNCHANGED <<written, stop, finished, worker, owner, hand, accepted, due>>

FlushReturns(t) ==
  /\ t \in flushing /\ queue = << >> /\ owner # "deleted"
  /\ flushing' = flushing \ {t}
  /\ UNCHANGED <<queue, written, stop, finished, worker, owner, hand,
                 pushes, accepted, owed, due>>

-----------------------------------------------------------------------------
(* consume(): run by the worker, and by the destructor in main().          *)

Pop(who) ==
  /\ queue # << >>
  /\ hand' = [hand EXCEPT ![who] = Head(queue)] /\ queue' = Tail(queue)
  /\ UNCHANGED <<written, flushing, stop, finished, pushes, accepted, owed, due>>

WriteOut(who) ==
  /\ written' = IF hand[who] = Null THEN written ELSE Append(written, hand[who])
  /\ hand' = [hand EXCEPT ![who] = Null]
  /\ UNCHANGED <<queue, flushing, stop, finished, pushes, accepted, owed, due>>

-----------------------------------------------------------------------------
(* io_worker()                                                             *)

\* consume() returns when it finds the queue empty; what it has popped only
\* decides whether the worker sleeps.
WorkerTest ==
  /\ \/ worker = "test" /\ worker' = IF stop THEN "ending" ELSE "pop"
     \/ worker = "pop" /\ queue = << >> /\ worker' = "test"
  /\ UNCHANGED <<queue, written, flushing, stop, finished, owner, hand,
                 pushes, accepted, owed, due>>

WorkerPops == worker = "pop" /\ worker' = "write" /\ Pop("worker") /\ UNCHANGED owner

WorkerWrites == worker = "write" /\ worker' = "pop" /\ WriteOut("worker") /\ UNCHANGED owner

WorkerEnds ==
  /\ worker = "ending" /\ worker' = "ended" /\ finished' = TRUE
  /\ UNCHANGED <<queue, written, flushing, stop, owner, hand,
                 pushes, accepted, owed, due>>

-----------------------------------------------------------------------------
(* main(): System::stop(), which is skipped if the start fails, and then   *)
(* the destructor.                                                         *)

Stop ==
  /\ owner = "running" /\ ~stop /\ stop' = TRUE
  /\ UNCHANGED <<queue, written, flushing, finished, worker, owner, hand,
                 pushes, accepted, owed, due>>

StopSet == TRUE

Destroy ==
  /\ owner = "running" /\ owner' = "joining" /\ stop' = StopSet
  /\ due' = accepted
  /\ UNCHANGED <<queue, written, flushing, finished, worker, hand, pushes, accepted, owed>>

SeesFinished == finished

\* The destructor calls consume() once the worker has finished.
AfterJoin == "pop"

Join ==
  /\ \/ owner = "joining" /\ SeesFinished /\ owner' = AfterJoin
     \/ owner = "pop" /\ queue = << >> /\ owner' = "deleting"
  /\ UNCHANGED <<queue, written, flushing, stop, finished, worker, hand, pushes, accepted, owed, due>>

OwnerPops == owner = "pop" /\ owner' = "write" /\ Pop("owner") /\ UNCHANGED worker

OwnerWrites == owner = "write" /\ owner' = "pop" /\ WriteOut("owner") /\ UNCHANGED worker

\* The backends are closed, the logger loses its name, the queue is freed.
Delete ==
  /\ owner = "deleting" /\ owner' = "deleted"
  /\ UNCHANGED <<queue, written, flushing, stop, finished, worker, hand, pushes, accepted, owed, due>>

-----------------------------------------------------------------------------

Work == WorkerTest \/ WorkerPops \/ WorkerWrites \/ WorkerEnds

Destruction == Join \/ OwnerPops \/ OwnerWrites \/ Delete

Next ==
  \/ LogMsg \/ \E t \in Threads : Flush(t) \/ FlushReturns(t)
  \/ Work \/ Stop \/ Destroy \/ Destruction

Spec == Init /\ [][Next]_vars

\* The threads that are in the logger run; nobody has to log, flush or stop.
Fairness ==
  WF_vars(Work) /\ WF_vars(Destruction) /\ \A t \in Threads : WF_vars(FlushReturns(t))

FairSpec == Spec /\ Fairness

-----------------------------------------------------------------------------
(* Properties *)

Promise == INSTANCE Log WITH log <- written, waiting <- flushing

(***************************************************************************)
(* Whoever consumes, the worker or the destructor, messages are written    *)
(* once, in the order of their push, and flush() returns only when all     *)
(* that was logged before is written, not just popped: the null pointer    *)
(* that it pushes sees to that ("dummy to ensure all message are actually  *)
(* written to disk, when queue is empty").                                 *)
(***************************************************************************)
Implements == Promise!Spec

(***************************************************************************)
(* When the backends are closed they have got every message that was       *)
(* logged before the destructor was entered, whatever the worker was doing *)
(* when it was stopped.                                                    *)
(***************************************************************************)
NothingLost == owner \in {"deleting", "deleted"} => Len(written) >= due

(***************************************************************************)
(* Nobody waits for ever in the logger once the others have said what they *)
(* had to say: flush() returns unless the logger is stopped (then no one   *)
(* may come to empty the queue), and the destruction ends.                 *)
(***************************************************************************)
WaitsEnd ==
  /\ \A t \in Threads : t \in flushing ~> (t \notin flushing \/ stop)
  /\ owner = "joining" ~> owner = "deleted"

(***************************************************************************)
(* The inductive invariant behind them (XLoggerProofs): the worker and the *)
(* destructor consume one after the other, ...                             *)
(***************************************************************************)
Turns ==
  /\ worker # "write" => hand["worker"] = Null
  /\ owner # "write" => hand["owner"] = Null
  /\ finished <=> worker = "ended"
  /\ owner \in {"pop", "write", "deleting", "deleted"} => finished

\* what has been popped last is next in the order, ...
Popped ==
  IF hand["worker"] = Null /\ hand["owner"] = Null THEN Len(written) ELSE Len(written) + 1

\* and what has not been popped is in the queue, in the order of its numbers.
InOrder ==
  /\ Popped <= accepted
  /\ \A i \in DOMAIN written : written[i] = i
  /\ \A who \in {"worker", "owner"} : hand[who] \in {Null, Popped}
  /\ \A q \in DOMAIN queue : queue[q] # Null => Popped < queue[q] /\ queue[q] <= accepted
  /\ \A p, q \in DOMAIN queue :
       p < q /\ queue[p] # Null /\ queue[q] # Null => queue[p] < queue[q]
  /\ \A m \in Popped + 1 .. accepted : \E q \in DOMAIN queue : queue[q] = m

\* A thread that flushes has a null pointer in the queue, unless all that it
\* waits for is written: behind it are only later messages.
MarkedBy(t) ==
  \E p \in DOMAIN queue :
    /\ queue[p] = Null
    /\ \A q \in DOMAIN queue : p < q /\ queue[q] # Null => owed[t] < queue[q]

Waits ==
  \A t \in flushing : owed[t] <= accepted /\ (owed[t] <= Len(written) \/ MarkedBy(t))

IInv == TypeOK /\ Turns /\ InOrder /\ Waits /\ due <= accepted /\ NothingLost

=============================================================================

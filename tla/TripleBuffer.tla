---------------------------- MODULE TripleBuffer ----------------------------
(***************************************************************************)
(* ipc::TrippleBuffer (framework/ipc/tripple_buffer.h): three copies of a  *)
(* message in shared memory through which one process hands its latest     *)
(* message to another. The backend writes the sensors and the frontend     *)
(* reads them; the actuators go the other way. Either process may die at   *)
(* any step and be started again; the shared memory, and a mutex the dead  *)
(* process held, stay as they were.                                        *)
(*                                                                         *)
(* The code calls the writer's operation consume() and the reader's ones   *)
(* tryProduce(), timedProduce() and waitForNewData(). A message is written *)
(* and read outside the mutex, here in two halves.                         *)
(***************************************************************************)
EXTENDS Integers

CONSTANTS
  Messages,  \* what the writer may write
  NoMessage, \* what a buffer holds after its construction
  Crashing   \* which of "writer" and "reader" may die

ASSUME CrashingAssumption == Crashing \subseteq {"writer", "reader"}

VARIABLES
  buffers,   \* the three buffers: both halves of each
  backIdx, middleIdx, frontIdx,
  newData,   \* whether the middle buffer is newer than the front buffer
  owner,     \* who has locked middleMutex
  wpc,       \* where the writer is
  oldBack,   \* the local variable of consume()
  rpc,       \* where the reader is
  call,      \* the operation the reader is in
  expired,   \* whether the time of timedProduce() is up
  oldFront,  \* the local variable of switchFrontAndMiddle()
  got,       \* the copy the reader has made of its front buffer
  published  \* the last message that went through consume(); not in the code

shared == <<buffers, backIdx, middleIdx, frontIdx, newData, published>>
writerVars == <<wpc, oldBack>>
readerVars == <<rpc, call, expired, oldFront, got>>
vars == <<shared, owner, writerVars, readerVars>>

Idx == 0 .. 2
Contents == Messages \cup {NoMessage}
Buffer == [head : Contents, tail : Contents]
Calls == {"tryProduce", "timedProduce", "waitForNewData"}
WriterLabels == {"idle", "fill", "filled", "lock", "swap", "swapped", "notify", "down"}
ReaderLabels == {"idle", "lock", "test", "sleep", "swapped", "read", "copy", "down"}

TypeOK ==
  /\ buffers \in [Idx -> Buffer]
  /\ backIdx \in Idx /\ middleIdx \in Idx /\ frontIdx \in Idx
  /\ newData \in BOOLEAN
  /\ owner \in {"nobody", "writer", "reader"}
  /\ wpc \in WriterLabels /\ oldBack \in Idx
  /\ rpc \in ReaderLabels /\ call \in Calls /\ expired \in BOOLEAN
  /\ oldFront \in Idx /\ got \in Buffer
  /\ published \in Contents

Init ==
  /\ buffers = [i \in Idx |-> [head |-> NoMessage, tail |-> NoMessage]]
  /\ backIdx = 0 /\ middleIdx = 1 /\ frontIdx = 2
  /\ newData = FALSE
  /\ owner = "nobody"
  /\ wpc = "idle" /\ oldBack = 0
  /\ rpc = "idle" /\ call = "tryProduce" /\ expired = FALSE
  /\ oldFront = 0 /\ got = [head |-> NoMessage, tail |-> NoMessage]
  /\ published = NoMessage

Write(from, to) == wpc = from /\ wpc' = to /\ UNCHANGED readerVars
Read(from, to)  == rpc = from /\ rpc' = to /\ UNCHANGED writerVars

-----------------------------------------------------------------------------
(* Faults: what some of the definitions would be if the code were wrong,   *)
(* kept to show that the properties below notice.                          *)

LockUnchecked == Write("lock", "swap") /\ owner' = "writer" /\ UNCHANGED <<shared, oldBack>>

SwapByCounting ==
  /\ Write("swap", "swapped")
  /\ backIdx' = backIdx + 1
  /\ UNCHANGED <<buffers, middleIdx, frontIdx, newData, published, owner, oldBack>>

TakeAnything ==
  /\ Read("test", "swapped")
  /\ frontIdx' = middleIdx /\ oldFront' = frontIdx
  /\ UNCHANGED <<buffers, backIdx, middleIdx, newData, published, owner,
                 call, expired, got>>

GiveUpUntested ==
  /\ Read("test", "read")
  /\ call = "tryProduce" \/ expired
  /\ owner' = "nobody"
  /\ UNCHANGED <<shared, call, expired, oldFront, got>>

NotifyNobody == Write("notify", "idle") /\ UNCHANGED <<shared, owner, oldBack>>

SleepOn == FALSE /\ UNCHANGED vars

-----------------------------------------------------------------------------
(* The writer: set() on consumedData(), then consume().                    *)

FillHead(m) ==
  /\ Write("idle", "fill")
  /\ buffers' = [buffers EXCEPT ![backIdx].head = m]
  /\ UNCHANGED <<backIdx, middleIdx, frontIdx, newData, published, owner, oldBack>>

FillTail ==
  /\ Write("fill", "filled")
  /\ buffers' = [buffers EXCEPT ![backIdx].tail = buffers[backIdx].head]
  /\ UNCHANGED <<backIdx, middleIdx, frontIdx, newData, published, owner, oldBack>>

\* consume() reads backIdx before it takes the mutex.
ReadBack ==
  /\ Write("filled", "lock")
  /\ oldBack' = backIdx
  /\ UNCHANGED <<shared, owner>>

LockWriter ==
  /\ Write("lock", "swap")
  /\ owner = "nobody" /\ owner' = "writer"
  /\ UNCHANGED <<shared, oldBack>>

SwapBack ==
  /\ Write("swap", "swapped")
  /\ backIdx' = middleIdx
  /\ UNCHANGED <<buffers, middleIdx, frontIdx, newData, published, owner, oldBack>>

\* The end of the block: the rest of the swap, and the mutex is released.
SwapMiddle ==
  /\ Write("swapped", "notify")
  /\ middleIdx' = oldBack /\ newData' = TRUE
  /\ published' = buffers[oldBack].tail
  /\ owner' = "nobody"
  /\ UNCHANGED <<buffers, backIdx, frontIdx, oldBack>>

Notify ==
  /\ wpc = "notify" /\ wpc' = "idle"
  /\ rpc' = IF rpc = "sleep" THEN "lock" ELSE rpc
  /\ UNCHANGED <<shared, owner, oldBack, call, expired, oldFront, got>>

-----------------------------------------------------------------------------
(* The reader: one of the three calls, then get() on producedData().       *)

Call(c) ==
  /\ Read("idle", "lock")
  /\ call' = c /\ expired' = FALSE
  /\ UNCHANGED <<shared, owner, oldFront, got>>

\* Both the first lock and the one a condition variable takes after a wait.
LockReader ==
  /\ Read("lock", "test")
  /\ owner = "nobody" /\ owner' = "reader"
  /\ UNCHANGED <<shared, call, expired, oldFront, got>>

TakeFront ==
  /\ Read("test", "swapped")
  /\ newData
  /\ frontIdx' = middleIdx /\ oldFront' = frontIdx
  /\ UNCHANGED <<buffers, backIdx, middleIdx, newData, published, owner,
                 call, expired, got>>

\* The rest of switchFrontAndMiddle() and the end of the lock's scope.
GiveMiddle ==
  /\ Read("swapped", "read")
  /\ middleIdx' = oldFront /\ newData' = FALSE
  /\ owner' = "nobody"
  /\ UNCHANGED <<buffers, backIdx, frontIdx, published, call, expired, oldFront, got>>

\* tryProduce() and timedProduce() return false; the front buffer stays.
GiveUp ==
  /\ Read("test", "read")
  /\ ~newData /\ (call = "tryProduce" \/ expired)
  /\ owner' = "nobody"
  /\ UNCHANGED <<shared, call, expired, oldFront, got>>

\* The condition variable releases the mutex and sleeps in one step.
Sleep ==
  /\ Read("test", "sleep")
  /\ ~newData /\ call # "tryProduce" /\ ~expired
  /\ owner' = "nobody"
  /\ UNCHANGED <<shared, call, expired, oldFront, got>>

Timeout ==
  /\ Read("sleep", "lock")
  /\ call = "timedProduce" /\ expired' = TRUE
  /\ UNCHANGED <<shared, owner, call, oldFront, got>>

SpuriousWake ==
  /\ Read("sleep", "lock")
  /\ UNCHANGED <<shared, owner, call, expired, oldFront, got>>

\* Both readers use the front buffer whether the message is new or not.
CopyHead ==
  /\ Read("read", "copy")
  /\ got' = [got EXCEPT !.head = buffers[frontIdx].head]
  /\ UNCHANGED <<shared, owner, call, expired, oldFront>>

CopyTail ==
  /\ Read("copy", "idle")
  /\ got' = [got EXCEPT !.tail = buffers[frontIdx].tail]
  /\ UNCHANGED <<shared, owner, call, expired, oldFront>>

-----------------------------------------------------------------------------
(* A process dies at any step; its successor maps the same memory.         *)

CrashWriter ==
  /\ "writer" \in Crashing
  /\ wpc # "down" /\ wpc' = "down"
  /\ UNCHANGED <<shared, owner, oldBack, readerVars>>

RestartWriter == Write("down", "idle") /\ UNCHANGED <<shared, owner, oldBack>>

CrashReader ==
  /\ "reader" \in Crashing
  /\ rpc # "down" /\ rpc' = "down"
  /\ UNCHANGED <<shared, owner, writerVars, call, expired, oldFront, got>>

\* main() and setup() call timedProduce() before anything is read.
RestartReader ==
  /\ Read("down", "idle")
  /\ got' = [head |-> NoMessage, tail |-> NoMessage]
  /\ UNCHANGED <<shared, owner, call, expired, oldFront>>

-----------------------------------------------------------------------------

WriterStep == FillTail \/ ReadBack \/ SwapBack \/ SwapMiddle \/ Notify

ReaderStep ==
  TakeFront \/ GiveMiddle \/ GiveUp \/ Sleep \/ Timeout \/ CopyHead \/ CopyTail

Next ==
  \/ WriterStep \/ LockWriter \/ \E m \in Messages : FillHead(m)
  \/ ReaderStep \/ LockReader \/ SpuriousWake \/ \E c \in Calls : Call(c)
  \/ CrashWriter \/ RestartWriter \/ CrashReader \/ RestartReader

Spec == Init /\ [][Next]_vars

(***************************************************************************)
(* A process that is inside an operation carries on. The mutex is held for *)
(* a few instructions and free for most of each 12 ms cycle, so whoever    *)
(* tries to lock it again and again is served. The deadline of a wait is   *)
(* absolute, so waking up early again and again does not put it off.       *)
(* Nobody must write or call.                                              *)
(***************************************************************************)
Fairness ==
  /\ WF_vars(WriterStep) /\ WF_vars(ReaderStep)
  /\ SF_vars(LockWriter) /\ SF_vars(LockReader) /\ SF_vars(Timeout)

FairSpec == Spec /\ Fairness

-----------------------------------------------------------------------------
(* Safety *)

(***************************************************************************)
(* A message is filled in and copied out without a lock, yet the reader    *)
(* never ends up with halves of two messages, even if writers die while    *)
(* they fill in a message.                                                 *)
(***************************************************************************)
NoTearing == rpc = "idle" => got.head = got.tail

(***************************************************************************)
(* tryProduce() and timedProduce() return false only if the reader has had *)
(* the last published message before: neither a timeout that runs out as a *)
(* message arrives nor a lost notification hides it.                       *)
(***************************************************************************)
FalseOnlyIfCurrent ==
  [][rpc = "test" /\ rpc' = "read" => buffers[frontIdx].tail = published]_vars

(***************************************************************************)
(* The buffer implements the register: what producedData() returns changes *)
(* only to the last published message and is never one the reader has had  *)
(* before in exchange for a newer one.                                     *)
(***************************************************************************)
Register == INSTANCE LatestValue WITH latest <- published,
                                      shown <- buffers[frontIdx].tail

Implements == Register!Spec

-----------------------------------------------------------------------------
(* The inductive invariant behind them (TripleBufferProofs).               *)

Whole(i) == buffers[i].head = buffers[i].tail

\* The holder of the mutex is where its label says, or is dead for good.
Locked ==
  /\ wpc \in {"swap", "swapped"} => owner = "writer"
  /\ rpc \in {"test", "swapped"} => owner = "reader"

\* The three indices, as they are while nobody is in the middle of a swap.
Distinct == backIdx # middleIdx /\ middleIdx # frontIdx /\ frontIdx # backIdx

Indices ==
  /\ frontIdx # backIdx
  /\ owner = "nobody" \/ wpc = "swap" \/ rpc = "test" => Distinct
  /\ wpc \in {"lock", "swap"} => oldBack = backIdx
  /\ wpc = "swapped" => /\ backIdx = middleIdx
                        /\ oldBack \notin {backIdx, frontIdx}
  /\ rpc = "swapped" => /\ frontIdx = middleIdx
                        /\ oldFront \notin {frontIdx, backIdx}

\* The front buffer is never half filled, nor is what is handed over.
WholeMessages ==
  /\ Whole(frontIdx)
  /\ owner = "nobody" \/ wpc \in {"swap", "swapped"} \/ rpc = "test" => Whole(middleIdx)
  /\ wpc \in {"filled", "lock", "swap"} => Whole(backIdx)
  /\ wpc = "swapped" => Whole(oldBack)
  /\ rpc = "swapped" => Whole(oldFront)
  /\ wpc \in {"fill", "filled", "lock", "swap"} => buffers[backIdx].head \in Messages
  /\ wpc = "swapped" => buffers[oldBack].head \in Messages

\* The last message is in the middle if it is new, else in front.
Newest ==
  /\ owner = "nobody" \/ wpc \in {"swap", "swapped"} \/ rpc = "test" =>
       published = buffers[IF newData THEN middleIdx ELSE frontIdx].tail
  /\ rpc = "swapped" => published = buffers[frontIdx].tail

\* What the reader has copied so far is in the front buffer.
Copied == rpc = "copy" => got.head = buffers[frontIdx].head

IInv == TypeOK /\ Locked /\ Indices /\ WholeMessages /\ Newest /\ NoTearing /\ Copied

-----------------------------------------------------------------------------
(* Liveness *)

(***************************************************************************)
(* "produce data from other process (with timeout)": timedProduce()        *)
(* returns, whatever the other process does.                               *)
(***************************************************************************)
TimedProduceReturns ==
  (rpc = "lock" /\ call = "timedProduce") ~> (rpc \in {"read", "down"})

\* A process has died with the mutex, which stays locked for ever.
Abandoned ==
  \/ owner = "writer" /\ wpc \notin {"swap", "swapped"}
  \/ owner = "reader" /\ rpc \notin {"test", "swapped"}

(***************************************************************************)
(* timedProduce() does return, even if the other process dies and starts   *)
(* again, as long as nobody dies between lock and unlock.                  *)
(***************************************************************************)
TimedProduceReturnsIfKept == []~Abandoned => TimedProduceReturns

(***************************************************************************)
(* A reader in any of the three calls gets a message that is there: the    *)
(* notification after the unlock is not lost unless the writer dies before *)
(* it, and if both processes press for the mutex the reader gets it.       *)
(***************************************************************************)
NewsIsTaken ==
  []~Abandoned =>
    ((newData /\ (rpc = "lock" \/ (rpc = "sleep" /\ wpc = "notify")))
       ~> ((rpc = "read" /\ ~newData) \/ "down" \in {rpc, wpc}))

=============================================================================

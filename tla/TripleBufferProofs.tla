------------------------- MODULE TripleBufferProofs -------------------------
(***************************************************************************)
(* Theorems about TripleBuffer, for any messages and any crashes: types,   *)
(* no torn copies, no hidden news, and that it implements LatestValue.     *)
(***************************************************************************)
EXTENDS TripleBuffer, TLAPS

LEMMA InitIInv == Init => IInv
<1> SUFFICES ASSUME Init PROVE IInv
  OBVIOUS
<1>1. TypeOK
  <2>1. [head |-> NoMessage, tail |-> NoMessage] \in Buffer /\ published \in Contents
    BY DEF Init, Buffer, Contents
  <2>2. buffers \in [Idx -> Buffer] /\ got \in Buffer
    BY <2>1 DEF Init
  <2>3. /\ backIdx \in Idx /\ middleIdx \in Idx /\ frontIdx \in Idx
        /\ oldBack \in Idx /\ oldFront \in Idx
    BY DEF Init, Idx
  <2>4. /\ newData \in BOOLEAN /\ expired \in BOOLEAN /\ call \in Calls
        /\ owner \in {"nobody", "writer", "reader"}
        /\ wpc \in WriterLabels /\ rpc \in ReaderLabels
    BY DEF Init, Calls, WriterLabels, ReaderLabels
  <2> QED
    BY <2>1, <2>2, <2>3, <2>4 DEF TypeOK
<1>2. Locked /\ Indices /\ Copied /\ NoTearing
  BY DEF Init, Locked, Indices, Distinct, Copied, NoTearing
<1>3. \A i \in Idx : Whole(i) /\ buffers[i].tail = NoMessage
  BY DEF Init, Whole
<1>4. WholeMessages /\ Newest
  BY <1>3 DEF Init, Idx, WholeMessages, Newest
<1> QED
  BY <1>1, <1>2, <1>4 DEF IInv

LEMMA NextIInv == IInv /\ [Next]_vars => IInv'
<1> SUFFICES ASSUME IInv, [Next]_vars PROVE IInv'
  OBVIOUS
<1> USE DEF IInv, TypeOK, Idx, Contents, Buffer, Calls, WriterLabels, ReaderLabels,
            Locked, Indices, Distinct, WholeMessages, Whole, Newest, NoTearing, Copied,
            shared, writerVars, readerVars
<1>1. ASSUME NEW m \in Messages, FillHead(m) PROVE IInv'
  <2>1. /\ buffers' \in [Idx -> Buffer]
        /\ \A i \in Idx \ {backIdx} : buffers'[i] = buffers[i]
        /\ buffers'[backIdx].head = m
    BY <1>1 DEF FillHead
  <2>2. /\ wpc' = "fill"
        /\ UNCHANGED <<backIdx, middleIdx, frontIdx, newData, published, owner,
                       oldBack, readerVars>>
    BY <1>1 DEF FillHead, Write
  <2>3. TypeOK' /\ Locked' /\ Indices'
    BY <1>1, <2>1, <2>2 DEF FillHead, Write
  <2>4. WholeMessages' /\ Newest' /\ Copied' /\ NoTearing'
    BY <1>1, <2>1, <2>2 DEF FillHead, Write
  <2> QED
    BY <2>3, <2>4
<1>2. ASSUME NEW c \in Calls, Call(c) PROVE IInv'
  <2>1. UNCHANGED <<shared, owner, writerVars, oldFront, got>> /\ rpc = "idle" /\ rpc' = "lock"
    BY <1>2 DEF Call, Read
  <2>2. call' \in Calls /\ expired' \in BOOLEAN
    BY <1>2 DEF Call
  <2>3. TypeOK'
    BY <2>1, <2>2
  <2>4. Locked' /\ Indices' /\ WholeMessages' /\ Newest' /\ Copied' /\ NoTearing'
    BY <2>1
  <2> QED
    BY <2>3, <2>4
<1>3. CASE FillTail
  BY <1>3 DEF FillTail, Write
<1>4. CASE ReadBack
  BY <1>4 DEF ReadBack, Write
<1>5. CASE SwapBack
  BY <1>5 DEF SwapBack, Write
<1>6. CASE SwapMiddle
  BY <1>6 DEF SwapMiddle, Write
<1>7. CASE Notify
  BY <1>7 DEF Notify
<1>8. CASE LockWriter
  BY <1>8 DEF LockWriter, Write
<1>9. CASE TakeFront
  BY <1>9 DEF TakeFront, Read
<1>10. CASE GiveMiddle
  <2>1. /\ UNCHANGED <<buffers, backIdx, frontIdx, published, wpc, oldBack, got>>
        /\ rpc = "swapped" /\ rpc' = "read" /\ middleIdx' = oldFront
        /\ newData' = FALSE /\ owner = "reader" /\ owner' = "nobody"
    BY <1>10 DEF GiveMiddle, Read
  <2>2. TypeOK'
    BY <1>10 DEF GiveMiddle, Read
  <2>3. Locked' /\ Indices'
    BY <2>1
  <2>4. WholeMessages'
    BY <2>1
  <2>5. Newest' /\ Copied' /\ NoTearing'
    BY <2>1
  <2> QED
    BY <2>2, <2>3, <2>4, <2>5
<1>11. CASE GiveUp
  BY <1>11 DEF GiveUp, Read
<1>12. CASE Sleep
  BY <1>12 DEF Sleep, Read
<1>13. CASE Timeout
  BY <1>13 DEF Timeout, Read
<1>14. CASE CopyHead
  BY <1>14 DEF CopyHead, Read
<1>15. CASE CopyTail
  BY <1>15 DEF CopyTail, Read
<1>16. CASE LockReader
  BY <1>16 DEF LockReader, Read
<1>17. CASE SpuriousWake
  BY <1>17 DEF SpuriousWake, Read
<1>18. CASE CrashWriter
  BY <1>18 DEF CrashWriter
<1>19. CASE RestartWriter
  BY <1>19 DEF RestartWriter, Write
<1>20. CASE CrashReader
  BY <1>20 DEF CrashReader
<1>21. CASE RestartReader
  BY <1>21 DEF RestartReader, Read
<1>22. CASE UNCHANGED vars
  BY <1>22 DEF vars
<1> QED
  BY <1>1, <1>2, <1>3, <1>4, <1>5, <1>6, <1>7, <1>8, <1>9, <1>10, <1>11, <1>12, <1>13, <1>14, <1>15, <1>16, <1>17, <1>18, <1>19, <1>20, <1>21, <1>22 DEF Next, WriterStep, ReaderStep

THEOREM Inductive == Spec => []IInv
BY InitIInv, NextIInv, PTL DEF Spec

\* Every index names a buffer, every buffer holds messages, whoever dies when.
THEOREM TypeCorrect == Spec => []TypeOK
BY Inductive, PTL DEF IInv

\* The reader's copy is never made of two messages.
THEOREM NoTearingCorrect == Spec => []NoTearing
BY Inductive, PTL DEF IInv

\* tryProduce() and timedProduce() return false only if there is nothing new.
THEOREM FalseOnlyIfCurrentCorrect == Spec => FalseOnlyIfCurrent
<1> DEFINE Step == rpc = "test" /\ rpc' = "read" => buffers[frontIdx].tail = published
<1>1. IInv /\ [Next]_vars => [Step]_vars
  <2> SUFFICES ASSUME IInv, Next, rpc = "test", rpc' = "read"
               PROVE buffers[frontIdx].tail = published
    OBVIOUS
  <2>1. GiveUp
    BY DEF Next, WriterStep, ReaderStep, Write, Read, FillHead, FillTail, ReadBack, SwapBack,
           SwapMiddle, Notify, LockWriter, TakeFront, GiveMiddle, Sleep, Timeout,
           CopyHead, CopyTail, LockReader, SpuriousWake, Call, CrashWriter, RestartWriter,
           CrashReader, RestartReader, readerVars
  <2> QED
    BY <2>1 DEF GiveUp, IInv, Newest, Read
<1> QED
  BY <1>1, Inductive, PTL DEF Spec, FalseOnlyIfCurrent

-----------------------------------------------------------------------------
(* The refinement: the end of consume() publishes, the first assignment of *)
(* switchFrontAndMiddle() obtains, everything else stutters.               *)

Shown == buffers[frontIdx].tail

\* Only SwapMiddle publishes, and only what has been filled in.
LEMMA PublishStep == IInv /\ SwapMiddle => Register!Publish
BY DEF IInv, TypeOK, Idx, Indices, WholeMessages, Whole, SwapMiddle, Write, Register!Publish

\* The middle buffer the reader takes holds the last published message.
LEMMA ObtainStep == IInv /\ TakeFront => Register!Obtain
BY DEF IInv, Newest, TakeFront, Read, Register!Obtain

\* The writer fills in a buffer that is not in front of the reader.
LEMMA FillStep ==
  ASSUME IInv, FillTail \/ \E m \in Messages : FillHead(m)
  PROVE  UNCHANGED <<published, Shown>>
<1>1. buffers'[frontIdx] = buffers[frontIdx] /\ UNCHANGED <<published, frontIdx>>
  BY DEF IInv, TypeOK, Idx, Indices, FillTail, FillHead
<1> QED
  BY <1>1 DEF Shown

\* The buffer implements the register, for any messages and any crashes.
THEOREM Refinement == Spec => Implements
<1>1. Init => Register!Init
  BY DEF Init, Register!Init, Idx
<1>2. IInv /\ [Next]_vars => [Register!Next]_(Register!vars)
  <2> SUFFICES ASSUME IInv, [Next]_vars PROVE Register!Next \/ UNCHANGED <<published, Shown>>
    BY DEF Register!vars, Shown
  <2>1. CASE SwapMiddle
    BY <2>1, PublishStep DEF Register!Next
  <2>2. CASE TakeFront
    BY <2>2, ObtainStep DEF Register!Next
  <2>3. CASE FillTail \/ \E m \in Messages : FillHead(m)
    BY <2>3, FillStep
  <2>4. CASE UNCHANGED <<buffers, frontIdx, published>>
    BY <2>4 DEF Shown
  <2>5. \/ SwapMiddle \/ TakeFront \/ FillTail \/ \E m \in Messages : FillHead(m)
        \/ UNCHANGED <<buffers, frontIdx, published>>
    BY DEF Next, WriterStep, ReaderStep, vars, shared, ReadBack, SwapBack, Notify,
           LockWriter, GiveMiddle, GiveUp, Sleep, Timeout, CopyHead, CopyTail, LockReader,
           SpuriousWake, Call, CrashWriter, RestartWriter, CrashReader, RestartReader
  <2> QED
    BY <2>1, <2>2, <2>3, <2>4, <2>5
<1> QED
  BY <1>1, <1>2, Inductive, PTL DEF Spec, Implements, Register!Spec

=============================================================================

--------------------------- MODULE XLoggerProofs ---------------------------
(***************************************************************************)
(* Proofs about XLogger, for any threads and any number of messages: the   *)
(* logger keeps what Log promises, and loses nothing when it is destroyed. *)
(***************************************************************************)
EXTENDS XLogger, TLAPS

(***************************************************************************)
(* Sequences.                                                              *)
(***************************************************************************)
LEMMA AppendIs ==
  ASSUME NEW s \in Seq(Nat), NEW x \in Nat
  PROVE  /\ Append(s, x) \in Seq(Nat)
         /\ Len(s) \in Nat /\ DOMAIN s = 1 .. Len(s)
         /\ DOMAIN Append(s, x) = 1 .. Len(s) + 1
         /\ Len(Append(s, x)) = Len(s) + 1
         /\ \A i \in 1 .. Len(s) : Append(s, x)[i] = s[i]
         /\ Append(s, x)[Len(s) + 1] = x
OBVIOUS

LEMMA TailIs ==
  ASSUME NEW s \in Seq(Nat), s # << >>
  PROVE  /\ Tail(s) \in Seq(Nat) /\ Head(s) \in Nat /\ Head(s) = s[1]
         /\ Len(s) \in Nat \ {0} /\ DOMAIN s = 1 .. Len(s)
         /\ DOMAIN Tail(s) = 1 .. Len(s) - 1
         /\ \A i \in 1 .. Len(s) - 1 : Tail(s)[i] = s[i + 1]
OBVIOUS

(***************************************************************************)
(* What the steps of the threads leave alone.                              *)
(***************************************************************************)
\* The steps that neither push nor pop nor write.
Quiet ==
  \/ WorkerTest \/ WorkerEnds \/ Stop \/ Destroy \/ Join \/ Delete
  \/ \E t \in Threads : FlushReturns(t)

LEMMA Steps ==
  Next => \/ LogMsg \/ \E t \in Threads : Flush(t)
          \/ WorkerPops \/ OwnerPops \/ WorkerWrites \/ OwnerWrites \/ Quiet
BY DEF Next, Work, Destruction, Quiet

LEMMA QuietLeaves == Quiet => UNCHANGED <<queue, written, hand, pushes, accepted, owed>>
BY DEF Quiet, WorkerTest, WorkerEnds, Stop, Destroy, Join, Delete, FlushReturns

LEMMA InitInvariant == Init => IInv
<1> SUFFICES ASSUME Init PROVE IInv
  OBVIOUS
<1>1. TypeOK
  <2>1. << >> \in Seq(Nat) /\ 0 \in 0 .. MaxPushes
    BY XLoggerAssumption
  <2> QED
    BY <2>1 DEF Init, TypeOK, Null
<1>2. Turns
  BY DEF Init, Turns
<1>3. InOrder /\ Waits /\ due <= accepted /\ NothingLost
  BY DEF Init, InOrder, Popped, Waits, NothingLost, Null
<1> QED
  BY <1>1, <1>2, <1>3 DEF IInv

LEMMA KeepsTypes == TypeOK /\ Next => TypeOK'
<1> SUFFICES ASSUME TypeOK, Next PROVE TypeOK'
  OBVIOUS
<1> USE XLoggerAssumption DEF TypeOK
<1>1. CASE LogMsg
  <2>1. accepted + 1 \in Nat /\ Append(queue, accepted + 1) \in Seq(Nat)
    BY AppendIs
  <2>2. pushes + 1 \in 0 .. MaxPushes
    BY <1>1 DEF LogMsg, Push
  <2> QED
    BY <1>1, <2>1, <2>2 DEF LogMsg, Push
<1>2. CASE \E t \in Threads : Flush(t)
  <2>1. PICK t \in Threads : Flush(t)
    BY <1>2
  <2>2. Append(queue, Null) \in Seq(Nat)
    BY AppendIs DEF Null
  <2>3. pushes + 1 \in 0 .. MaxPushes
    BY <2>1 DEF Flush, Push
  <2> QED
    BY <2>1, <2>2, <2>3 DEF Flush, Push, Marked
<1>3. CASE WorkerPops
  <2>1. queue # << >> /\ Tail(queue) \in Seq(Nat) /\ Head(queue) \in Nat
    BY <1>3, TailIs DEF WorkerPops, Pop
  <2> QED
    BY <1>3, <2>1 DEF WorkerPops, Pop
<1>4. CASE OwnerPops
  <2>1. queue # << >> /\ Tail(queue) \in Seq(Nat) /\ Head(queue) \in Nat
    BY <1>4, TailIs DEF OwnerPops, Pop
  <2> QED
    BY <1>4, <2>1 DEF OwnerPops, Pop
<1>5. CASE WorkerWrites
  <2>1. hand["worker"] \in Nat /\ Append(written, hand["worker"]) \in Seq(Nat)
    BY AppendIs
  <2> QED
    BY <1>5, <2>1 DEF WorkerWrites, WriteOut, Null
<1>6. CASE OwnerWrites
  <2>1. hand["owner"] \in Nat /\ Append(written, hand["owner"]) \in Seq(Nat)
    BY AppendIs
  <2> QED
    BY <1>6, <2>1 DEF OwnerWrites, WriteOut, Null
<1>7. CASE Quiet
  BY <1>7 DEF Quiet, WorkerTest, WorkerEnds, Stop, Destroy, StopSet, Join, AfterJoin,
              Delete, FlushReturns
<1> QED
  BY <1>1, <1>2, <1>3, <1>4, <1>5, <1>6, <1>7, Steps

LEMMA KeepsTurns == TypeOK /\ Turns /\ Next => Turns'
<1> SUFFICES ASSUME TypeOK, Turns, Next PROVE Turns'
  OBVIOUS
<1> USE DEF Turns, TypeOK
<1>1. CASE LogMsg \/ \E t \in Threads : Flush(t)
  BY <1>1 DEF LogMsg, Flush
<1>2. CASE WorkerPops
  BY <1>2 DEF WorkerPops, Pop
<1>3. CASE OwnerPops
  BY <1>3 DEF OwnerPops, Pop
<1>4. CASE WorkerWrites
  BY <1>4 DEF WorkerWrites, WriteOut
<1>5. CASE OwnerWrites
  BY <1>5 DEF OwnerWrites, WriteOut
<1>6. CASE Quiet
  BY <1>6 DEF Quiet, WorkerTest, WorkerEnds, Stop, Destroy, Join, SeesFinished, AfterJoin,
              Delete, FlushReturns
<1> QED
  BY <1>1, <1>2, <1>3, <1>4, <1>5, <1>6, Steps

(***************************************************************************)
(* The order of the messages.                                              *)
(***************************************************************************)
\* When nobody has one in hand, the first message of the queue is the next.
LEMMA HeadIsNext ==
  ASSUME TypeOK, InOrder, queue # << >>, Head(queue) # Null
  PROVE  Head(queue) = Popped + 1
<1>1. /\ Head(queue) = queue[1] /\ 1 \in DOMAIN queue /\ DOMAIN queue = 1 .. Len(queue)
      /\ queue[1] \in Nat /\ \A q \in DOMAIN queue : queue[q] \in Nat
  BY TailIs DEF TypeOK
<1>2. Popped \in Nat /\ accepted \in Nat /\ Popped < queue[1] /\ queue[1] <= accepted
  BY <1>1 DEF TypeOK, InOrder, Popped, Null
<1>3. PICK q \in DOMAIN queue : queue[q] = Popped + 1
  <2>1. Popped + 1 \in Popped + 1 .. accepted
    BY <1>1, <1>2
  <2> QED
    BY <2>1 DEF InOrder
<1>4. 1 < q => queue[1] < queue[q]
  BY <1>1, <1>2, <1>3 DEF InOrder, Null
<1> QED
  BY <1>1, <1>2, <1>3, <1>4

LEMMA PopKeepsOrder ==
  ASSUME TypeOK, InOrder, NEW who \in {"worker", "owner"}, Pop(who),
         hand["worker"] = Null, hand["owner"] = Null
  PROVE  InOrder'
<1>1. /\ queue # << >> /\ queue' = Tail(queue) /\ UNCHANGED <<written, accepted>>
      /\ hand' = [hand EXCEPT ![who] = Head(queue)]
  BY DEF Pop
<1>2. /\ Head(queue) \in Nat /\ Head(queue) = queue[1] /\ Len(queue) \in Nat \ {0}
      /\ DOMAIN queue = 1 .. Len(queue) /\ DOMAIN queue' = 1 .. Len(queue) - 1
      /\ \A i \in DOMAIN queue' : i + 1 \in DOMAIN queue /\ queue'[i] = queue[i + 1]
      /\ \A i \in DOMAIN queue : queue[i] \in Nat
  BY <1>1, TailIs DEF TypeOK
<1>3. Popped = Len(written) /\ Popped \in Nat /\ accepted \in Nat
  BY DEF Popped, TypeOK
<1>4. Head(queue) # Null => Head(queue) = Popped + 1 /\ Popped + 1 <= accepted
  <2> SUFFICES ASSUME Head(queue) # Null PROVE Head(queue) = Popped + 1 /\ Popped + 1 <= accepted
    OBVIOUS
  <2>1. Head(queue) = Popped + 1
    BY <1>1, HeadIsNext
  <2> QED
    BY <1>2, <2>1 DEF InOrder
<1>5. \A c \in {"worker", "owner"} : hand'[c] = IF c = who THEN Head(queue) ELSE Null
  BY <1>1 DEF TypeOK
<1>6. Popped' = IF Head(queue) = Null THEN Popped ELSE Popped + 1
  BY <1>1, <1>3, <1>5 DEF Popped
<1>7. \A c \in {"worker", "owner"} : hand'[c] \in {Null, Popped'}
  BY <1>4, <1>5, <1>6
<1>8. ASSUME NEW q \in DOMAIN queue', queue'[q] # Null
      PROVE  Popped' < queue'[q] /\ queue'[q] <= accepted
  <2>1. q + 1 \in DOMAIN queue /\ queue'[q] = queue[q + 1] /\ 1 < q + 1 /\ 1 \in DOMAIN queue
    BY <1>2
  <2>2. Popped < queue[q + 1] /\ queue[q + 1] <= accepted
    BY <1>8, <2>1 DEF InOrder
  <2>3. queue[1] # Null => queue[1] < queue[q + 1]
    BY <1>8, <2>1 DEF InOrder
  <2> QED
    BY <1>2, <1>4, <1>6, <2>1, <2>2, <2>3
<1>9. ASSUME NEW p \in DOMAIN queue', NEW q \in DOMAIN queue',
             p < q, queue'[p] # Null, queue'[q] # Null
      PROVE  queue'[p] < queue'[q]
  <2>1. p + 1 \in DOMAIN queue /\ q + 1 \in DOMAIN queue /\ p + 1 < q + 1
    BY <1>2, <1>9
  <2> QED
    BY <1>2, <1>9, <2>1 DEF InOrder
<1>10. ASSUME NEW m \in Popped' + 1 .. accepted
       PROVE  \E q \in DOMAIN queue' : queue'[q] = m
  <2>1. m \in Popped + 1 .. accepted
    BY <1>3, <1>6
  <2>2. PICK q \in DOMAIN queue : queue[q] = m
    BY <2>1 DEF InOrder
  <2>3. q # 1
    BY <1>2, <1>3, <1>4, <1>6, <2>1, <2>2 DEF Null
  <2>4. q - 1 \in DOMAIN queue' /\ (q - 1) + 1 = q
    BY <1>2, <2>3
  <2> QED
    BY <1>2, <2>2, <2>4
<1>11. Popped' <= accepted /\ \A i \in DOMAIN written : written[i] = i
  BY <1>3, <1>4, <1>6 DEF InOrder
<1> QED
  BY <1>1, <1>7, <1>8, <1>9, <1>10, <1>11 DEF InOrder

LEMMA WriteKeepsOrder ==
  ASSUME TypeOK, InOrder, NEW who \in {"worker", "owner"}, WriteOut(who),
         \A c \in {"worker", "owner"} : c # who => hand[c] = Null
  PROVE  InOrder' /\ Popped' = Popped
<1>1. /\ written' = IF hand[who] = Null THEN written ELSE Append(written, hand[who])
      /\ hand' = [hand EXCEPT ![who] = Null] /\ UNCHANGED <<queue, accepted>>
  BY DEF WriteOut
<1>2. /\ hand[who] \in Nat /\ Len(written) \in Nat /\ DOMAIN written = 1 .. Len(written)
      /\ Len(Append(written, hand[who])) = Len(written) + 1
      /\ DOMAIN Append(written, hand[who]) = 1 .. Len(written) + 1
      /\ \A i \in 1 .. Len(written) : Append(written, hand[who])[i] = written[i]
      /\ Append(written, hand[who])[Len(written) + 1] = hand[who]
  BY AppendIs DEF TypeOK
<1>3. \A c \in {"worker", "owner"} : hand'[c] = Null
  BY <1>1 DEF TypeOK
<1>4. hand[who] # Null => Popped = Len(written) + 1 /\ hand[who] = Len(written) + 1
  BY DEF Popped, InOrder
<1>5. hand[who] = Null => Popped = Len(written)
  BY DEF Popped
<1>6. Popped' = Popped
  BY <1>1, <1>2, <1>3, <1>4, <1>5 DEF Popped
<1>7. \A i \in DOMAIN written' : written'[i] = i
  BY <1>1, <1>2, <1>4 DEF InOrder
<1> QED
  BY <1>1, <1>3, <1>6, <1>7 DEF InOrder

LEMMA KeepsOrder == TypeOK /\ Turns /\ InOrder /\ Next => InOrder'
<1> SUFFICES ASSUME TypeOK, Turns, InOrder, Next PROVE InOrder'
  OBVIOUS
<1>1. CASE LogMsg
  <2>1. /\ queue' = Append(queue, accepted + 1) /\ accepted' = accepted + 1
        /\ UNCHANGED <<written, hand>>
    BY <1>1 DEF LogMsg, Push
  <2>2. /\ accepted \in Nat /\ Len(queue) \in Nat
        /\ DOMAIN queue = 1 .. Len(queue) /\ DOMAIN queue' = 1 .. Len(queue) + 1
        /\ \A i \in DOMAIN queue : queue'[i] = queue[i] /\ queue[i] \in Nat
        /\ queue'[Len(queue) + 1] = accepted + 1
    BY <2>1, AppendIs DEF TypeOK
  <2>3. Popped' = Popped /\ Popped \in Nat /\ Popped <= accepted
    BY <2>1 DEF Popped, TypeOK, InOrder
  <2>4. \A i \in DOMAIN queue' : i \in DOMAIN queue \/ i = Len(queue) + 1
    BY <2>2
  <2>5. ASSUME NEW q \in DOMAIN queue', queue'[q] # Null
        PROVE  Popped' < queue'[q] /\ queue'[q] <= accepted'
    BY <2>1, <2>2, <2>3, <2>4, <2>5 DEF InOrder
  <2>6. ASSUME NEW p \in DOMAIN queue', NEW q \in DOMAIN queue',
               p < q, queue'[p] # Null, queue'[q] # Null
        PROVE  queue'[p] < queue'[q]
    <3>1. p \in DOMAIN queue
      BY <2>2, <2>6
    <3>2. queue[p] <= accepted
      BY <2>2, <2>6, <3>1 DEF InOrder
    <3> QED
      BY <2>2, <2>4, <2>6, <3>1, <3>2 DEF InOrder
  <2>7. ASSUME NEW m \in Popped' + 1 .. accepted'
        PROVE  \E q \in DOMAIN queue' : queue'[q] = m
    <3>1. CASE m = accepted + 1
      BY <2>2, <3>1
    <3>2. CASE m # accepted + 1
      <4>1. m \in Popped + 1 .. accepted
        BY <2>1, <2>2, <2>3, <3>2
      <4>2. PICK q \in DOMAIN queue : queue[q] = m
        BY <4>1 DEF InOrder
      <4> QED
        BY <2>2, <4>2
    <3> QED
      BY <3>1, <3>2
  <2>8. Popped' <= accepted'
    BY <2>1, <2>2, <2>3
  <2> QED
    BY <2>1, <2>3, <2>5, <2>6, <2>7, <2>8 DEF InOrder
<1>2. CASE \E t \in Threads : Flush(t)
  <2>1. queue' = Append(queue, Null) /\ UNCHANGED <<written, hand, accepted>>
    BY <1>2 DEF Flush, Push, Marked
  <2>2. /\ Len(queue) \in Nat
        /\ DOMAIN queue = 1 .. Len(queue) /\ DOMAIN queue' = 1 .. Len(queue) + 1
        /\ \A i \in DOMAIN queue : queue'[i] = queue[i]
        /\ queue'[Len(queue) + 1] = Null
    BY <2>1, AppendIs DEF TypeOK, Null
  <2>3. Popped' = Popped
    BY <2>1 DEF Popped
  <2>4. \A i \in DOMAIN queue' : queue'[i] # Null => i \in DOMAIN queue /\ queue'[i] = queue[i]
    BY <2>2
  <2>5. \A i \in DOMAIN queue : i \in DOMAIN queue'
    BY <2>2
  <2> QED
    BY <2>1, <2>2, <2>3, <2>4, <2>5 DEF InOrder
<1>3. CASE WorkerPops
  BY <1>3, PopKeepsOrder DEF WorkerPops, Turns
<1>4. CASE OwnerPops
  BY <1>4, PopKeepsOrder DEF OwnerPops, Turns
<1>5. CASE WorkerWrites
  BY <1>5, WriteKeepsOrder DEF WorkerWrites, Turns
<1>6. CASE OwnerWrites
  BY <1>6, WriteKeepsOrder DEF OwnerWrites, Turns
<1>7. CASE Quiet
  BY <1>7, QuietLeaves DEF InOrder, Popped
<1> QED
  BY <1>1, <1>2, <1>3, <1>4, <1>5, <1>6, <1>7, Steps

(***************************************************************************)
(* What flush() and the destructor wait for.                               *)
(***************************************************************************)
LEMMA WrittenGrows ==
  TypeOK /\ Next => Len(written) \in Nat /\ Len(written') \in Nat /\ Len(written) <= Len(written')
<1> SUFFICES ASSUME TypeOK, Next
             PROVE  /\ Len(written) \in Nat /\ Len(written') \in Nat
                    /\ Len(written) <= Len(written')
  OBVIOUS
<1>1. CASE WorkerWrites \/ OwnerWrites
  <2>1. PICK who \in {"worker", "owner"} :
          written' = IF hand[who] = Null THEN written ELSE Append(written, hand[who])
    BY <1>1 DEF WorkerWrites, OwnerWrites, WriteOut
  <2> QED
    BY <2>1, AppendIs DEF TypeOK
<1>2. CASE ~(WorkerWrites \/ OwnerWrites)
  <2>1. written' = written
    BY <1>2, Steps, QuietLeaves DEF LogMsg, Flush, WorkerPops, OwnerPops, Pop
  <2> QED
    BY <2>1 DEF TypeOK
<1> QED
  BY <1>1, <1>2

\* The consumer of a null pointer has nothing in hand: all before it is written.
LEMMA PopKeepsWaits ==
  ASSUME TypeOK, InOrder, Waits, NEW who \in {"worker", "owner"}, Pop(who),
         hand["worker"] = Null, hand["owner"] = Null
  PROVE  Waits'
<1>1. /\ queue # << >> /\ queue' = Tail(queue)
      /\ UNCHANGED <<written, accepted, flushing, owed>>
  BY DEF Pop
<1>2. /\ Head(queue) = queue[1] /\ Len(queue) \in Nat \ {0}
      /\ DOMAIN queue = 1 .. Len(queue) /\ DOMAIN queue' = 1 .. Len(queue) - 1
      /\ \A i \in DOMAIN queue' : i + 1 \in DOMAIN queue /\ queue'[i] = queue[i + 1]
      /\ \A i \in DOMAIN queue : queue[i] \in Nat
  BY <1>1, TailIs DEF TypeOK
<1>3. Popped = Len(written) /\ Popped \in Nat /\ accepted \in Nat
  BY DEF Popped, TypeOK
<1>4. SUFFICES ASSUME NEW t \in flushing, ~(owed[t] <= Len(written))
               PROVE  MarkedBy(t)'
  BY <1>1 DEF Waits
<1>5. owed[t] \in Nat /\ owed[t] <= accepted
  BY DEF TypeOK, Waits
<1>6. PICK p \in DOMAIN queue :
        /\ queue[p] = Null
        /\ \A q \in DOMAIN queue : p < q /\ queue[q] # Null => owed[t] < queue[q]
  BY <1>4 DEF Waits, MarkedBy
<1>7. p # 1
  <2> SUFFICES ASSUME p = 1 PROVE FALSE
    OBVIOUS
  <2>1. Popped + 1 \in Popped + 1 .. accepted
    BY <1>3, <1>4, <1>5
  <2>2. PICK q \in DOMAIN queue : queue[q] = Popped + 1
    BY <2>1 DEF InOrder
  <2>3. 1 < q /\ queue[q] # Null
    BY <1>2, <1>3, <1>6, <2>2 DEF Null
  <2> QED
    BY <1>3, <1>4, <1>5, <1>6, <2>2, <2>3
<1>8. p - 1 \in DOMAIN queue' /\ queue'[p - 1] = Null
  <2>1. p - 1 \in DOMAIN queue' /\ (p - 1) + 1 = p
    BY <1>2, <1>7
  <2> QED
    BY <1>2, <1>6, <2>1
<1>9. ASSUME NEW q \in DOMAIN queue', p - 1 < q, queue'[q] # Null
      PROVE  owed[t] < queue'[q]
  <2>1. q + 1 \in DOMAIN queue /\ p < q + 1 /\ queue'[q] = queue[q + 1]
    BY <1>2, <1>9
  <2> QED
    BY <1>6, <1>9, <2>1
<1> QED
  BY <1>1, <1>8, <1>9 DEF MarkedBy

LEMMA KeepsWaits == TypeOK /\ Turns /\ InOrder /\ Waits /\ Next => Waits'
<1> SUFFICES ASSUME TypeOK, Turns, InOrder, Waits, Next PROVE Waits'
  OBVIOUS
<1>1. CASE LogMsg
  <2>1. /\ queue' = Append(queue, accepted + 1) /\ accepted' = accepted + 1
        /\ UNCHANGED <<written, flushing, owed>>
    BY <1>1 DEF LogMsg, Push
  <2>2. /\ accepted \in Nat /\ Len(queue) \in Nat
        /\ DOMAIN queue = 1 .. Len(queue) /\ DOMAIN queue' = 1 .. Len(queue) + 1
        /\ \A i \in DOMAIN queue : queue'[i] = queue[i]
        /\ queue'[Len(queue) + 1] = accepted + 1
    BY <2>1, AppendIs DEF TypeOK
  <2>3. \A t \in flushing : owed[t] \in Nat /\ owed[t] <= accepted
    BY DEF TypeOK, Waits
  <2>4. ASSUME NEW t \in flushing, MarkedBy(t) PROVE MarkedBy(t)'
    <3>1. PICK p \in DOMAIN queue :
            /\ queue[p] = Null
            /\ \A q \in DOMAIN queue : p < q /\ queue[q] # Null => owed[t] < queue[q]
      BY <2>4 DEF MarkedBy
    <3>2. p \in DOMAIN queue' /\ queue'[p] = Null
      BY <2>2, <3>1
    <3>3. ASSUME NEW q \in DOMAIN queue', p < q, queue'[q] # Null PROVE owed'[t] < queue'[q]
      <4>1. CASE q \in DOMAIN queue
        BY <2>1, <2>2, <3>1, <3>3, <4>1
      <4>2. CASE q \notin DOMAIN queue
        <5>1. q = Len(queue) + 1
          BY <2>2, <4>2
        <5> QED
          BY <2>1, <2>2, <2>3, <5>1
      <4> QED
        BY <4>1, <4>2
    <3> QED
      BY <3>2, <3>3 DEF MarkedBy
  <2>5. \A t \in flushing : owed[t] <= accepted'
    BY <2>1, <2>2, <2>3
  <2> QED
    BY <2>1, <2>4, <2>5 DEF Waits
<1>2. CASE \E t \in Threads : Flush(t)
  <2>1. PICK u \in Threads : Flush(u)
    BY <1>2
  <2>2. /\ queue' = Append(queue, Null) /\ flushing' = flushing \cup {u}
        /\ owed' = [owed EXCEPT ![u] = accepted]
        /\ u \notin flushing /\ UNCHANGED <<written, accepted>>
    BY <2>1 DEF Flush, Push, Marked
  <2>3. /\ Len(queue) \in Nat
        /\ DOMAIN queue = 1 .. Len(queue) /\ DOMAIN queue' = 1 .. Len(queue) + 1
        /\ \A i \in DOMAIN queue : queue'[i] = queue[i]
        /\ queue'[Len(queue) + 1] = Null
    BY <2>2, AppendIs DEF TypeOK, Null
  <2>4. /\ owed'[u] = accepted /\ accepted \in Nat
        /\ \A t \in flushing : owed'[t] = owed[t]
    BY <2>2 DEF TypeOK
  <2>5. MarkedBy(u)'
    <3>1. \A q \in DOMAIN queue' : ~(Len(queue) + 1 < q)
      BY <2>3
    <3>2. Len(queue) + 1 \in DOMAIN queue'
      BY <2>3
    <3> QED
      BY <2>3, <3>1, <3>2 DEF MarkedBy
  <2>6. ASSUME NEW t \in flushing, MarkedBy(t) PROVE MarkedBy(t)'
    <3>1. PICK p \in DOMAIN queue :
            /\ queue[p] = Null
            /\ \A q \in DOMAIN queue : p < q /\ queue[q] # Null => owed[t] < queue[q]
      BY <2>6 DEF MarkedBy
    <3>2. p \in DOMAIN queue' /\ queue'[p] = Null
      BY <2>3, <3>1
    <3>3. \A q \in DOMAIN queue' : queue'[q] # Null => q \in DOMAIN queue /\ queue'[q] = queue[q]
      BY <2>3
    <3>4. \A q \in DOMAIN queue' : p < q /\ queue'[q] # Null => owed'[t] < queue'[q]
      BY <2>4, <3>1, <3>3
    <3> QED
      BY <3>2, <3>4 DEF MarkedBy
  <2>7. accepted <= accepted
    BY <2>4
  <2> QED
    BY <2>2, <2>4, <2>5, <2>6, <2>7 DEF Waits
<1>3. CASE WorkerPops
  BY <1>3, PopKeepsWaits DEF WorkerPops, Turns
<1>4. CASE OwnerPops
  BY <1>4, PopKeepsWaits DEF OwnerPops, Turns
<1>5. CASE WorkerWrites \/ OwnerWrites
  <2>1. UNCHANGED <<queue, flushing, owed, accepted>>
    BY <1>5 DEF WorkerWrites, OwnerWrites, WriteOut
  <2>2. \A t \in flushing : owed[t] \in Nat
    BY DEF TypeOK
  <2>3. \A t \in flushing : owed[t] <= Len(written) => owed[t] <= Len(written')
    BY <2>2, WrittenGrows
  <2> QED
    BY <2>1, <2>3 DEF Waits, MarkedBy
<1>6. CASE Quiet
  <2>1. flushing' \subseteq flushing
    BY <1>6 DEF Quiet, WorkerTest, WorkerEnds, Stop, Destroy, Join, Delete, FlushReturns
  <2> QED
    BY <1>6, <2>1, QuietLeaves DEF Waits, MarkedBy
<1> QED
  BY <1>1, <1>2, <1>3, <1>4, <1>5, <1>6, Steps

\* The destructor goes on when there is nothing left.
LEMMA NoneLeft ==
  TypeOK /\ Turns /\ InOrder /\ owner = "pop" /\ queue = << >> => Len(written) = accepted
<1> SUFFICES ASSUME TypeOK, Turns, InOrder, owner = "pop", queue = << >>
             PROVE  Len(written) = accepted
  OBVIOUS
<1>1. Popped = Len(written) /\ Len(written) \in Nat /\ accepted \in Nat /\ Popped <= accepted
  BY DEF Turns, Popped, TypeOK, InOrder
<1>2. Popped + 1 \notin Popped + 1 .. accepted
  BY DEF InOrder
<1> QED
  BY <1>1, <1>2

LEMMA KeepsDue ==
  TypeOK /\ Turns /\ InOrder /\ due <= accepted /\ NothingLost /\ Next
    => (due <= accepted)' /\ NothingLost'
<1> SUFFICES ASSUME TypeOK, Turns, InOrder, due <= accepted, NothingLost, Next
             PROVE  (due <= accepted)' /\ NothingLost'
  OBVIOUS
<1>1. due \in Nat /\ accepted \in Nat
  BY DEF TypeOK
<1>2. CASE Destroy
  BY <1>1, <1>2 DEF Destroy, NothingLost
<1>3. CASE Join
  <2>1. UNCHANGED <<due, accepted, written>>
    BY <1>3 DEF Join
  <2>2. owner' = "deleting" => owner = "pop" /\ queue = << >>
    BY <1>3 DEF Join, AfterJoin
  <2>3. owner' # "deleted"
    BY <1>3 DEF Join, AfterJoin
  <2> QED
    BY <1>1, <2>1, <2>2, <2>3, NoneLeft DEF NothingLost
<1>4. CASE ~Destroy /\ ~Join
  <2>1. due' = due /\ (accepted' = accepted \/ accepted' = accepted + 1)
    BY <1>4, Steps DEF LogMsg, Flush, WorkerPops, OwnerPops, Pop, WorkerWrites, OwnerWrites,
       WriteOut, Quiet, WorkerTest, WorkerEnds, Stop, Delete, FlushReturns
  <2>2. owner' \in {"deleting", "deleted"} => owner \in {"deleting", "deleted"}
    BY <1>4, Steps DEF LogMsg, Flush, WorkerPops, OwnerPops, Pop, WorkerWrites, OwnerWrites,
       WriteOut, Quiet, WorkerTest, WorkerEnds, Stop, Delete, FlushReturns
  <2> QED
    BY <1>1, <2>1, <2>2, WrittenGrows DEF NothingLost
<1> QED
  BY <1>2, <1>3, <1>4

-----------------------------------------------------------------------------
(* The invariant.                                                          *)
THEOREM Inductive == Spec => []IInv
<1>1. Init => IInv
  BY InitInvariant
<1>2. IInv /\ [Next]_vars => IInv'
  <2> SUFFICES ASSUME IInv, [Next]_vars PROVE IInv'
    OBVIOUS
  <2>1. CASE Next
    BY <2>1, KeepsTypes, KeepsTurns, KeepsOrder, KeepsWaits, KeepsDue DEF IInv
  <2>2. CASE UNCHANGED vars
    BY <2>2 DEF vars, IInv, TypeOK, Turns, InOrder, Popped, Waits, MarkedBy, NothingLost
  <2> QED
    BY <2>1, <2>2
<1> QED
  BY <1>1, <1>2, PTL DEF Spec

(* The queue and the variables of worker and main() keep their types.      *)
THEOREM TypeCorrect == Spec => []TypeOK
<1>1. IInv => TypeOK
  BY DEF IInv
<1> QED
  BY <1>1, Inductive, PTL

(* When the backends are closed they have got what was logged before the   *)
(* destructor was entered, for any threads and any number of messages.     *)
THEOREM NothingLostCorrect == Spec => []NothingLost
<1>1. IInv => NothingLost
  BY DEF IInv
<1> QED
  BY <1>1, Inductive, PTL

(***************************************************************************)
(* The logger implements the promise: each of its steps writes the next    *)
(* message, accepts one, begins or ends a flush, or changes nothing of it. *)
(***************************************************************************)
LEMMA InitImplements == Init => Promise!Init
BY DEF Init, Promise!Init

LEMMA WriteImplements ==
  ASSUME TypeOK, InOrder, NEW who \in {"worker", "owner"}, WriteOut(who)
  PROVE  Promise!Write \/ UNCHANGED <<accepted, written, flushing, owed>>
<1>1. /\ written' = IF hand[who] = Null THEN written ELSE Append(written, hand[who])
      /\ UNCHANGED <<accepted, flushing, owed>>
  BY DEF WriteOut
<1>2. CASE hand[who] = Null
  BY <1>1, <1>2
<1>3. CASE hand[who] # Null
  <2>1. hand[who] = Len(written) + 1 /\ Len(written) + 1 <= accepted
    BY <1>3 DEF InOrder, Popped
  <2>2. Len(written) \in Nat /\ accepted \in Nat
    BY DEF TypeOK
  <2> QED
    BY <1>1, <1>3, <2>1, <2>2 DEF Promise!Write
<1> QED
  BY <1>2, <1>3

LEMMA StepImplements == IInv /\ Next => Promise!Next \/ UNCHANGED <<accepted, written, flushing, owed>>
<1> SUFFICES ASSUME IInv, Next
             PROVE  Promise!Next \/ UNCHANGED <<accepted, written, flushing, owed>>
  OBVIOUS
<1>1. CASE LogMsg
  BY <1>1 DEF LogMsg, Promise!Next, Promise!Accept
<1>2. CASE \E t \in Threads : Flush(t)
  BY <1>2 DEF Flush, Promise!Next, Promise!BeginFlush
<1>3. CASE WorkerPops \/ OwnerPops
  BY <1>3 DEF WorkerPops, OwnerPops, Pop
<1>4. CASE WorkerWrites \/ OwnerWrites
  BY <1>4, WriteImplements DEF WorkerWrites, OwnerWrites, IInv, Promise!Next
<1>5. CASE \E t \in Threads : FlushReturns(t)
  <2>1. PICK t \in Threads : FlushReturns(t)
    BY <1>5
  <2>2. t \in flushing /\ queue = << >>
    BY <2>1 DEF FlushReturns
  <2>3. DOMAIN queue = {}
    BY <2>2
  <2>4. owed[t] <= Len(written)
    BY <2>2, <2>3 DEF IInv, Waits, MarkedBy
  <2>5. Promise!EndFlush(t)
    BY <2>1, <2>4 DEF FlushReturns, Promise!EndFlush
  <2> QED
    BY <2>5 DEF Promise!Next
<1>6. CASE WorkerTest \/ WorkerEnds \/ Stop \/ Destroy \/ Join \/ Delete
  BY <1>6 DEF WorkerTest, WorkerEnds, Stop, Destroy, Join, Delete
<1> QED
  BY <1>1, <1>2, <1>3, <1>4, <1>5, <1>6, Steps DEF Quiet

(* Whoever consumes, and whenever the logger is stopped: messages are      *)
(* written once and in order, and flush() returns when all that was        *)
(* accepted before it is written.                                          *)
THEOREM ImplementsCorrect == Spec => Implements
<1>1. Init => Promise!Init
  BY InitImplements
<1>2. IInv /\ [Next]_vars => [Promise!Next]_<<accepted, written, flushing, owed>>
  <2>1. IInv /\ UNCHANGED vars => UNCHANGED <<accepted, written, flushing, owed>>
    BY DEF vars
  <2> QED
    BY <2>1, StepImplements
<1> QED
  BY <1>1, <1>2, Inductive, PTL DEF Spec, Implements, Promise!Spec

=============================================================================

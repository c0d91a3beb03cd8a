------------------------- MODULE GamecontrolProofs -------------------------
(***************************************************************************)
(* Proofs about Gamecontrol, for any range of the packet numbers, any      *)
(* delays within GapAssumption, any contents and any inputs.               *)
(***************************************************************************)
EXTENDS Gamecontrol, TLAPS

LEMMA Bounds ==
  /\ Wrap \in Nat /\ Always \in Nat /\ MaxAge \in Nat /\ MaxGap \in Nat
  /\ MaxGap > 0 /\ MaxGap <= MaxAge + 1
  /\ MaxAge + MaxGap < Wrap
  /\ MaxAge + MaxGap <= Always + 1
BY NumbersAssumption, GapAssumption

LEMMA Initially == Init => IInv
<1> SUFFICES ASSUME Init PROVE IInv
  OBVIOUS
<1>1. Default \in Message /\ Contents \subseteq Message
  BY InputsAssumption DEF Default, Message, GameStates, Penalties
<1>2. 0 \in Numbers
  BY Bounds DEF Numbers
<1>3. TypeOK
  BY <1>1, <1>2, Bounds DEF Init, TypeOK, NoPacket, Board, Penalties, GameStates
<1>4. Numbered /\ AgeBound
  BY Bounds DEF Init, Numbered, AgeBound, NoPacket
<1> QED BY <1>3, <1>4 DEF IInv

-----------------------------------------------------------------------------
(* The game controller and the network.                                    *)

(***************************************************************************)
(* A packet keeps its number while the game controller counts on and the   *)
(* packet ages: the number can be told from the age across the wrap.       *)
(***************************************************************************)
LEMMA Aging ==
  ASSUME gcNumber \in Numbers, gcNumber' = Successor(gcNumber),
         NEW a \in Nat, a < Wrap
  PROVE  /\ gcNumber' \in Numbers
         /\ NumberOf(a + 1)' = NumberOf(a)
         /\ NumberOf(0)' = gcNumber'
BY Bounds DEF Numbers, Successor, NumberOf

LEMMA SendKeeps == IInv /\ Send => IInv'
<1> SUFFICES ASSUME IInv, Send PROVE IInv'
  OBVIOUS
<1>0. /\ TypeOK /\ Numbered /\ AgeBound
      /\ gcNumber \in Numbers /\ gcNumber' = Successor(gcNumber)
      /\ gap \in Nat /\ gap < MaxGap /\ gap' = gap + 1
      /\ parsing = {} /\ parsing' = {}
  BY Bounds DEF IInv, TypeOK, Send, robotVars
<1>1. gcNumber' \in Numbers /\ NumberOf(0)' = gcNumber'
  BY <1>0, Aging, Bounds
<1>2. \A p \in net' : p \in Packet /\ p.number = NumberOf(p.age)'
  <2> SUFFICES ASSUME NEW p \in net'
               PROVE  p \in Packet /\ p.number = NumberOf(p.age)'
    OBVIOUS
  <2>1. CASE p = [number |-> gcNumber', age |-> 0, says |-> gcNow]
    BY <1>0, <1>1, <2>1, Bounds DEF Packet, TypeOK
  <2>2. CASE p \in Older(net)
    <3>1. PICK q \in net : q.age < MaxAge /\ p = [q EXCEPT !.age = @ + 1]
      BY <2>2 DEF Older
    <3>2. q \in Packet /\ q.age \in Nat /\ q.number = NumberOf(q.age)
      BY <1>0, Bounds DEF TypeOK, Packet, Numbered
    <3>3. p.number = q.number /\ p.age = q.age + 1 /\ p \in Packet
      BY <3>1, <3>2, Bounds DEF Packet
    <3>4. NumberOf(q.age + 1)' = NumberOf(q.age)
      BY <1>0, <3>1, <3>2, Aging, Bounds
    <3> QED BY <3>2, <3>3, <3>4
  <2> QED BY <2>1, <2>2 DEF Send
<1>3. /\ age' \in {NoPacket} \cup 0 .. MaxAge + MaxGap
      /\ age' <= MaxAge + gap'
      /\ gc'.number = IF age' = NoPacket THEN 0 ELSE NumberOf(age)'
  <2>1. gc' = gc /\ age <= MaxAge + gap
    BY <1>0 DEF Send, robotVars, AgeBound
  <2>2. CASE age = NoPacket
    BY <1>0, <2>1, <2>2, Bounds DEF Send, Numbered, NoPacket
  <2>3. CASE age # NoPacket
    <3>1. age \in Nat /\ age' = age + 1 /\ age < Wrap
      BY <1>0, <2>1, <2>3, Bounds DEF TypeOK, Send
    <3>2. NumberOf(age)' = NumberOf(age)
      BY <1>0, <3>1, Bounds DEF Numbers, Successor, NumberOf
    <3>3. age' \in 0 .. MaxAge + MaxGap /\ age' <= MaxAge + gap' /\ age' # NoPacket
      BY <1>0, <2>1, <3>1, Bounds DEF NoPacket
    <3>4. gc'.number = NumberOf(age)
      BY <1>0, <2>1, <2>3 DEF Numbered
    <3> QED BY <3>2, <3>3, <3>4
  <2> QED BY <2>2, <2>3
<1>4. TypeOK'
  BY <1>0, <1>1, <1>2, <1>3, Bounds DEF TypeOK, Send, robotVars
<1>5. Numbered' /\ AgeBound'
  BY <1>0, <1>2, <1>3 DEF Numbered, AgeBound
<1> QED BY <1>4, <1>5 DEF IInv

-----------------------------------------------------------------------------
(* recv().                                                                 *)

LEMMA RecvKeeps ==
  ASSUME IInv,
         \/ Silence
         \/ \E p \in net : Ignore(p) \/ Accept(p)
         \/ \E p \in parsing : ParsePacket(p)
  PROVE  IInv'
<1>0. TypeOK /\ Numbered /\ AgeBound
  BY DEF IInv
<1>1. CASE Silence
  <2>1. UNCHANGED <<gcNow, gcNumber, net, age, gap, parsing, bb, was, emitted, role>>
        /\ gc' = [gc EXCEPT !.recent = FALSE]
    BY <1>1 DEF Silence, netVars
  <2>2. TypeOK'
    BY <1>0, <2>1 DEF TypeOK
  <2>3. Numbered' /\ AgeBound'
    BY <1>0, <2>1 DEF TypeOK, Numbered, NumberOf, AgeBound
  <2> QED BY <2>2, <2>3 DEF IInv
<1>2. CASE \E p \in net : Ignore(p)
  <2>1. UNCHANGED <<gcNow, gcNumber, age, gap, gc, parsing, bb, was, emitted, role>>
        /\ net' \subseteq net
    BY <1>2 DEF Ignore, robotVars
  <2>2. TypeOK'
    BY <1>0, <2>1 DEF TypeOK
  <2>3. Numbered' /\ AgeBound'
    BY <1>0, <2>1 DEF TypeOK, Numbered, NumberOf, AgeBound
  <2> QED BY <2>2, <2>3 DEF IInv
<1>3. CASE \E p \in net : Accept(p)
  <2> PICK p \in net : Accept(p)
    BY <1>3
  <2>1. UNCHANGED <<gcNow, gcNumber, age, bb, was, emitted, role>>
        /\ gc' = [gc EXCEPT !.recent = TRUE]
        /\ net' \subseteq net /\ parsing' = {p} /\ gap' = 0
    BY DEF Accept
  <2>2. gc' \in [number : Numbers, says : Message, unstiff : BOOLEAN, recent : BOOLEAN]
    BY <1>0, <2>1 DEF TypeOK
  <2>3. TypeOK'
    <3>1. p \in Packet
      BY <1>0 DEF TypeOK
    <3>2. gap' \in 0 .. MaxGap
      BY <2>1, Bounds
    <3> QED BY <1>0, <2>1, <2>2, <3>1, <3>2 DEF TypeOK
  <2>4. Numbered' /\ AgeBound'
    BY <1>0, <2>1 DEF TypeOK, Numbered, NumberOf, AgeBound
  <2> QED BY <2>3, <2>4 DEF IInv
<1>4. CASE \E p \in parsing : ParsePacket(p)
  <2> PICK p \in parsing : ParsePacket(p)
    BY <1>4
  <2>1. UNCHANGED <<gcNow, gcNumber, net, gap, bb, was, emitted, role>>
        /\ gc' = [gc EXCEPT !.number = p.number, !.says = p.says]
        /\ age' = p.age /\ parsing' = {}
    BY DEF ParsePacket
  <2>2. p.number \in Numbers /\ p.age \in 0 .. MaxAge /\ p.says \in Message
        /\ p.number = NumberOf(p.age)
    BY <1>0, InputsAssumption DEF TypeOK, Packet, Numbered
  <2>3. /\ gc' \in [number : Numbers, says : Message, unstiff : BOOLEAN, recent : BOOLEAN]
        /\ gc'.number = p.number
    BY <1>0, <2>1, <2>2 DEF TypeOK
  <2>4. TypeOK'
    <3>1. age' \in 0 .. MaxAge + MaxGap
      BY <2>1, <2>2, Bounds
    <3> QED BY <1>0, <2>1, <2>3, <3>1 DEF TypeOK
  <2>5. Numbered' /\ AgeBound'
    BY <1>0, <2>1, <2>2, <2>3, Bounds DEF TypeOK, Numbered, NumberOf, AgeBound, NoPacket
  <2> QED BY <2>4, <2>5 DEF IInv
<1> QED BY <1>1, <1>2, <1>3, <1>4

-----------------------------------------------------------------------------
(* process() and the blackboard.                                           *)

GCData == [number : Numbers, says : Message, unstiff : BOOLEAN, recent : BOOLEAN]

LEMMA ButtonType ==
  ASSUME gc \in GCData, NEW touched \in BOOLEAN, NEW pressed \in BOOLEAN
  PROVE  /\ ButtonHandler(touched, pressed) \in GCData
         /\ ButtonHandler(touched, pressed).number = gc.number
<1> DEFINE g == IF touched THEN HeadTouched(gc) ELSE gc
<1>1. g \in GCData /\ g.number = gc.number
  BY DEF GCData, HeadTouched
<1>2. ChestPressed(g) \in GCData /\ ChestPressed(g).number = g.number
  <2> HIDE DEF g
  <2>1. CASE g.unstiff
    BY <1>1, <2>1 DEF GCData, ChestPressed
  <2>2. CASE ~g.unstiff /\ g.recent
    BY <1>1, <2>2 DEF GCData, ChestPressed
  <2>3. CASE ~g.unstiff /\ ~g.recent /\ Penalized(g)
    <3> DEFINE s == [g.says EXCEPT !.penalty = "NONE", !.state = "PLAYING"]
    <3>1. s \in Message
      BY <1>1 DEF GCData, Message, Penalties, GameStates
    <3>2. ChestPressed(g) = [g EXCEPT !.says = s]
      BY <1>1, <2>3 DEF GCData, Message, ChestPressed
    <3> QED BY <1>1, <3>1, <3>2 DEF GCData
  <2>4. CASE ~g.unstiff /\ ~g.recent /\ ~Penalized(g)
    <3> DEFINE s == [g.says EXCEPT !.penalty = "MANUAL"]
    <3>1. s \in Message
      BY <1>1 DEF GCData, Message, Penalties
    <3>2. ChestPressed(g) = [g EXCEPT !.says = s]
      BY <1>1, <2>4 DEF GCData, Message, ChestPressed
    <3> QED BY <1>1, <3>1, <3>2 DEF GCData
  <2> QED BY <1>1, <2>1, <2>2, <2>3, <2>4 DEF GCData
<1> QED BY <1>1, <1>2 DEF ButtonHandler

LEMMA WriteType ==
  ASSUME NEW b \in Board, NEW w \in Writable
  PROVE  [b EXCEPT ![w[1]] = w[2]] \in Board
<1>1. \/ w[1] = "unstiff" /\ w[2] \in BOOLEAN
      \/ w[1] = "penalty" /\ w[2] \in Penalties
      \/ w[1] = "state" /\ w[2] \in GameStates
  BY InputsAssumption
<1> QED BY <1>1 DEF Board

LEMMA RewrittenType ==
  ASSUME NEW b \in Board, NEW writes \in SUBSET Writable, NEW c \in Rewritten(b, writes)
  PROVE  c \in Board
BY WriteType DEF Rewritten

LEMMA ProcessKeeps ==
  ASSUME IInv, NEW touched \in BOOLEAN, NEW pressed \in BOOLEAN,
         NEW writes \in SUBSET Writable, Process(touched, pressed, writes)
  PROVE  IInv'
<1> DEFINE g == ButtonHandler(touched, pressed)
<1>0. TypeOK /\ Numbered /\ AgeBound
  BY DEF IInv
<1>1. g \in GCData /\ g.number = gc.number
  BY <1>0, ButtonType DEF TypeOK, GCData
<1>2. /\ UpdateBB(g, writes) /\ Emit
      /\ UNCHANGED <<gcNow, gcNumber, net, age, gap, parsing>>
  BY DEF Process, netVars
<1> HIDE DEF g
<1> DEFINE unstiff(seen) == IF g.unstiff # was.unstiff THEN g.unstiff ELSE seen.unstiff
           penalty(seen) == IF was.penalty # bb.penalty THEN seen.penalty ELSE g.says.penalty
           state(seen)   == IF bb.state # was.state THEN seen.state ELSE g.says.state
           synced(seen)  == [seen EXCEPT !.unstiff = unstiff(seen), !.state = state(seen)]
<1>3. PICK seen \in Rewritten(bb, writes) :
        \E last \in Rewritten(synced(seen), writes) :
          /\ gc' = [g EXCEPT !.unstiff = unstiff(seen),
                             !.says.penalty = penalty(seen), !.says.state = state(seen)]
          /\ bb' = [last EXCEPT !.penalty = OnBoard(penalty(seen))]
          /\ was' = [last EXCEPT !.unstiff = unstiff(seen),
                                 !.penalty = RememberPenalty(last.penalty)]
  BY <1>2 DEF UpdateBB
<1>4. seen \in Board
  BY <1>0, RewrittenType DEF TypeOK
<1>5. unstiff(seen) \in BOOLEAN /\ penalty(seen) \in Penalties /\ state(seen) \in GameStates
  BY <1>1, <1>4 DEF GCData, Message, Board
<1>6. synced(seen) \in Board
  BY <1>4, <1>5 DEF Board
<1> HIDE DEF unstiff, penalty, state
<1>7. gc' \in GCData /\ gc'.number = gc.number
  <2> DEFINE s == [g.says EXCEPT !.penalty = penalty(seen), !.state = state(seen)]
  <2>1. s \in Message
    BY <1>1, <1>5 DEF GCData, Message
  <2>2. gc' = [g EXCEPT !.unstiff = unstiff(seen), !.says = s]
    BY <1>1, <1>3 DEF GCData, Message
  <2> QED BY <1>1, <1>5, <2>1, <2>2 DEF GCData
<1>8. bb' \in Board /\ was' \in Board
  <2> HIDE DEF synced
  <2>1. PICK last \in Rewritten(synced(seen), writes) :
          /\ bb' = [last EXCEPT !.penalty = penalty(seen)]
          /\ was' = [last EXCEPT !.unstiff = unstiff(seen), !.penalty = last.penalty]
    BY <1>3 DEF OnBoard, RememberPenalty
  <2>2. last \in Board
    BY <1>6, RewrittenType
  <2> QED BY <1>5, <2>1, <2>2 DEF Board
<1>9. /\ emitted' \in [says : Message, unstiff : BOOLEAN]
      /\ role' \in Roles \cup {"PENALTYKICKER", "PENALTYGOALIE"}
  BY <1>0, <1>2, <1>7 DEF Emit, GCData, TypeOK
<1>10. TypeOK'
  BY <1>0, <1>2, <1>7, <1>8, <1>9 DEF TypeOK, GCData
<1>11. Numbered' /\ AgeBound'
  BY <1>0, <1>2, <1>7 DEF Numbered, NumberOf, AgeBound
<1> QED BY <1>10, <1>11 DEF IInv

LEMMA DebugKeeps ==
  ASSUME IInv, NEW w \in Writable, Debug(w)
  PROVE  IInv'
<1>0. TypeOK /\ Numbered /\ AgeBound
  BY DEF IInv
<1>1. bb' = [bb EXCEPT ![w[1]] = w[2]]
      /\ UNCHANGED <<gcNow, gcNumber, net, age, gap, gc, parsing, was, emitted, role>>
  BY DEF Debug, netVars
<1>3. bb' \in Board
  BY <1>0, <1>1, WriteType DEF TypeOK
<1>4. TypeOK'
  BY <1>0, <1>1, <1>3 DEF TypeOK
<1>5. Numbered' /\ AgeBound'
  BY <1>0, <1>1 DEF Numbered, NumberOf, AgeBound
<1> QED BY <1>4, <1>5 DEF IInv

-----------------------------------------------------------------------------

(***************************************************************************)
(* Types, and that the numbers of the packets under way and of the last    *)
(* one follow from their ages, whatever is lost, late or sent twice.       *)
(***************************************************************************)
THEOREM Inductive == Spec => []IInv
<1>1. IInv /\ [Next]_vars => IInv'
  <2> SUFFICES ASSUME IInv, [Next]_vars PROVE IInv'
    OBVIOUS
  <2>1. CASE Send
    BY <2>1, SendKeeps
  <2>2. CASE Silence \/ (\E p \in net : Ignore(p) \/ Accept(p))
             \/ \E p \in parsing : ParsePacket(p)
    BY <2>2, RecvKeeps
  <2>3. CASE \E c \in Contents : Decide(c)
    BY <2>3 DEF Decide, robotVars, IInv, TypeOK, Numbered, NumberOf, AgeBound
  <2>4. CASE \E w \in Writable : Debug(w)
    BY <2>4, DebugKeeps
  <2>5. CASE \/ Process(FALSE, FALSE, {})
             \/ \E touched, pressed \in BOOLEAN : Process(touched, pressed, Writable)
    BY <2>5, ProcessKeeps
  <2>6. CASE UNCHANGED vars
    BY <2>6 DEF vars, netVars, robotVars, IInv, TypeOK, Numbered, NumberOf, AgeBound
  <2> QED BY <2>1, <2>2, <2>3, <2>4, <2>5, <2>6 DEF Next, Undisturbed
<1> QED BY Initially, <1>1, PTL DEF Spec

THEOREM TypeCorrect == Spec => []TypeOK
<1>1. IInv => TypeOK
  BY DEF IInv
<1> QED BY <1>1, Inductive, PTL

(***************************************************************************)
(* recv() ignores no packet that is newer than the one it went by last, as *)
(* long as no more than MaxAge + MaxGap <= Always + 1 packets separate     *)
(* them: if the last number is the larger one, the counter has wrapped     *)
(* around in between, and the new number is still among the first.         *)
(***************************************************************************)
THEOREM NewsIsAcceptedCorrect == Spec => []NewsIsAccepted
<1>1. IInv => NewsIsAccepted
  <2> SUFFICES ASSUME IInv, NEW p \in net, News(p), Stale(p) PROVE FALSE
    BY DEF NewsIsAccepted
  <2>1. /\ gcNumber \in Numbers /\ p.number \in Numbers /\ p.age \in 0 .. MaxAge
        /\ p.number = NumberOf(p.age)
    BY DEF IInv, TypeOK, Packet, Numbered
  <2>2. gc.number > p.number /\ p.number > Always
    BY DEF Stale
  <2>3. CASE age = NoPacket
    BY <2>1, <2>2, <2>3, Bounds DEF IInv, Numbered, Numbers
  <2>4. CASE age # NoPacket
    <3>1. age \in 0 .. MaxAge + MaxGap /\ p.age < age /\ gc.number = NumberOf(age)
      BY <2>4 DEF IInv, TypeOK, Numbered, News
    <3> QED BY <2>1, <2>2, <3>1, Bounds DEF NumberOf, Numbers
  <2> QED BY <2>3, <2>4
<1> QED BY <1>1, Inductive, PTL

=============================================================================

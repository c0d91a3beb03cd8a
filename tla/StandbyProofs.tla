--------------------------- MODULE StandbyProofs ---------------------------
(***************************************************************************)
(* Proofs about Standby, for any team and any sights, offenders and flags. *)
(***************************************************************************)
EXTENDS Standby, TLAPS

\* What Timeline says once official, told, gc and lag have been picked.
InTime(o, t, g, n) ==
  \/ n = 0 /\ o = g /\ t = g
  \/ n = 1 /\ <<o, g>> \in Follows /\ t \in {o, g}
  \/ /\ n = 2
     /\ \E s \in States :
          /\ <<s, g>> \in Follows
          /\ \/ o = s /\ t \in {s, g}
             \/ <<o, s>> \in Follows /\ t \in {o, s, g}

LEMMA TimelineIs ==
  /\ \A r \in Robots : Timeline(r) <=> InTime(official[r], told[r].state, gc, lag[r])
  /\ \A r \in Robots :
       Timeline(r)' <=> InTime(official'[r], told'[r].state, gc', lag'[r])
BY DEF Timeline, InTime

-----------------------------------------------------------------------------
(* How the states of the game follow each other.                           *)

LEMMA TimeGoesOn ==
  ASSUME NEW o \in States, NEW t \in States, NEW g \in States, NEW h \in States,
         NEW n \in {0, 1}, InTime(o, t, g, n), <<g, h>> \in Follows
  PROVE  InTime(o, t, h, n + 1)
BY DEF InTime

LEMMA HearingIsInTime ==
  ASSUME NEW o \in States, NEW t \in States, NEW g \in States, NEW n \in 0 .. 2,
         InTime(o, t, g, n)
  PROVE  InTime(o, g, g, n)
BY DEF InTime

LEMMA NoticingIsInTime ==
  ASSUME NEW o \in States, NEW t \in States, NEW g \in States, NEW n \in 0 .. 2,
         InTime(o, t, g, n)
  PROVE  InTime(t, t, g, IF t = g THEN 0 ELSE n)
BY DEF InTime

(***************************************************************************)
(* The GC comes to STANDBY by INITIAL and to that by PLAYING: a robot that *)
(* is one state late at most is no longer in the last STANDBY.             *)
(***************************************************************************)
LEMMA OutOfStandby ==
  ASSUME NEW o \in States, NEW t \in States, NEW g \in States, NEW n \in {0, 1},
         InTime(o, t, g, n), <<g, "STANDBY">> \in Follows
  PROVE  o # "STANDBY"
BY DEF InTime, Follows, States

\* Nobody comes from READY to STANDBY without a state in between.
LEMMA NotFromReady ==
  ASSUME NEW o \in States, NEW g \in States, NEW n \in 0 .. 2,
         InTime(o, "STANDBY", g, n)
  PROVE  o # "READY"
BY DEF InTime, Follows, States

-----------------------------------------------------------------------------

Synchronous == \A r \in Robots : Timeline(r) /\ (official[r] # "STANDBY" => real[r] = official[r])

LEMMA Initially == Init => IInv
<1> SUFFICES ASSUME Init PROVE IInv
  OBVIOUS
<1>1. TypeOK
  <2>1. {looking, gestures, toSend, messages} \subseteq [Robots -> BOOLEAN]
    BY DEF Init
  <2>2. /\ detected \in [Robots -> BOOLEAN] /\ punished \in [Robots -> BOOLEAN]
        /\ waited \in [Robots -> BOOLEAN]
    BY DEF Init
  <2>3. {official, real} \subseteq [Robots -> States]
    BY DEF Init, States
  <2>4. told \in [Robots -> [state : States, fouls : SUBSET Offenders]]
    BY DEF Init, States
  <2>5. lag \in [Robots -> Nat] /\ \A r \in Robots : lag[r] <= MaxLag[r]
    BY StandbyAssumption DEF Init
  <2>6. gc \in States /\ fouls \subseteq Offenders /\ armsUp \in BOOLEAN /\ raised \in BOOLEAN
        /\ air \subseteq Robots \X Robots
    BY DEF Init, States
  <2> QED BY <2>1, <2>2, <2>3, <2>4, <2>5, <2>6 DEF TypeOK
<1>2. NoSignal
  BY DEF Init, NoSignal, Quiet
<1>3. Synchronous
  BY DEF Init, Synchronous, Timeline
<1> QED BY <1>1, <1>2, <1>3 DEF IInv, Synchronous

LEMMA LagBound ==
  ASSUME TypeOK, NEW r \in Robots
  PROVE  /\ lag[r] \in 0 .. 2 /\ MaxLag[r] \in {1, 2}
         /\ lag[r] < MaxLag[r] => lag[r] \in {0, 1}
         /\ official[r] \in States /\ told[r].state \in States /\ real[r] \in States
         /\ gc \in States
BY StandbyAssumption DEF TypeOK

LEMMA AnnounceKeeps ==
  ASSUME IInv, NEW s \in States, Announce(s)
  PROVE  IInv'
<1>0. /\ TypeOK /\ NoSignal /\ Synchronous
      /\ <<gc, s>> \in Follows /\ ~armsUp /\ gc' = s /\ fouls' = {}
      /\ s = "STANDBY" => Quiet
      /\ raised' = (raised /\ s # "STANDBY")
      /\ \A r \in Robots : lag[r] < MaxLag[r]
      /\ lag' = [r \in Robots |-> lag[r] + 1]
      /\ UNCHANGED <<armsUp, told, queues, gamestate>>
  BY DEF IInv, Synchronous, Announce
<1>1. TypeOK'
  <2>1. \A r \in Robots : lag'[r] \in Nat /\ lag'[r] <= MaxLag[r]
    BY <1>0, LagBound
  <2>2. lag' \in [Robots -> Nat]
    BY <1>0, <2>1
  <2>3. raised' \in BOOLEAN
    BY <1>0 DEF TypeOK
  <2> QED BY <1>0, <2>1, <2>2, <2>3 DEF TypeOK, queues, gamestate
<1>2. NoSignal'
  <2>1. CASE s = "STANDBY"
    <3>1. ASSUME NEW r \in Robots PROVE official[r] # "STANDBY"
      <4>1. InTime(official[r], told[r].state, gc, lag[r])
        BY <1>0, TimelineIs DEF Synchronous
      <4>2. /\ official[r] \in States /\ told[r].state \in States /\ gc \in States
            /\ lag[r] \in {0, 1}
        BY <1>0, LagBound
      <4> QED BY <1>0, <2>1, <4>1, <4>2, OutOfStandby
    <3> QED BY <1>0, <2>1, <3>1 DEF NoSignal, Quiet, queues, gamestate
  <2>2. CASE s # "STANDBY"
    BY <1>0, <2>2 DEF NoSignal, Quiet, queues, gamestate
  <2> QED BY <2>1, <2>2
<1>3. Synchronous'
  <2> SUFFICES ASSUME NEW r \in Robots
               PROVE  Timeline(r)' /\ (official'[r] # "STANDBY" => real'[r] = official'[r])
    BY DEF Synchronous
  <2>1. InTime(official[r], told[r].state, s, lag[r] + 1)
    BY <1>0, LagBound, TimeGoesOn, TimelineIs DEF Synchronous
  <2>2. /\ official'[r] = official[r] /\ real'[r] = real[r]
        /\ told'[r] = told[r] /\ lag'[r] = lag[r] + 1
    BY <1>0 DEF gamestate
  <2> QED BY <1>0, <2>1, <2>2, TimelineIs DEF Synchronous
<1> QED BY <1>1, <1>2, <1>3 DEF IInv, Synchronous

\* What only concerns the field and the queues needs a signal.
LEMMA QueuesKeep ==
  ASSUME IInv, UNCHANGED <<gc, told, gamestate, lag>>,
         fouls' \subseteq Offenders, armsUp' \in BOOLEAN, raised' \in BOOLEAN,
         looking' \in [Robots -> BOOLEAN], gestures' \in [Robots -> BOOLEAN],
         toSend' \in [Robots -> BOOLEAN], messages' \in [Robots -> BOOLEAN],
         air' \subseteq Robots \X Robots,
         raised' \/ UNCHANGED <<raised, armsUp, queues>>
  PROVE  IInv'
<1>0. TypeOK /\ NoSignal /\ Synchronous
  BY DEF IInv, Synchronous
<1>1. TypeOK'
  BY <1>0 DEF TypeOK, gamestate
<1>2. NoSignal'
  BY <1>0 DEF NoSignal, Quiet, queues, gamestate
<1>3. Synchronous'
  BY <1>0 DEF Synchronous, Timeline, gamestate
<1> QED BY <1>1, <1>2, <1>3 DEF IInv, Synchronous

LEMMA FieldKeeps ==
  ASSUME IInv, Raise \/ Lower \/ \E r \in Offenders : Penalize(r)
  PROVE  IInv'
<1>1. /\ UNCHANGED <<gc, told, gamestate, lag, queues>>
      /\ fouls' \subseteq Offenders /\ armsUp' \in BOOLEAN /\ raised' \in BOOLEAN
      /\ raised' \/ UNCHANGED <<raised, armsUp>>
  BY DEF IInv, TypeOK, NoSignal, Raise, Lower, Penalize
<1> QED BY <1>1, QueuesKeep DEF IInv, TypeOK, queues

LEMMA SignalsKeep ==
  ASSUME IInv, NEW r \in Robots,
         \/ Look(r) \/ Gesture(r) \/ Broadcast(r)
         \/ \E s \in Robots : NetRecv(s, r) \/ Lose(s, r)
  PROVE  IInv'
<1>0. /\ TypeOK /\ NoSignal
      /\ {looking, gestures, toSend, messages} \subseteq [Robots -> BOOLEAN]
      /\ air \subseteq Robots \X Robots
      /\ fouls \subseteq Offenders /\ armsUp \in BOOLEAN /\ raised \in BOOLEAN
  BY DEF IInv, TypeOK
<1>1. CASE Look(r)
  <2>1. UNCHANGED <<field, gc, told, gestures, toSend, air, messages, gamestate, lag>>
        /\ looking' \in [Robots -> BOOLEAN] /\ raised
    BY <1>0, <1>1 DEF Look, NoSignal, field
  <2> QED BY <1>0, <2>1, QueuesKeep DEF field
<1>2. CASE Gesture(r)
  <2>1. UNCHANGED <<field, gc, told, air, messages, gamestate, lag>> /\ raised
        /\ {looking', gestures', toSend'} \subseteq [Robots -> BOOLEAN]
    BY <1>0, <1>2 DEF Gesture, NoSignal, Quiet, field
  <2> QED BY <1>0, <2>1, QueuesKeep DEF field
<1>3. CASE Broadcast(r)
  <2>1. UNCHANGED <<field, gc, told, looking, gestures, messages, gamestate, lag>> /\ raised
    BY <1>0, <1>3 DEF Broadcast, NoSignal, Quiet, field
  <2>2. toSend' \in [Robots -> BOOLEAN]
    BY <1>0, <1>3 DEF Broadcast
  <2>3. air' \subseteq Robots \X Robots
    BY <1>0, <1>3 DEF Broadcast
  <2> QED BY <1>0, <2>1, <2>2, <2>3, QueuesKeep DEF field
<1>4. CASE \E s \in Robots : NetRecv(s, r) \/ Lose(s, r)
  <2> PICK s \in Robots : NetRecv(s, r) \/ Lose(s, r)
    BY <1>4
  <2>1. UNCHANGED <<field, gc, told, looking, gestures, toSend, gamestate, lag>> /\ raised
    BY <1>0 DEF NetRecv, Lose, NoSignal, Quiet, field
  <2>2. air' \subseteq air
    BY DEF NetRecv, Lose
  <2>3. messages' \in [Robots -> BOOLEAN]
    BY <1>0 DEF NetRecv, Lose
  <2> QED BY <1>0, <2>1, <2>2, <2>3, QueuesKeep DEF field
<1> QED BY <1>1, <1>2, <1>3, <1>4

LEMMA HearKeeps ==
  ASSUME IInv, NEW r \in Robots, Hear(r) \/ Wait(r)
  PROVE  IInv'
<1>0. TypeOK /\ NoSignal /\ Synchronous
  BY DEF IInv, Synchronous
<1>1. /\ UNCHANGED <<field, queues, lag, official, real, detected, punished>>
      /\ \A q \in Robots : told'[q].state \in {told[q].state, gc}
      /\ told' \in [Robots -> [state : States, fouls : SUBSET Offenders]]
      /\ waited' \in [Robots -> BOOLEAN]
  <2>1. CASE Hear(r)
    BY <1>0, <2>1 DEF Hear, gamestate, field, TypeOK
  <2>2. CASE Wait(r)
    BY <1>0, <2>2 DEF Wait, TypeOK
  <2> QED BY <2>1, <2>2
<1>2. TypeOK'
  BY <1>0, <1>1 DEF TypeOK, field, queues
<1>3. NoSignal'
  BY <1>0, <1>1 DEF NoSignal, Quiet, field, queues
<1>4. \A q \in Robots : InTime(official[q], told'[q].state, gc, lag[q])
  BY <1>0, <1>1, HearingIsInTime, LagBound, TimelineIs DEF Synchronous
<1>5. Synchronous'
  BY <1>0, <1>1, <1>4, TimelineIs DEF Synchronous, field
<1> QED BY <1>2, <1>3, <1>5 DEF IInv, Synchronous

LEMMA ProcessKeeps ==
  ASSUME IInv, NEW r \in Robots, Process(r)
  PROVE  IInv'
<1>0. TypeOK /\ NoSignal /\ Synchronous
  BY DEF IInv, Synchronous
<1>1. /\ official' = [official EXCEPT ![r] = told[r].state]
      /\ lag' = IF told[r].state = gc THEN [lag EXCEPT ![r] = 0] ELSE lag
      /\ UNCHANGED <<field, told, looking, toSend, air>>
  BY DEF Process
<1>2. /\ {gestures', messages', detected', punished', waited'} \subseteq [Robots -> BOOLEAN]
      /\ real' \in [Robots -> States]
      /\ \A q \in Robots \ {r} :
           /\ real'[q] = real[q] /\ detected'[q] = detected[q]
           /\ gestures'[q] = gestures[q] /\ messages'[q] = messages[q]
  <2>1. CASE told[r].state = "STANDBY"
    <3>1. HandleOfficialStandby(r)
      BY <2>1 DEF Process
    <3>2. {gestures', messages'} \subseteq [Robots -> BOOLEAN]
          /\ \A q \in Robots \ {r} : gestures'[q] = gestures[q] /\ messages'[q] = messages[q]
      BY <1>0, <3>1 DEF HandleOfficialStandby, Emptied, TypeOK
    <3>3. Detects(r) \in BOOLEAN
      BY <1>0 DEF Detects, TypeOK
    <3>4. detected' \in [Robots -> BOOLEAN]
          /\ \A q \in Robots \ {r} : detected'[q] = detected[q]
      BY <1>0, <3>1, <3>3 DEF HandleOfficialStandby, TypeOK
    <3>5. punished' \in [Robots -> BOOLEAN] /\ waited' \in [Robots -> BOOLEAN]
      BY <1>0, <3>1 DEF HandleOfficialStandby, TypeOK
    <3>6. real' \in [Robots -> States]
          /\ \A q \in Robots \ {r} : real'[q] = real[q]
      BY <1>0, <3>1 DEF HandleOfficialStandby, TypeOK, States
    <3> QED BY <3>2, <3>4, <3>5, <3>6
  <2>2. CASE told[r].state # "STANDBY"
    BY <1>0, <2>2 DEF Process, Trust, TypeOK
  <2> QED BY <2>1, <2>2
<1>3. TypeOK'
  <2>1. lag' \in [Robots -> Nat] /\ \A q \in Robots : lag'[q] <= MaxLag[q]
    <3>1. \A q \in Robots : lag[q] \in Nat /\ lag[q] <= MaxLag[q] /\ 0 <= MaxLag[q]
      BY <1>0, LagBound DEF TypeOK
    <3> QED BY <1>0, <1>1, <3>1 DEF TypeOK
  <2>2. official' \in [Robots -> States]
    BY <1>0, <1>1 DEF TypeOK
  <2> QED BY <1>0, <1>1, <1>2, <2>1, <2>2 DEF TypeOK, field
<1>4. ~raised /\ told[r].state = "STANDBY" =>
        real'[r] = "STANDBY" /\ ~detected'[r] /\ ~gestures'[r] /\ ~messages'[r]
  <2> SUFFICES ASSUME ~raised, told[r].state = "STANDBY"
               PROVE  real'[r] = "STANDBY" /\ ~detected'[r] /\ ~gestures'[r] /\ ~messages'[r]
    OBVIOUS
  <2>1. ~Detects(r) /\ real[r] # "READY" /\ Fetches(r)
    <3>1. CASE official[r] = "STANDBY"
      BY <1>0, <3>1 DEF NoSignal, Detects, Enters, Fetches
    <3>2. CASE official[r] # "STANDBY"
      <4>1. real[r] = official[r] /\ official[r] # "READY"
        BY <1>0, <3>2, NotFromReady, LagBound, TimelineIs DEF Synchronous
      <4> QED BY <3>2, <4>1 DEF Detects, Enters, Fetches
    <3> QED BY <3>1, <3>2
  <2>2. HandleOfficialStandby(r)
    BY DEF Process
  <2>3. real'[r] = "STANDBY"
    <3>1. real'[r] = IF Enters(r) THEN "STANDBY" ELSE real[r]
      BY <1>0, <2>1, <2>2 DEF HandleOfficialStandby, TypeOK
    <3> QED BY <2>1, <3>1 DEF Enters
  <2>4. ~detected'[r] /\ ~gestures'[r] /\ ~messages'[r]
    BY <1>0, <2>1, <2>2 DEF HandleOfficialStandby, Emptied, TypeOK
  <2> QED BY <2>3, <2>4
<1>5. NoSignal'
  <2> SUFFICES ASSUME ~raised PROVE NoSignal'
    BY <1>1 DEF NoSignal, field
  <2>1. ~armsUp' /\ Quiet'
    BY <1>0, <1>1 DEF NoSignal, Quiet, field
  <2>2. ASSUME NEW q \in Robots, official'[q] = "STANDBY"
        PROVE  real'[q] = "STANDBY" /\ ~detected'[q] /\ ~gestures'[q] /\ ~messages'[q]
    <3>1. CASE q = r
      BY <1>0, <1>1, <1>4, <2>2, <3>1 DEF TypeOK
    <3>2. CASE q # r
      BY <1>0, <1>1, <1>2, <2>2, <3>2 DEF NoSignal, TypeOK
    <3> QED BY <3>1, <3>2
  <2> QED BY <2>1, <2>2 DEF NoSignal
<1>6. Synchronous'
  <2> SUFFICES ASSUME NEW q \in Robots
               PROVE  Timeline(q)' /\ (official'[q] # "STANDBY" => real'[q] = official'[q])
    BY DEF Synchronous
  <2>1. CASE q = r
    <3>1. InTime(told[r].state, told[r].state, gc,
                 IF told[r].state = gc THEN 0 ELSE lag[r])
      BY <1>0, NoticingIsInTime, LagBound, TimelineIs DEF Synchronous
    <3>2. /\ official'[r] = told[r].state /\ told'[r] = told[r] /\ gc' = gc
          /\ lag'[r] = IF told[r].state = gc THEN 0 ELSE lag[r]
      BY <1>0, <1>1 DEF TypeOK, field
    <3>3. told[r].state # "STANDBY" => real'[r] = told[r].state
      BY <1>0 DEF Process, Trust, TypeOK
    <3> QED BY <2>1, <3>1, <3>2, <3>3, TimelineIs
  <2>2. CASE q # r
    <3>1. /\ official'[q] = official[q] /\ told'[q] = told[q] /\ gc' = gc
          /\ lag'[q] = lag[q] /\ real'[q] = real[q]
      BY <1>0, <1>1, <1>2, <2>2 DEF TypeOK, field
    <3> QED BY <1>0, <3>1, TimelineIs DEF Synchronous
  <2> QED BY <2>1, <2>2
<1> QED BY <1>3, <1>5, <1>6 DEF IInv, Synchronous

-----------------------------------------------------------------------------

(***************************************************************************)
(* Types, how far a robot may lag behind the game, and that without a      *)
(* signal of the referee no trace of one is left in any robot.             *)
(***************************************************************************)
THEOREM Inductive == Spec => []IInv
<1>1. IInv /\ [Next]_vars => IInv'
  <2> SUFFICES ASSUME IInv, [Next]_vars PROVE IInv'
    OBVIOUS
  <2>1. CASE \E s \in States : Announce(s)
    BY <2>1, AnnounceKeeps
  <2>2. CASE Raise \/ Lower \/ \E r \in Offenders : Penalize(r)
    BY <2>2, FieldKeeps
  <2>3. CASE \E r \in Robots :
               \/ Look(r) \/ Gesture(r) \/ Broadcast(r)
               \/ \E s \in Robots : NetRecv(s, r) \/ Lose(s, r)
    BY <2>3, SignalsKeep
  <2>4. CASE \E r \in Robots : Hear(r) \/ Wait(r)
    BY <2>4, HearKeeps
  <2>5. CASE \E r \in Robots : Process(r)
    BY <2>5, ProcessKeeps
  <2>6. CASE UNCHANGED vars
    BY <2>6 DEF vars, field, queues, gamestate, IInv, TypeOK, NoSignal, Quiet, Timeline
  <2> QED BY <2>1, <2>2, <2>3, <2>4, <2>5, <2>6 DEF Next, RobotStep
<1> QED BY Initially, <1>1, PTL DEF Spec

THEOREM TypeCorrect == Spec => []TypeOK
<1>1. IInv => TypeOK
  BY DEF IInv
<1> QED BY <1>1, Inductive, PTL

(***************************************************************************)
(* In any team no robot walks in before the referee has raised the arms in *)
(* this STANDBY, if each robot notices one of any two states in a row and  *)
(* messages do not outlive a half.                                         *)
(***************************************************************************)
THEOREM WalksInOnSignalCorrect == Spec => []WalksInOnSignal
<1>1. IInv => WalksInOnSignal
  BY DEF IInv, NoSignal, WalksInOnSignal
<1> QED BY <1>1, Inductive, PTL

=============================================================================

---------------------------- MODULE Gamecontrol ----------------------------
(***************************************************************************)
(* The module Gamecontrol (frontend/modules/gamecontrol/gamecontrol.cpp)   *)
(* of one robot, the game controller (GC) that broadcasts the state of the *)
(* game, and the network between them, which loses, delays, reorders and   *)
(* duplicates packets.                                                     *)
(*                                                                         *)
(* recv() runs in the network's thread. It tests the number of the packet  *)
(* and sets lastPacketTs without the mutex, then parses it under the mutex *)
(* that process() holds from beginning to end. process() asks the buttons, *)
(* synchronizes with the blackboard, which BembelDbug may change at any    *)
(* time, and emits an event if anything has changed.                       *)
(*                                                                         *)
(* gc_data.penalized is assigned with the penalty everywhere, under the    *)
(* same mutex, and says penalty # NONE: it is not a variable here.         *)
(***************************************************************************)
EXTENDS Integers

CONSTANTS
  Wrap,      \* packetNumber is a byte: 256
  Always,    \* packets with a number up to this one are always accepted: 10
  MaxAge,    \* a packet is lost once so many others were sent after it
  MaxGap,    \* so many are sent at most before one gets through
  Contents,  \* what the GC may say: a set of Messages
  Roles,     \* settings->role
  Writable   \* what BembelDbug may write: <<variable of the blackboard, value>>

VARIABLES
  gcNow,      \* what the GC has decided
  gcNumber,   \* the number of the packet it sent last
  net,        \* packets on their way
  gc,         \* gc_data: number of the packet, what it said, unstiff and
              \* recent (lastPacketTs is less than 1 s ago)
  age,        \* how many packets were sent after the one gc is from ...
  gap,        \* ... and how many since that one got through
  parsing,    \* the packet that recv() has accepted and not parsed yet, if any
  bb,         \* the blackboard's unstiff, penalty, gameState
  was,        \* wasUnstiff, lastPenalty, lastState
  emitted,    \* gc_last: the last event
  role        \* settings->role

netVars == <<gcNow, gcNumber, net, age, gap>>
robotVars == <<gc, parsing, bb, was, emitted, role>>
vars == <<netVars, robotVars>>

GameStates == {"INITIAL", "READY", "SET", "PLAYING", "FINISHED", "STANDBY"}
Penalties == {"NONE", "ILLEGAL_MOTION_IN_STANDBY", "REQUEST_FOR_PICKUP", "MANUAL"}

\* shootout: gamePhase = PENALTYSHOOT.
Message == [state : GameStates, penalty : Penalties, shootout : BOOLEAN, kickoff : BOOLEAN]

Numbers == 0 .. Wrap - 1
Packet == [number : Numbers, age : 0 .. MaxAge, says : Contents]
Board == [unstiff : BOOLEAN, penalty : Penalties, state : GameStates]

NoPacket == -1

ASSUME NumbersAssumption ==
  /\ Wrap \in Nat /\ Always \in Nat /\ MaxAge \in Nat /\ MaxGap \in Nat
  /\ MaxGap > 0 /\ MaxGap <= MaxAge + 1
  /\ MaxAge + MaxGap < Wrap

\* 11 packets are 5.5 s: the GC sends two each second.
ASSUME GapAssumption == MaxAge + MaxGap <= Always + 1

ASSUME InputsAssumption ==
  /\ Contents \subseteq Message
  /\ Writable \subseteq ({"unstiff"} \X BOOLEAN) \cup ({"penalty"} \X Penalties)
                          \cup ({"state"} \X GameStates)

TypeOK ==
  /\ gcNow \in Contents /\ gcNumber \in Numbers
  /\ net \subseteq Packet /\ parsing \subseteq Packet
  /\ gc \in [number : Numbers, says : Message, unstiff : BOOLEAN, recent : BOOLEAN]
  /\ age \in {NoPacket} \cup 0 .. MaxAge + MaxGap
  /\ gap \in 0 .. MaxGap
  /\ bb \in Board /\ was \in Board
  /\ emitted \in [says : Message, unstiff : BOOLEAN]
  /\ role \in Roles \cup {"PENALTYKICKER", "PENALTYGOALIE"}

Default == [state |-> "INITIAL", penalty |-> "NONE", shootout |-> FALSE, kickoff |-> FALSE]

Init ==
  /\ gcNow \in Contents /\ gcNumber \in Numbers
  /\ net = {} /\ parsing = {}
  /\ gc = [number |-> 0, says |-> Default, unstiff |-> FALSE, recent |-> FALSE]
  /\ age = NoPacket /\ gap = 0
  /\ bb = [unstiff |-> FALSE, penalty |-> "NONE", state |-> "INITIAL"]
  /\ was = bb
  /\ emitted = [says |-> Default, unstiff |-> FALSE]
  /\ role \in Roles

-----------------------------------------------------------------------------
(* Faults: what some of the definitions would be if the code were wrong,   *)
(* kept to show that the properties below notice.                          *)

StaleWithoutException(p) == gc.number > p.number

RememberOwnPenalty(p) == was.penalty

AsFlag(p) == IF p = "NONE" THEN p ELSE "TRUE"

-----------------------------------------------------------------------------
(* The game controller and the network.                                    *)

Decide(c) ==
  /\ gcNow' = c
  /\ UNCHANGED <<gcNumber, net, age, gap, robotVars>>

Older(packets) == {[p EXCEPT !.age = @ + 1] : p \in {q \in packets : q.age < MaxAge}}

Successor(n) == IF n = Wrap - 1 THEN 0 ELSE n + 1

\* recv() takes far less time than the GC waits between two packets.
Send ==
  /\ gap < MaxGap /\ parsing = {}
  /\ gcNumber' = Successor(gcNumber)
  /\ net' = Older(net) \cup {[number |-> gcNumber', age |-> 0, says |-> gcNow]}
  /\ age' = IF age = NoPacket THEN NoPacket ELSE age + 1
  /\ gap' = gap + 1
  /\ UNCHANGED <<gcNow, robotVars>>

-----------------------------------------------------------------------------
(* recv(), for packets of this team's game.                                *)

Stale(p) == gc.number > p.number /\ p.number > Always

Ignore(p) ==
  /\ p \in net /\ parsing = {} /\ Stale(p)
  /\ net' = net \ {p}
  /\ UNCHANGED <<gcNow, gcNumber, age, gap, robotVars>>

\* Without the mutex; the packet may come again.
Accept(p) ==
  /\ p \in net /\ parsing = {} /\ ~Stale(p)
  /\ net' \in {net, net \ {p}}
  /\ gc' = [gc EXCEPT !.recent = TRUE]
  /\ parsing' = {p} /\ gap' = 0
  /\ UNCHANGED <<gcNow, gcNumber, age, bb, was, emitted, role>>

ParsePacket(p) ==
  /\ p \in parsing
  /\ gc' = [gc EXCEPT !.number = p.number, !.says = p.says]
  /\ age' = p.age
  /\ parsing' = {}
  /\ UNCHANGED <<gcNow, gcNumber, net, gap, bb, was, emitted, role>>

\* 1000 ms since lastPacketTs.
Silence ==
  /\ gc.recent /\ gc' = [gc EXCEPT !.recent = FALSE]
  /\ UNCHANGED <<netVars, parsing, bb, was, emitted, role>>

-----------------------------------------------------------------------------
(* process(), in the module's thread.                                      *)

\* All three sensors on the head, for more than 1000 ms since headTouchStart.
HeadTouched(g) == [g EXCEPT !.unstiff = TRUE]

Penalized(g) == g.says.penalty # "NONE"

ChestPressed(g) ==
  CASE g.unstiff -> [g EXCEPT !.unstiff = FALSE]
    [] ~g.unstiff /\ g.recent -> g
    [] ~g.unstiff /\ ~g.recent /\ Penalized(g) ->
         [g EXCEPT !.says.penalty = "NONE", !.says.state = "PLAYING"]
    [] ~g.unstiff /\ ~g.recent /\ ~Penalized(g) -> [g EXCEPT !.says.penalty = "MANUAL"]

\* buttonHandler() for one body state.
ButtonHandler(touched, pressed) ==
  LET g == IF touched THEN HeadTouched(gc) ELSE gc
  IN  IF pressed THEN ChestPressed(g) ELSE g

\* What the board may be when it is read again: no lock keeps BembelDbug out.
Rewritten(b, writes) == {b} \cup {[b EXCEPT ![w[1]] = w[2]] : w \in writes}

\* lastPenalty: what was on the board, before the robot's own is written.
RememberPenalty(p) == p

\* The penalty itself goes to the board in the end, after the flag has.
OnBoard(p) == p

\* updateBB(): what differs from last time on one side wins over the other. The
\* board is read to compare, to take over (seen) and to remember (last).
UpdateBB(g, writes) ==
  \E seen \in Rewritten(bb, writes) :
    LET unstiff == IF g.unstiff # was.unstiff THEN g.unstiff ELSE seen.unstiff
        penalty == IF was.penalty # bb.penalty THEN seen.penalty ELSE g.says.penalty
        state   == IF bb.state # was.state THEN seen.state ELSE g.says.state
    IN  \E last \in Rewritten([seen EXCEPT !.unstiff = unstiff, !.state = state], writes) :
          /\ gc' = [g EXCEPT !.unstiff = unstiff,
                             !.says.penalty = penalty, !.says.state = state]
          /\ bb' = [last EXCEPT !.penalty = OnBoard(penalty)]
          /\ was' = [last EXCEPT !.unstiff = unstiff,
                                 !.penalty = RememberPenalty(last.penalty)]

\* The event is emitted if gc_data has changed; so is the role overridden.
Emit ==
  /\ emitted' = [says |-> gc'.says, unstiff |-> gc'.unstiff]
  /\ role' = IF ~gc'.says.shootout THEN role
             ELSE IF gc'.says.kickoff THEN "PENALTYKICKER" ELSE "PENALTYGOALIE"

Process(touched, pressed, writes) ==
  /\ UpdateBB(ButtonHandler(touched, pressed), writes)
  /\ Emit
  /\ UNCHANGED <<netVars, parsing>>

\* change_value of the DebugServer, in the thread of recv(), without the board's
\* lock: the variable may be set before, after or while process() runs.
Debug(w) ==
  /\ bb' = [bb EXCEPT ![w[1]] = w[2]]
  /\ UNCHANGED <<netVars, gc, parsing, was, emitted, role>>

-----------------------------------------------------------------------------

\* What goes on without anybody's decision.
Undisturbed ==
  \/ Send \/ Silence
  \/ \E p \in net : Ignore(p) \/ Accept(p)
  \/ \E p \in parsing : ParsePacket(p)
  \/ Process(FALSE, FALSE, {})

Next ==
  \/ Undisturbed
  \/ \E c \in Contents : Decide(c)
  \/ \E w \in Writable : Debug(w)
  \/ \E touched, pressed \in BOOLEAN : Process(touched, pressed, Writable)

Spec == Init /\ [][Next]_vars

(***************************************************************************)
(* The GC goes on sending, the threads of the network and of the module    *)
(* run, and a packet newer than what the robot knows gets through in the   *)
(* end. Strong fairness, as both wait while recv() is parsing.             *)
(***************************************************************************)
News(p) == p.age < age \/ age = NoPacket

Fairness ==
  /\ SF_vars(Send)
  /\ SF_vars(\E p \in net : News(p) /\ Accept(p))
  /\ WF_vars(\E p \in parsing : ParsePacket(p))
  /\ WF_vars(Process(FALSE, FALSE, {}))

FairSpec == Spec /\ Fairness

-----------------------------------------------------------------------------
(* Properties *)

(***************************************************************************)
(* The packet number wraps around, and recv() ignores a packet whose       *)
(* number is smaller than the last one. Yet, while no more than MaxAge     *)
(* packets are lost in a row or overtaken, it ignores none that is newer   *)
(* than the one it went by last: this is what the exception for the first  *)
(* numbers (gamecontrol.cpp:122) is for, and how far it carries.           *)
(***************************************************************************)
NewsIsAccepted == \A p \in net : News(p) => ~Stale(p)

\* The inductive invariant behind it (GamecontrolProofs): numbers tell ages.
NumberOf(a) == IF gcNumber >= a THEN gcNumber - a ELSE gcNumber - a + Wrap

Numbered ==
  /\ \A p \in net \cup parsing : p.number = NumberOf(p.age)
  /\ gc.number = IF age = NoPacket THEN 0 ELSE NumberOf(age)

\* Nothing is sent while recv() is parsing, so only then gap may be behind.
AgeBound == parsing = {} => age <= MaxAge + gap

IInv == TypeOK /\ Numbered /\ AgeBound

\* What the rest of the robot was told last is what the GC has decided.
Agrees == emitted.says = gcNow

(***************************************************************************)
(* When nobody presses a button, writes to the blackboard or decides       *)
(* anything any more, then whatever happened before the robot comes to     *)
(* agree with the GC for good: a late packet, a penalty given by hand, and *)
(* the blackboard, which returns the robot's own old values to it, are     *)
(* overcome.                                                               *)
(***************************************************************************)
ComesToAgree == (<>[][Undisturbed]_vars) => <>[]Agrees

=============================================================================

-------------------------- MODULE ConnectorProofs --------------------------
(***************************************************************************)
(* Safety of the backend's cycle, for any clicks, postures, batteries and  *)
(* faults, and any threshold, counter limit and length of the motion.      *)
(***************************************************************************)
EXTENDS Connector, TLAPS

LEMMA Bounds ==
  /\ SitSteps \in Nat /\ MaxCount \in Nat /\ Threshold \in Nat
  /\ MaxWrites \in Nat /\ MaxWrites # 0 /\ Ticks \in Nat /\ Ticks # 0
  BY ConnectorAssumption

LEMMA AtMostBounds ==
  ASSUME NEW n \in Nat, NEW max \in Nat
  PROVE  /\ AtMost(n, max) \in 0 .. max
         /\ AtMost(n, max) <= n
         /\ AtMost(n, max) = n \/ AtMost(n, max) = max
  BY DEF AtMost

-----------------------------------------------------------------------------
(* The invariant in two parts: what is counted, and what is decided.       *)

Counted == CountersOK /\ Remembered /\ Earned /\ Decaying /\ Hysteresis

Decided == ModesOK /\ SittingIsFresh /\ PoweredOff

LEMMA Parts == (IInv <=> Counted /\ Decided) /\ (IInv' <=> Counted' /\ Decided')
  BY DEF IInv, TypeOK, Counted, Decided

LEMMA InitInvariant == Init => IInv
<1>1. Init => CountersOK
  BY Bounds DEF Init, CountersOK
<1>2. Init => Remembered /\ Earned /\ Decaying /\ Hysteresis
  BY Bounds DEF Init, Remembered, Earned, CountsAgain, Decaying, Hysteresis
<1>3. Init => Decided
  BY DEF Init, Decided, ModesOK, Poses, SittingIsFresh, PoweredOff
<1> QED BY <1>1, <1>2, <1>3, Parts DEF Counted

-----------------------------------------------------------------------------
(* writeActuators(), whatever surrounds it.                                *)

LEMMA ActuatorTypes ==
  ASSUME CountersOK, NEW posture \in Postures, WriteActuators(posture)
  PROVE  /\ connCnt' \in 0 .. MaxCount
         /\ lastTick' \in 0 .. Ticks - 1 /\ tick' \in 0 .. Ticks - 1
         /\ time' \in 0 .. SitSteps
         /\ written' \in 0 .. MaxWrites
         /\ newTicks' \in 0 .. MaxCount /\ silence' \in 0 .. MaxCount + 2
<1>1. connCnt + 1 \in Nat /\ newTicks + 1 \in Nat /\ silence + 1 \in Nat
      /\ MaxCount \in Nat /\ MaxCount + 2 \in Nat
  BY Bounds DEF CountersOK
<1>2. connCnt' \in 0 .. MaxCount
  <2>1. AtMost(connCnt + 1, MaxCount) \in 0 .. MaxCount
    BY <1>1, AtMostBounds
  <2>2. (IF connCnt > 0 THEN connCnt - 1 ELSE 0) \in 0 .. MaxCount
    BY Bounds DEF CountersOK
  <2> QED BY <2>1, <2>2 DEF WriteActuators, CountTicks
<1>3. lastTick' \in 0 .. Ticks - 1 /\ tick' \in 0 .. Ticks - 1
  BY DEF CountersOK, WriteActuators, CountTicks
<1>4. time' \in 0 .. SitSteps
  BY Bounds DEF CountersOK, WriteActuators, Settle, SitStep
<1>5. written' \in 0 .. MaxWrites
  BY Bounds DEF WriteActuators, Observe
<1>6. newTicks' \in 0 .. MaxCount
  BY <1>1, AtMostBounds DEF CountersOK, WriteActuators, Observe
<1>7. silence' \in 0 .. MaxCount + 2
  <2>1. AtMost(silence + 1, MaxCount + 2) \in 0 .. MaxCount + 2
    BY <1>1, AtMostBounds
  <2>2. 0 \in 0 .. MaxCount + 2
    BY <1>1
  <2> QED BY <2>1, <2>2 DEF WriteActuators, Observe
<1> QED BY <1>2, <1>3, <1>4, <1>5, <1>6, <1>7

\* The robot is taken to sit only at the end of the motion, and not any more
\* when a frontend is connected or it is tilted.
LEMMA ActuatorSitting ==
  ASSUME Decided, CountersOK, NEW posture \in Postures, WriteActuators(posture)
  PROVE  /\ sitDone' => ~connected' /\ pose' \in {"ended", "dropped"}
         /\ sitDone' \in BOOLEAN /\ connected' \in BOOLEAN /\ pose' \in Poses
<1>1. connected' \in BOOLEAN
  <2>1. CASE connected
    BY <2>1, ActuatorTypes DEF WriteActuators, Judge
  <2>2. CASE ~connected
    BY <2>2, ActuatorTypes, Bounds DEF WriteActuators, Judge
  <2> QED BY <2>1, <2>2
<1>2. CASE ~connected' /\ UNCHANGED <<sitDone, pose>>
  BY <1>1, <1>2 DEF Decided, ModesOK, Poses, SittingIsFresh
<1>3. CASE sitDone' = FALSE /\ pose' = "free"
  BY <1>1, <1>3 DEF Poses
<1>4. CASE ~connected' /\ SitStep
  BY <1>1, <1>4 DEF Poses, SitStep
<1> QED BY <1>2, <1>3, <1>4 DEF WriteActuators, Settle

\* A counted message makes the one before lastTick, so what stays in the
\* shared memory is counted at most once more.
LEMMA ActuatorCounter ==
  ASSUME Counted, NEW posture \in Postures, WriteActuators(posture),
         UNCHANGED <<feTick, shmTick>>, delay' \in 0 .. 2
  PROVE  Counted'
<1> USE DEF WriteActuators
<1>1. CountersOK
  BY DEF Counted
<1>a. CountersOK'
  BY <1>1, ActuatorTypes DEF CountersOK
<1>b. /\ connCnt \in Nat /\ newTicks \in Nat /\ silence \in Nat /\ written \in Nat
      /\ connCnt' \in 0 .. MaxCount /\ newTicks' \in Nat /\ silence' \in Nat
  BY <1>1, <1>a, Bounds DEF CountersOK
<1>c. PICK c \in 0 .. MaxCount : c = connCnt'
  BY <1>b
<1>n. PICK n \in Nat : n = newTicks'
  BY <1>b
<1>s. PICK s \in Nat : s = silence'
  BY <1>b
<1>2. Hysteresis'
  <2>1. connected' => c # 0 \/ c > Threshold
    BY <1>c DEF Judge
  <2>2. connected' => c > 0
    BY <2>1, Bounds
  <2> QED BY <2>2, <1>c, Zenon DEF Hysteresis
<1>3. Remembered'
  BY DEF CountTicks, IsNew, Counted, Remembered, Observe
<1>4. /\ IsNew => c <= connCnt + 1
      /\ ~IsNew => c = IF connCnt > 0 THEN connCnt - 1 ELSE 0
  <2>1. connCnt + 1 \in Nat
    BY <1>b
  <2> QED BY <1>c, <2>1, Bounds, AtMostBounds DEF CountTicks
<1>5. CASE written = 0
  <2>1. ~CountsAgain'
    BY <1>5 DEF CountTicks, IsNew, Observe, CountsAgain, Counted, Remembered
  <2>2. n = IF c = 0 THEN 0 ELSE newTicks
    BY <1>5, <1>c, <1>n DEF Observe
  <2>3. IsNew <=> CountsAgain
    BY <1>5 DEF IsNew, CountsAgain
  <2>4. c <= 2 * n + 1
    <3>1. CASE IsNew
      <4>1. connCnt + 1 <= 2 * newTicks + 1
        BY <2>3, <3>1 DEF Earned, Counted
      <4> QED BY <1>b, <1>4, <2>2, <3>1, <4>1
    <3>2. CASE ~IsNew
      <4>1. connCnt <= 2 * newTicks + 1
        BY <1>b, <2>3, <3>2 DEF Earned, Counted
      <4> QED BY <1>b, <1>4, <2>2, <3>2, <4>1
    <3> QED BY <3>1, <3>2
  <2>5. Earned'
    <3>1. c + (IF CountsAgain' THEN 1 ELSE 0) <= 2 * n + 1
      BY <2>1, <2>4
    <3> QED BY <1>c, <1>n, <3>1, Zenon DEF Earned
  <2>6. s <= silence + 1
    <3>1. s = AtMost(silence + 1, MaxCount + 2)
      BY <1>5, <1>s DEF Observe
    <3>2. silence + 1 \in Nat /\ MaxCount + 2 \in Nat
      BY <1>b, Bounds
    <3> QED BY <3>1, <3>2, AtMostBounds
  <2>7. c = 0 \/ c + s <= MaxCount + 1
    <3>1. CASE IsNew
      <4>1. silence = 0
        BY <2>3, <3>1 DEF Decaying, Counted
      <4> QED BY <4>1, <2>6, Bounds
    <3>2. CASE ~IsNew
      <4>1. connCnt = 0 \/ connCnt + silence <= MaxCount + 1
        BY DEF Decaying, Counted
      <4> QED BY <1>b, <1>4, <2>6, <3>2, <4>1, Bounds
    <3> QED BY <3>1, <3>2
  <2> QED BY <1>a, <1>2, <1>3, <1>c, <1>s, <2>1, <2>5, <2>7 DEF Counted, Decaying
<1>6. CASE written # 0
  <2>1. s = 0
    BY <1>b, <1>s, <1>6 DEF Observe
  <2>2. c + s <= MaxCount + 1
    BY <2>1, Bounds
  <2>3. ~CountsAgain
    BY <1>6 DEF CountsAgain
  <2>4. connCnt <= 2 * newTicks + 1 /\ c <= connCnt + 1
    BY <1>b, <1>4, <2>3 DEF Earned, Counted
  <2>5. n = newTicks + 1 \/ n = MaxCount \/ c = 0
    <3>1. newTicks + 1 \in Nat
      BY <1>b
    <3> QED BY <1>b, <1>c, <1>n, <1>6, <3>1, AtMostBounds, Bounds DEF Observe
  <2>6. c + 1 <= 2 * n + 1
    BY <1>b, <2>4, <2>5, Bounds
  <2>7. c + (IF CountsAgain' THEN 1 ELSE 0) <= 2 * n + 1
    BY <2>6
  <2>8. Earned'
    BY <1>c, <1>n, <2>7, Zenon DEF Earned
  <2> QED BY <1>a, <1>2, <1>3, <1>c, <1>s, <2>1, <2>2, <2>8 DEF Counted, Decaying
<1> QED BY <1>5, <1>6

\* Steps that leave the backend's counters alone.
LEMMA CounterKept ==
  ASSUME Counted,
         UNCHANGED <<connected, connCnt, lastTick, tick, time, delay,
                     feTick, shmTick, written, newTicks, silence>>
  PROVE  Counted'
  BY DEF Counted, CountersOK, Remembered, Earned, CountsAgain, Decaying, Hysteresis

-----------------------------------------------------------------------------

LEMMA StepInvariant == IInv /\ [Next]_vars => IInv'
<1> SUFFICES ASSUME Counted, Decided, [Next]_vars PROVE Counted' /\ Decided'
  BY Parts
<1>0. CountersOK
  BY DEF Counted
<1>1. ASSUME NEW click \in Clicks, NEW posture \in Postures, NEW battery \in Batteries,
             NEW forks \in Forks, Cycle(click, posture, battery, forks)
      PROVE  Counted' /\ Decided'
  <2>1. WriteActuators(posture) /\ UNCHANGED <<feTick, shmTick>>
    BY <1>1 DEF Cycle
  <2>2. delay' \in 0 .. 2
    BY <1>0, <1>1 DEF Cycle, CountersOK, AtMost
  <2>3. Counted'
    BY <2>1, <2>2, ActuatorCounter
  <2>4. /\ sitDone' => ~connected' /\ pose' \in {"ended", "dropped"}
        /\ sitDone' \in BOOLEAN /\ connected' \in BOOLEAN /\ pose' \in Poses
    BY <1>0, <2>1, ActuatorSitting
  <2>5. shutdown' \in BOOLEAN /\ killing' \in BOOLEAN /\ orphaned' \in BOOLEAN
    BY <1>1, Zenon DEF Cycle, Decided, ModesOK
  <2>6. frontend' \in {"off", "forked", "starting", "running", "stopping"}
    BY <1>1 DEF Cycle, Decided, ModesOK
  <2>7. backend' = "running" \/ (backend' = "poweroff" /\ sitDone')
    BY <1>1 DEF Cycle
  <2> QED
    BY <2>3, <2>4, <2>5, <2>6, <2>7 DEF Decided, ModesOK, PoweredOff, SittingIsFresh
<1>2. ASSUME NEW posture \in Postures, ResetCameras(posture) \/ SendFails(posture)
      PROVE  Counted' /\ Decided'
  <2>1. /\ WriteActuators(posture) /\ backend' \in {"exited", "connecting"}
        /\ UNCHANGED <<shutdown, delay, orphaned, killing, feTick, shmTick>>
        /\ frontend' \in {"off", "forked", frontend}
    BY <1>2 DEF ResetCameras, SendFails, process
  <2>2. Counted'
    BY <1>0, <2>1, ActuatorCounter DEF CountersOK
  <2>3. /\ sitDone' => ~connected' /\ pose' \in {"ended", "dropped"}
        /\ sitDone' \in BOOLEAN /\ connected' \in BOOLEAN /\ pose' \in Poses
    BY <1>0, <2>1, ActuatorSitting
  <2> QED BY <2>1, <2>2, <2>3 DEF Decided, ModesOK, PoweredOff, SittingIsFresh
<1>3. CASE Connect
  <2>1. Counted'
    BY <1>3, CounterKept DEF Connect, process
  <2>2. Decided'
    BY <1>3 DEF Connect, process, Decided, ModesOK, Poses, SittingIsFresh, PoweredOff
  <2> QED BY <2>1, <2>2
<1>4. CASE ReceiveFails \/ Signal \/ Block
  <2>1. Counted'
    BY <1>4, CounterKept DEF ReceiveFails, Signal, Block, process, ghosts
  <2>2. Decided'
    BY <1>4 DEF ReceiveFails, Signal, Block, process, ghosts,
                Decided, ModesOK, SittingIsFresh, PoweredOff
  <2> QED BY <2>1, <2>2
<1>5. CASE Exec \/ Exit \/ Crash \/ Killall
  <2>1. Counted'
    BY <1>5, CounterKept DEF Exec, Exit, Crash, Killall, Frontend, code, ghosts
  <2>2. UNCHANGED <<code, pose>> /\ killing' \in {killing, FALSE}
        /\ orphaned' \in {orphaned, TRUE}
        /\ frontend' \in {frontend, "off", "starting", "stopping"}
    BY <1>5 DEF Exec, Exit, Crash, Killall, Frontend, ghosts
  <2>3. Decided'
    BY <2>2 DEF code, Decided, ModesOK, SittingIsFresh, PoweredOff
  <2> QED BY <2>1, <2>3
<1>6. CASE Up
  <2>1. Counted'
    BY <1>6, Bounds DEF Up, Frontend, code, ghosts,
       Counted, CountersOK, Remembered, Earned, CountsAgain, Decaying, Hysteresis
  <2>2. Decided'
    BY <1>6 DEF Up, Frontend, code, ghosts, Decided, ModesOK, SittingIsFresh, PoweredOff
  <2> QED BY <2>1, <2>2
<1>7. CASE Write
  <2>1. /\ UNCHANGED <<code, frontend, orphaned, killing, newTicks, silence, pose>>
        /\ written' = written + 1 /\ written < MaxWrites
        /\ shmTick' = feTick /\ feTick' = (feTick + 1) % Ticks
    BY <1>7 DEF Write
  <2>2. /\ feTick \in Nat /\ written' \in 0 .. MaxWrites /\ written' # 0
        /\ shmTick' \in 0 .. Ticks - 1
    BY <1>0, <2>1, Bounds DEF CountersOK
  <2>3. feTick' \in 0 .. Ticks - 1
    BY <2>1, <2>2, Bounds
  <2>4. CountersOK'
    BY <1>0, <2>1, <2>2, <2>3 DEF CountersOK, code
  <2>5. Remembered' /\ ~CountsAgain'
    BY <2>2 DEF Remembered, CountsAgain
  <2>6. Earned'
    <3>1. connCnt \in Nat /\ newTicks \in Nat /\ connCnt <= 2 * newTicks + 1
      BY <1>0, Bounds DEF Counted, Earned, CountersOK
    <3> QED BY <2>1, <2>5, <3>1 DEF Earned, code
  <2>7. Decaying' /\ Hysteresis'
    BY <2>1, <2>5 DEF Counted, Decaying, Hysteresis, code
  <2>8. Decided'
    BY <2>1 DEF code, Decided, ModesOK, SittingIsFresh, PoweredOff
  <2> QED BY <2>4, <2>5, <2>6, <2>7, <2>8 DEF Counted
<1>8. CASE UNCHANGED vars
  <2>1. Counted'
    BY <1>8, CounterKept DEF vars, code, process, ghosts
  <2>2. Decided'
    BY <1>8 DEF vars, code, process, ghosts, Decided, ModesOK, SittingIsFresh, PoweredOff
  <2> QED BY <2>1, <2>2
<1> QED
  BY <1>1, <1>2, <1>3, <1>4, <1>5, <1>6, <1>7, <1>8 DEF Next, RunCycle

LEMMA Invariant == Spec => []IInv
  BY InitInvariant, StepInvariant, PTL DEF Spec

-----------------------------------------------------------------------------

(***************************************************************************)
(* Counters, ticks, the static variables and the life of the frontend keep *)
(* their ranges.                                                           *)
(***************************************************************************)
THEOREM TypeCorrect == Spec => []TypeOK
<1>1. IInv => TypeOK
  BY DEF IInv
<1> QED BY <1>1, Invariant, PTL

(***************************************************************************)
(* sitDone never outlasts a frontend that is connected, a fall or a new    *)
(* connection to the firmware: what is asked before the power is cut is    *)
(* whether sit() has ended since.                                          *)
(***************************************************************************)
THEOREM SittingCorrect == Spec => []SittingIsFresh
<1>1. IInv => SittingIsFresh
  BY DEF IInv
<1> QED BY <1>1, Invariant, PTL

(***************************************************************************)
(* A frontend that has been silent for longer than the counter can hold is *)
(* not taken for connected.                                                *)
(***************************************************************************)
THEOREM SilenceCorrect == Spec => []SilenceDisconnects
<1>1. IInv => SilenceDisconnects
  <2> SUFFICES ASSUME IInv, connected PROVE silence <= MaxCount
    BY DEF SilenceDisconnects
  <2>1. connCnt \in Nat /\ silence \in Nat /\ connCnt > 0
    BY Bounds DEF IInv, TypeOK, CountersOK, Hysteresis
  <2>2. connCnt = 0 \/ connCnt + silence <= MaxCount + 1
    BY DEF IInv, Decaying
  <2> QED BY <2>1, <2>2, Bounds
<1> QED BY <1>1, Invariant, PTL

(***************************************************************************)
(* No connection without new messages: each adds two to the counter.       *)
(***************************************************************************)
THEOREM EarnedCorrect == Spec => ConnectionIsEarned
<1>1. ASSUME IInv, IInv', [Next]_vars, ~connected, connected'
      PROVE  2 * newTicks' + 1 > Threshold
  <2>1. UNCHANGED connected \/ \E posture \in Postures : WriteActuators(posture)
    BY <1>1 DEF Next, RunCycle, Cycle, ResetCameras, SendFails, Connect, ReceiveFails,
       Signal, Block, Exec, Up, Exit, Crash, Killall, Write, Frontend, vars, code
  <2>2. connCnt' > Threshold
    BY <1>1, <2>1 DEF WriteActuators, Judge
  <2>3. PICK c \in Nat, n \in Nat : c = connCnt' /\ n = newTicks'
    BY <1>1, Bounds DEF IInv, TypeOK, CountersOK
  <2>4. c + (IF CountsAgain' THEN 1 ELSE 0) <= 2 * n + 1
    BY <1>1, <2>3 DEF IInv, Earned
  <2>5. c > Threshold
    BY <2>2, <2>3
  <2>6. 2 * n + 1 > Threshold
    BY <2>4, <2>5, Bounds
  <2> QED BY <2>3, <2>6, Zenon
<1>2. IInv /\ IInv' /\ [Next]_vars =>
        [~connected /\ connected' => 2 * newTicks' + 1 > Threshold]_vars
  BY <1>1
<1> QED BY <1>2, Invariant, PTL DEF Spec, ConnectionIsEarned

=============================================================================

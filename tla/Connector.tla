----------------------------- MODULE Connector -----------------------------
(***************************************************************************)
(* lola::Connector (firmware/backend/lola/src/lola/connector.cpp), the     *)
(* backend's main loop: in each 12 ms cycle it receives the sensors from   *)
(* the firmware, takes the last actuator message of the frontend out of    *)
(* the shared memory, decides from its tick whether a frontend is          *)
(* connected, lets the robot sit down if none is, and answers. It starts   *)
(* and kills the frontend on clicks of the chest button, and cuts the      *)
(* power after a long one or with an empty battery.                        *)
(*                                                                         *)
(* A cycle is one step: all that other processes see of it is the message  *)
(* it reads and the processes it forks. The frontend is a process that     *)
(* starts, writes ticks, stalls, dies, or is killed. If it dies inside the *)
(* mutex of a triple buffer, the backend is blocked in its next cycle (see *)
(* the run TripleBuffer_crashes).                                          *)
(***************************************************************************)
EXTENDS Integers

CONSTANTS
  Clicks,     \* what checkBtnEvent() may return in this instance
  Postures,   \* "upright", "tilted": the torso as the IMU reports it
  Batteries,  \* "fine", "low": on battery with less than 10%
  Faults,     \* which of "socket", "signal", "fork" may happen
  SitSteps,   \* cycles the sitting motion takes (100 in sit.hpp)
  Threshold, MaxCount, \* 10 and 15 in writeActuators()
  Ticks,      \* tick counters are taken modulo this (2^32)
  MaxWrites   \* bound: messages of the frontend in one cycle

AllClicks == {"NONE", "SINGLE", "DOUBLE", "TRIPPLE", "LONG", "CAM_RESET"}

ASSUME ConnectorAssumption ==
  /\ Clicks \subseteq AllClicks
  /\ Postures \subseteq {"upright", "tilted"}
  /\ Batteries \subseteq {"fine", "low"}
  /\ Faults \subseteq {"socket", "signal", "fork"}
  /\ SitSteps \in Nat \ {0}
  /\ Threshold \in Nat \ {0} /\ MaxCount \in Nat /\ Threshold < MaxCount
  /\ Ticks \in Nat \ {0} /\ MaxWrites \in Nat \ {0}

VARIABLES
  backend,    \* "connecting", "running"; at its end "poweroff", "aborted" (the
              \* power is cut as well, after a signal), "stopped", "exited"; or
              \* "blocked" in the mutex of a dead frontend
  shutdown, sitDone,
  connected,  \* sensorMsg.connected
  connCnt,
  lastTick,   \* last_tick
  tick,       \* actuatorMsg.tick
  time,       \* the static variable of sit(), in steps of 10 ms
  delay,      \* the static variable c of run(), up to 2
  frontend,   \* life of the process: "off", "forked", "starting", "running", "stopping"
  orphaned,   \* a frontend has died inside a mutex of the shared memory
  killing,    \* a killall process is on its way
  feTick,     \* NaoThread::ticks
  shmTick,    \* tick of the last message consumed into the shared memory
  (* not in the code: *)
  written,    \* messages the frontend has written since the last cycle
  newTicks,   \* cycles that found a new message since connCnt was last 0
  silence,    \* cycles since the last one that found a new message
  pose        \* what has moved the joints

code == <<backend, shutdown, sitDone, connected, connCnt, lastTick, tick, time, delay>>
process == <<frontend, orphaned, killing, feTick, shmTick>>
ghosts == <<written, newTicks, silence, pose>>
vars == <<code, process, ghosts>>

Poses == {"free",    \* the frontend, the firmware or nobody
          "sinking", \* the sitting motion, in each call of sit() since it began
          "jumped",  \* the sitting motion, resumed from where it had not left
          "ended",   \* either of these, up to its end
          "dropped"} \* nothing: of the motion only the last call was left

ModesOK ==
  /\ backend \in {"connecting", "running", "poweroff", "aborted", "stopped", "exited",
                  "blocked"}
  /\ shutdown \in BOOLEAN /\ sitDone \in BOOLEAN /\ connected \in BOOLEAN
  /\ frontend \in {"off", "forked", "starting", "running", "stopping"}
  /\ orphaned \in BOOLEAN /\ killing \in BOOLEAN
  /\ pose \in Poses

CountersOK ==
  /\ connCnt \in 0 .. MaxCount
  /\ lastTick \in 0 .. Ticks - 1 /\ tick \in 0 .. Ticks - 1
  /\ time \in 0 .. SitSteps /\ delay \in 0 .. 2
  /\ feTick \in 0 .. Ticks - 1 /\ shmTick \in 0 .. Ticks - 1
  /\ written \in 0 .. MaxWrites
  /\ newTicks \in 0 .. MaxCount /\ silence \in 0 .. MaxCount + 2

TypeOK == ModesOK /\ CountersOK

AtMost(n, max) == IF n <= max THEN n ELSE max

Init ==
  /\ backend = "connecting"
  /\ shutdown = FALSE /\ sitDone = FALSE /\ connected = FALSE
  /\ connCnt = 0 /\ lastTick = Ticks - 1 /\ tick = 0
  /\ time = 0 /\ delay = 0
  /\ frontend = "off" /\ orphaned = FALSE /\ killing = FALSE /\ feTick = 0 /\ shmTick = 0
  /\ written = 0 /\ newTicks = 0 /\ silence = 0 /\ pose = "free"

-----------------------------------------------------------------------------
(* Faults: what some of the definitions would be if the code were wrong,   *)
(* kept to show that the properties below notice.                          *)

CountUncapped ==
  IF shmTick # lastTick
    THEN lastTick' = tick /\ tick' = shmTick /\ connCnt' = connCnt + 1
    ELSE UNCHANGED <<lastTick, tick>> /\ connCnt' = IF connCnt > 0 THEN connCnt - 1 ELSE 0

CountForgetting ==
  IF shmTick # lastTick
    THEN tick' = shmTick /\ connCnt' = AtMost(connCnt + 1, MaxCount) /\ UNCHANGED lastTick
    ELSE UNCHANGED <<lastTick, tick>> /\ connCnt' = IF connCnt > 0 THEN connCnt - 1 ELSE 0

CountUp ==
  IF shmTick # lastTick
    THEN lastTick' = tick /\ tick' = shmTick /\ connCnt' = AtMost(connCnt + 1, MaxCount)
    ELSE UNCHANGED <<lastTick, tick, connCnt>>

JudgeSticky == connected' = (connected \/ connCnt' > Threshold)

SitLooping ==
  /\ time' = IF time = SitSteps THEN 0 ELSE time + 1
  /\ sitDone' = FALSE /\ pose' = "sinking"

ConnectUnreset ==
  /\ backend = "connecting" /\ backend' = "running" /\ pose' = "free"
  /\ UNCHANGED <<shutdown, sitDone, connected, connCnt, lastTick, tick, time, delay,
                 process, written, newTicks, silence>>

-----------------------------------------------------------------------------
(* The actuators: writeActuators() and sit().                              *)

IsNew == shmTick # lastTick

\* The tick that is kept for the next cycle is the one of the message before.
CountTicks ==
  /\ IF IsNew THEN /\ lastTick' = tick /\ tick' = shmTick
                   /\ connCnt' = AtMost(connCnt + 1, MaxCount)
              ELSE /\ UNCHANGED <<lastTick, tick>>
                   /\ connCnt' = IF connCnt > 0 THEN connCnt - 1 ELSE 0

Judge == connected' = IF connected THEN connCnt' # 0 ELSE connCnt' > Threshold

\* Only the first call reads where the joints are. The last one tells them to stay
\* there and takes their stiffness away.
SitStep ==
  \/ /\ time = SitSteps
     /\ time' = 0 /\ sitDone' = TRUE
     /\ pose' = IF pose = "free" THEN "dropped" ELSE "ended"
  \/ /\ time < SitSteps
     /\ time' = time + 1 /\ sitDone' = FALSE
     /\ pose' = IF time = 0 \/ pose = "sinking" THEN "sinking" ELSE "jumped"

\* The frontend's actuators are passed on; or the robot sits, or goes limp.
Settle(posture) ==
  \/ /\ connected' \/ posture = "tilted"
     /\ sitDone' = FALSE /\ pose' = "free" /\ UNCHANGED time
  \/ /\ ~connected' /\ posture = "upright"
     /\ IF sitDone THEN UNCHANGED <<sitDone, time, pose>> ELSE SitStep

Observe ==
  /\ written' = 0
  /\ silence' = IF written > 0 THEN 0 ELSE AtMost(silence + 1, MaxCount + 2)
  /\ newTicks' = IF connCnt' = 0 THEN 0
                 ELSE IF written > 0 THEN AtMost(newTicks + 1, MaxCount)
                 ELSE newTicks

\* The lock that comes before has no timeout.
WriteActuators(posture) ==
  ~orphaned /\ CountTicks /\ Judge /\ Settle(posture) /\ Observe

-----------------------------------------------------------------------------
(* The rest of the cycle: run(), buttonHandler(), toggleFrontend().        *)

\* The last cycle but one before the power is cut ends early.
Cycle(click, posture, battery, forks) ==
  LET starts    == click \in {"SINGLE", "TRIPPLE"} /\ ~connected'
      requested == shutdown \/ click = "LONG"
      off       == requested /\ sitDone'
      drained   == battery = "low" /\ ~(off /\ delay' < 2)
      stops     == \/ click = "TRIPPLE" /\ connected'
                   \/ click = "LONG" /\ ~shutdown
                   \/ drained
  IN /\ backend = "running" /\ click # "CAM_RESET"
     /\ WriteActuators(posture)
     /\ delay' = IF off THEN AtMost(delay + 1, 2) ELSE delay
     /\ shutdown' = (requested \/ drained)
     /\ backend' = IF off /\ delay' = 2 THEN "poweroff" ELSE "running"
     /\ frontend' = IF starts /\ forks /\ frontend = "off" THEN "forked" ELSE frontend
     /\ killing' = (killing \/ (stops /\ forks))
     /\ UNCHANGED <<orphaned, feTick, shmTick>>

\* Nobody answers for a child that has not become jsfrontend yet.
ResetCameras(posture) ==
  /\ backend = "running" /\ "CAM_RESET" \in Clicks
  /\ WriteActuators(posture)
  /\ backend' = "exited"
  /\ frontend' \in IF frontend = "forked" THEN {"forked", "off"} ELSE {"off"}
  /\ UNCHANGED <<shutdown, delay, orphaned, killing, feTick, shmTick>>

\* readSensors() and writeActuators() lock the mutexes of the triple buffers.
Block ==
  /\ orphaned /\ backend = "running" /\ backend' = "blocked"
  /\ UNCHANGED <<shutdown, sitDone, connected, connCnt, lastTick, tick, time,
                 delay, process, ghosts>>

-----------------------------------------------------------------------------
(* The socket and signals.                                                 *)

Connect ==
  /\ backend = "connecting" /\ backend' = "running"
  /\ sitDone' = FALSE /\ pose' = "free"
  /\ UNCHANGED <<shutdown, connected, connCnt, lastTick, tick, time, delay,
                 process, written, newTicks, silence>>

ReceiveFails ==
  /\ "socket" \in Faults
  /\ backend = "running" /\ backend' = "connecting"
  /\ UNCHANGED <<shutdown, sitDone, connected, connCnt, lastTick, tick, time,
                 delay, process, ghosts>>

SendFails(posture) ==
  /\ "socket" \in Faults
  /\ backend = "running" /\ backend' = "connecting"
  /\ WriteActuators(posture)
  /\ UNCHANGED <<shutdown, delay, process>>

\* run() returns whether main() is to cut the power.
Signal ==
  /\ "signal" \in Faults
  /\ backend \in {"connecting", "running"}
  /\ backend' = IF shutdown THEN "aborted" ELSE "stopped"
  /\ UNCHANGED <<shutdown, sitDone, connected, connCnt, lastTick, tick, time,
                 delay, process, ghosts>>

-----------------------------------------------------------------------------
(* The frontend. It works on while the backend reconnects or has ended.    *)

Frontend(from, to) ==
  frontend \in from /\ frontend' = to /\ UNCHANGED <<code, shmTick, ghosts>>

Exec == Frontend({"forked"}, "starting") /\ UNCHANGED <<orphaned, killing, feTick>>

Up ==
  Frontend({"starting"}, "running") /\ feTick' = 0 /\ UNCHANGED <<orphaned, killing>>

Exit == Frontend({"stopping"}, "off") /\ UNCHANGED <<orphaned, killing, feTick>>

\* Its mutexes live on in the shared memory.
Crash ==
  /\ Frontend({"forked", "starting", "running", "stopping"}, "off")
  /\ \/ UNCHANGED orphaned
     \/ frontend \in {"running", "stopping"} /\ orphaned' = TRUE
  /\ UNCHANGED <<killing, feTick>>

\* A child that has not executed jsfrontend yet has another name.
Killall ==
  /\ killing /\ killing' = FALSE
  /\ frontend' = IF frontend \in {"starting", "running"} THEN "stopping" ELSE frontend
  /\ UNCHANGED <<code, orphaned, feTick, shmTick, ghosts>>

Write ==
  /\ frontend \in {"running", "stopping"} /\ ~orphaned
  /\ written < MaxWrites /\ written' = written + 1
  /\ shmTick' = feTick /\ feTick' = (feTick + 1) % Ticks
  /\ UNCHANGED <<code, frontend, orphaned, killing, newTicks, silence, pose>>

-----------------------------------------------------------------------------

Forks == IF "fork" \in Faults THEN BOOLEAN ELSE {TRUE}

RunCycle ==
  \/ \E click \in Clicks, posture \in Postures, battery \in Batteries, forks \in Forks :
       Cycle(click, posture, battery, forks)
  \/ \E posture \in Postures : ResetCameras(posture)

Next ==
  \/ RunCycle
  \/ Connect \/ ReceiveFails \/ Signal \/ Block
  \/ \E posture \in Postures : SendFails(posture)
  \/ Exec \/ Up \/ Exit \/ Crash \/ Killall \/ Write

Spec == Init /\ [][Next]_vars

\* A cycle of a robot that stands or sits.
UprightCycle ==
  \E click \in Clicks, battery \in Batteries, forks \in Forks :
    Cycle(click, "upright", battery, forks)

(***************************************************************************)
(* The firmware sends sensors every 12 ms, connect() tries until the       *)
(* socket is there, and a robot that has fallen is put back on its feet:   *)
(* of the cycles, some are always to come in which it is upright. killall  *)
(* runs and a frontend that was told to stop ends (Kernel::stop has a      *)
(* deadline, see Kernel). No click, crash or message of the frontend has   *)
(* to happen. That a cycle ends is not assumed of a backend whose mutex is *)
(* orphaned: it has none then.                                             *)
(***************************************************************************)
Fairness ==
  WF_vars(Connect) /\ SF_vars(UprightCycle) /\ WF_vars(Killall) /\ WF_vars(Exit)

FairSpec == Spec /\ Fairness

-----------------------------------------------------------------------------
(* Safety *)

(***************************************************************************)
(* The backend believes that the robot sits, which is what it asks before  *)
(* it cuts the power, only if nothing has come in between since sit() last *)
(* came to its end: no frontend that is connected, no fall and no new      *)
(* connection to the firmware. Whether sit() has made the robot sit is     *)
(* another matter (SitsFromTheStart). (A signal that ends the backend      *)
(* during a requested shutdown has the power cut in any pose: that is      *)
(* "aborted".)                                                             *)
(***************************************************************************)
SittingIsFresh ==
  sitDone \/ backend = "poweroff" => ~connected /\ pose \in {"ended", "dropped"}

(***************************************************************************)
(* A frontend that has been silent for more than MaxCount cycles is not    *)
(* taken for connected: its last actuators are not sent for ever.          *)
(***************************************************************************)
SilenceDisconnects == connected => silence <= MaxCount

(***************************************************************************)
(* Old messages in the shared memory do not make a frontend: connecting    *)
(* takes new messages in more than Threshold / 2 - 1 cycles (each message  *)
(* is counted twice, and one is counted when the backend starts).          *)
(***************************************************************************)
ConnectionIsEarned ==
  [][~connected /\ connected' => 2 * newTicks' + 1 > Threshold]_vars

(***************************************************************************)
(* What sit() carries on is a motion that nothing has interrupted. Else it *)
(* moves the joints abruptly, which connect() resets sitDone to avoid; or, *)
(* with its last call only, it leaves the robot where it is, and the power *)
(* may be cut though the "bot is sitting" is not true.                     *)
(***************************************************************************)
SitsFromTheStart == pose \notin {"jumped", "dropped"}

-----------------------------------------------------------------------------
(* The inductive invariant behind them (ConnectorProofs).                  *)

\* After a cycle the message in the shared memory is the last or the last but
\* one that was counted; it is counted once more if it is not lastTick.
CountsAgain == written = 0 /\ shmTick # lastTick

Remembered == written = 0 => shmTick \in {tick, lastTick}

\* Each cycle that finds a new message adds two to the counter at most.
Earned == connCnt + (IF CountsAgain THEN 1 ELSE 0) <= 2 * newTicks + 1

Decaying ==
  /\ CountsAgain => silence = 0
  /\ connCnt = 0 \/ connCnt + silence <= MaxCount + 1

Hysteresis == connected => connCnt > 0

PoweredOff == backend = "poweroff" => sitDone

IInv ==
  /\ TypeOK /\ SittingIsFresh /\ PoweredOff
  /\ Remembered /\ Earned /\ Decaying /\ Hysteresis

-----------------------------------------------------------------------------
(* Liveness *)

(***************************************************************************)
(* The death of a frontend is noticed, in whatever state the counter and   *)
(* the ticks are, and though its last message stays in the shared memory.  *)
(* One that died inside a mutex is not: it takes the backend with it.      *)
(***************************************************************************)
LostFrontendNoticed ==
  (connected /\ frontend = "off" /\ ~orphaned) ~>
    (~connected \/ frontend # "off" \/ backend # "running")

Working == backend \in {"connecting", "running", "blocked"}

Dying == frontend \in {"off", "stopping"} \/ (killing /\ frontend # "forked")

(***************************************************************************)
(* A shutdown that has been requested completes, however often the robot   *)
(* falls, unless errors of the socket go on for ever: the frontend, in any *)
(* state but the moment between fork and exec, dies, its loss is noticed,  *)
(* sit() comes to its end, the delay runs out; or the user starts a new    *)
(* frontend, or one dies inside a mutex.                                   *)
(***************************************************************************)
ShutdownCompletes ==
  <>[](backend # "connecting") =>
    ((Working /\ shutdown /\ Dying) ~> (~Working \/ frontend = "forked" \/ orphaned))

=============================================================================

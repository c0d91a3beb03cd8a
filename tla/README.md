# Verification of BembelSoccer

BembelSoccer is the software of the RoboCup SPL team Bembelbots: a *backend*
that talks to the robot's firmware (LoLa), and a *frontend* of some twenty
modules, each in a thread of its own, that sees, localises, decides and walks.
This directory holds TLA+ models of the parts of it whose correctness depends
on the order in which things happen, model-checked with TLC, and proofs of the
central properties checked with TLAPS. Paths below are relative to `src/soccer`.

## 1. Inventory

### Processes and threads

| process | threads | shared with |
|---|---|---|
| backend (`firmware/backend/lola`) | one loop at LoLa's 12 ms cycle, a logger thread | frontend through shared memory `bbshm`, a monitor through `MonitorShm` |
| frontend (`frontend/src/main.cpp`) | main, one thread per runtime module, the network's io_service thread, logger thread, a recorder thread for the whistle, two futures per camera image | backend, team mates and game controller (UDP), one debug client (TCP) |

### Components

For each: the state it keeps, its operations, what is hard about it, what makes
it correct. "M" marks what is modelled so far, "P" what is planned, "–" what is
left out; `PROJECT.json` says for each how far, or why not.

| component | state and operations | hard behaviour | correct if | |
|---|---|---|---|---|
| Runtime kernel (`framework/rt/kernel.cpp`) | `state`, `numRunning`, condition variable per module; `load`, `compile` (`link`, `resolve`), `setup`, `start`, `stop`, `moduleLoop`, `fetch`, `dump` | notifications without the lock, a counter maintained by the threads themselves, a stop with a deadline, a plain enum read by all threads | a module runs iff its required messages are there; none starves; no circular wait; stop finds no thread in its loop | M |
| Dependency search (`framework/rt/util/depth_first_search.cpp`) | visited/finished marks and the recursion | the search gives up a whole path at the first cycle | it reports something iff the graph is circular | M |
| Rest of `resolve`, `Metadata`, `Linker` (`meta.cpp`, `linker.h`) | endpoints, channels, `requiredBy`; run once before the threads exist | – | one producer per message, one handler per command; `requiredBy` is the inverse of the required inputs | P |
| Message channels (`framework/rt/channels/message.h`) | a one-element queue per listener, an unbounded one per snooping listener; `write`, `fetch`, `maybeFetch`, `snoopFetch` | listeners are locked one after the other, `hasNewData` reads without the lock | listeners see the newest message or a squash of those they missed; a snoop loses nothing | M in part (the kernel model has the queues' full/empty) |
| Command and task channels (`channels/command.h`, `endpoints/task.h`) | pending commands, futures | commands arrive before `update` or after, completion tested with `unique()` | no command lost or run twice | P |
| Triple buffer (`framework/ipc/tripple_buffer.h`) | three buffers, three indices, a flag and a mutex in shared memory; `consume`, `tryProduce`, `timedProduce`, `waitForNewData` | two processes, data touched outside the mutex, a process that dies, timeouts racing messages | a latest-value register without torn copies | M |
| Lock-free triple buffer, `BlobChannel`, `RingBuffer`, `ThreadSafeQueue` | – | – | not used by the program | – |
| `MPSCStorage` (`framework/datastructures/mpsc_storage.h`) | a vector behind a mutex, part of a debug image | hands out references to its elements | – | – |
| Backend connector (`firmware/backend/lola/src/lola/connector.cpp`) | connection counter, ticks, `shutdown`, `sitDone`, gyro calibration, button state; one cycle: `readSensors`, `writeActuators`, `buttonHandler`, battery | frontend that dies, restarts or stalls; poweroff only when sitting | `sit()` has ended, and nothing undone it, before power is cut; it believes in a frontend iff one writes | M |
| NaoThread (`modules/nao/modules/naothread.cpp`) | `ticks`, `missedFrames`; reads sensors with a timeout, runs the motion, writes actuators | old sensor data used again after a timeout | – | M in part (its use of the triple buffer) |
| ImageThread and cameras (`imagethread.cpp`, `modules/nao/camera`, `framework/image`) | a ring of 150 images per camera with an index and flags per image; body states of the last frames | two threads kept apart by flags that are loaded and stored in two steps; three resets and then an exception | Vision's image is not overwritten while it looks, never goes back, and the ring does not run out | M (the ring) |
| BodyControl (`modules/motion/bodycontrol/bodycontrol.cpp`, `submodules/stiffness`) | active and next motion, `motion_stable`, a walk request; the states of Stiffness; `step`, `doMotion` and the handlers of other commands | requests while a motion is unstable, motions that end by themselves, falls | one motion at a time, changed only when stable, no request left waiting | M |
| Order of submodules (`internals/topological_sort.hpp`) | niceness and dependencies, once at the start | – | dependencies come first | P |
| Walking, kinematics, AHRS, other submodules | numeric | – | – | – |
| Gamecontrol (`modules/gamecontrol`) | last packet and its number, the state on the blackboard, what both were before, buttons | packets lost, doubled or reordered, a number that wraps around; network thread against module thread; a debugger that writes without a lock | no news is taken for old; the robot comes to agree with the game controller | M |
| Gamestate (`modules/gamestate/gamestate.cpp`) | real and official state, gesture and its time, fouls | stale gestures, a team mate's message against one's own sight, 15 s delay, flags nobody initializes | READY in STANDBY only after a gesture of this STANDBY, and then for the whole team | M |
| RefereeGesture (`modules/refereegesture`) | the last image | the result comes some time after the image | – | M in part (within Standby) |
| LogEvents | file writing | – | – | – |
| TeamComm (`modules/teamcomm`) | message budget, last broadcast, gesture waiting to be sent | net thread against module thread, lost messages | gesture not forgotten | M in part (within Standby) |
| Whistle (`modules/whistle`) | recorder running or not | commands in states they were not meant for | – | P |
| Behavior (`modules/behavior`), WorldModel, Localization, Vision (but for its images, see ImageThread) | state machines in cabsl macros; numeric filters | – | – | – |
| Logger (`framework/logger`) | a queue, a worker, flags `stop` and `finished` | flush while others log, two consumers in the destructor, threads that outlive it | what was logged before a flush is written, once and in order | M |
| Network (`framework/network`) | TCP sessions with write queues, one UDP endpoint | io thread against module threads without locks | – | P |
| DebugServer (`src/network/debugserver.cpp`) | the one client, keep-alive | client deleted by one thread and used by the other | one client at a time | M in part (its writes to Gamecontrol's blackboard) |
| ThreadManager, SimpleThreadPool (`framework/thread`) | threads and their ready flag | a thread that is slow to become ready | – | M in part (within the kernel) |
| System, main, config, LogFile (`frontend/src`) | `is_running`, a lock file | signals | – | M in part (the main thread of the kernel model) |
| Blackboards, representations, math, image, joints, serialize, bembelDbug (Python GUI), containers, vendored code (`external`, eigen) | data, pure functions, tools | – | – | – |

### Interactions

* Modules meet in message channels (write/fetch), command channels (enqueue in
  the sender's thread, executed in the handler's `update`) and shared contexts.
  The kernel derives the wait graph from the *required* inputs. On the robot
  these are Vision to Pose, Vision to WorldModel, Pose to WorldModel and
  WorldModel to BehaviorControl; all other modules run at their own pace.
* Backend and frontend meet in two triple buffers, one in each direction.
* The network's io thread calls `recv` handlers of Gamecontrol, TeamComm and
  DebugServer, which share plain members with their module threads.
* Signals set `System::is_running`; main polls it and calls `Kernel::stop`.

The hazards these bring, each at its line, are listed in `PROJECT.json` with the
properties that cover them, or the reason why none does yet.

## 2. Plan

In this order; 1 to 9 are done.

1. `Kernel` – scheduling of the module threads. Proved.
2. `TripleBuffer` implements `LatestValue` – backend and frontend. Proved.
3. `DepthFirstSearch` – justifies the graphs `Kernel` admits. Proved.
4. `Connector` – the backend's cycle with button, sit and shutdown, against a
   frontend that starts, ticks, stalls and dies. Safety proved.
5. `BodyControl` – arbitration of motions under commands, falls and stiffness.
   Safety proved.
6. `Gamecontrol` – lossy, reordered packets with a number that wraps, buttons and
   the debugger. Safety proved.
7. `Standby` – Gamestate, RefereeGesture and TeamComm of a team: one robot sees the
   gesture, the others are told. Safety proved.
8. `XLogger` implements `Log` – flush, stop and destruction. Proved.
9. `ImageBuffer` – the ring between ImageThread and Vision. Safety proved.
10. `DebugServer` with `TCPSession` – the session's life between two threads.
11. `MessageChannel` (squash, several writers), command and task channels, the
    order of BodyControl's submodules, Whistle.

One run per module asks for safety and liveness on the same instance; a second one
is there where the code contradicts its own comments.

## 3. Modules

### Kernel (`framework/rt/kernel.cpp`, `meta.cpp`, `channels/message.h`)

`ModuleGraph.tla` has the modules, the graphs and `Acyclic`, which the search below shares;
`Kernel.tla`; `KernelMC.tla` with the graphs; `KernelProofs.tla`.

| model | code |
|---|---|
| `state`, `numRunning` | `Kernel::state`, `Kernel::numRunning` |
| `requires` | required inputs and their inverse `requiredBy` after `link()` |
| `full` | which listeners' one-element queues hold a message |
| `pc[m]`, `todo[m]` | where the thread in `moduleLoop` is; which neighbours the loop of `fetch`, `write` or `dump` has left |
| `main`, `mainTodo`, `timedOut` | `Application::run` with `compile`, `start`, `stop` |
| `Compile`, `Start`, `Create`, `Stop`, `NotifyStop`, `AllStopped`, `StopTimeout`, `Finish` | main's steps |
| `NotifyReady`, `Enter` | start of a thread: `notifyReady()` and then `numRunning.fetch_add` |
| `Fetch`, `Test`, `Park`, `Guard`, `Consume`, `Check` | `fetch()` and the test that leaves the loop |
| `Run`, `Publish`, `Dump`, `Notify` | `process()`, `write()` to one listener after the other, `dump()` |
| `SpuriousWake` | condition variables may wake up without a reason |

Choices. `mutexes[m]` is taken by m's own thread only, hence it orders nothing and
is left out; its absence from `dump()` and `stop()` is what makes the test of the
predicate and the sleep two steps. The unlocked `hasNewData()` reads are taken as
atomic per queue. `write()` and `dump()` loop in an arbitrary order over
neighbours, and threads are created in an arbitrary order. Messages are only
full or empty: what they hold does not influence the scheduling. A lost notification of
`moduleStopped` only delays `stop()` until its own deadline and is not a step.
Not modelled: `step()` (sequential mode, used nowhere), an exception out of
`process()` (it ends the process), the one-second limit of `ThreadManager::create`.

| run | shows | bounds |
|---|---|---|
| `Kernel_threads` | types; a thread let through finds its messages; no circular wait; a stop before the deadline is clean; every module runs again and again although notifications are lost; a stop that finds nobody in the gap reaches all threads | vision, pose, worldmodel; their graph, one with a module that stands alone, and circles of one, two and three modules, which `resolve()` has to refuse; the 2 s may run out; 231 000 states |

Three modules have everything that can happen between neighbours: a producer with
two consumers, a consumer with two producers, a chain and each circle. The proofs
cover all graphs.

Lost notifications. The comment on `fetch()` (`kernel.h:103-104`) says it blocks
until all data is available. `dump()` notifies without the waiter's mutex, so the
notification may fall between predicate and sleep, and the thread sleeps on with
its data there until a producer's *next* message. `EveryModuleRuns` shows that
this is a delay and no starvation as long as producers keep running. There is no
next message after `stop()`: its notification, lost in the same gap, is what its
deadline is needed for, and `StopReachesAll` is stated for stops that find nobody
in the gap.

Noticed. `jsassert(ready())` (`kernel.cpp:301`) can fail after `stop()`: a thread announces
itself to its creator *before* it increments `numRunning`. `stop()` may count 0, set
`FINISHED`, and the thread, which only breaks at `SHUTDOWN`, fetches without waiting. The gap
is short and only there at the start; threads that outlive the 2 s meet the same. `CleanStop`
permits such a thread, as it is not in its loop.

Fairness: every runnable thread gets the processor and `process()` returns, so
steps of threads and of main are weakly fair. Neither the signal that makes main
stop, nor spurious wake-ups, nor the end of the 2 s are, so nothing is shown by
help of the deadline. Deadlock is not checked, as everything ends after `stop()`.

### TripleBuffer and LatestValue (`framework/ipc/tripple_buffer.h`)

`LatestValue.tla` is the abstract register: `Publish` sets the latest value,
`Obtain` copies it to the reader. `TripleBuffer.tla` has the three buffers, each in
two halves so that an overlapping read would be visible, the indices, the flag, the
owner of the mutex and a label per process. `consume()` is `ReadBack`,
`LockWriter`, `SwapBack`, `SwapMiddle`, `Notify`; the three reader calls are `Call`,
`LockReader` and then `TakeFront`, `GiveMiddle`, or `Sleep`, `Timeout`, or `GiveUp`;
`CopyHead`, `CopyTail` are `producedData()` with `get()` of the flatbuffer. The
ghost variable `published` records what went through `consume()`. Each process may
crash at any step and come back; shared memory and the mutex stay.

| run | shows | bounds |
|---|---|---|
| `TripleBuffer_crashes` | types, no torn copy, a false result hides nothing, the buffer implements `LatestValue`; a timed call returns unless somebody died holding the mutex, a message that is there is taken | 2 messages, crashes of either process at any step, also several; messages recur, so nothing ends by running out; 572 000 states |
| `TripleBuffer_crash` | *violation*: a writer that dies holding the mutex blocks `timedProduce()` for ever | 2 messages, only the writer crashes |

Two messages are enough for each of the three buffers to hold another value than
the one wanted; the proofs cover any set.

Fairness: a process inside an operation carries on (weak); the mutex is held for a
few instructions in a 12 ms cycle, so who tries to lock it gets it (strong); the
deadline of a wait is absolute, so spurious wake-ups cannot put it off (strong).

Assumed: one writer and one reader. `NaoInfoReader` reads the sensors too, but in
`main()` before NaoThread exists. A backend that restarts creates new shared
memory and leaves the frontend with the old one; that is not modelled.

### DepthFirstSearch (`framework/rt/util/depth_first_search.cpp`)

`DepthFirstSearch.tla`; `DepthFirstSearchMC.tla`; proofs in `KernelProofs.tla`. The
recursion of `visit()` as an explicit `path` with a set of `children` per module. Its
result is compared with `Acyclic`, the condition `Kernel.tla` uses in `Compile`:
every non-empty set of modules has one that requires nothing of the set. That is
exactly what excludes a set of threads all waiting for one another. What it reports is
compared with `Circle`: the pair is an edge, and there is a path from its end back to its
beginning. `Reaches` states the path without recursion: whatever contains the one module and,
with each module, those that require it, contains the other.

`DepthFirstSearch_graphs`: `NothingOverlooked` and `OnlyRealCycles` on all graphs
over 4 modules without self-loops, in all orders of roots and children, with symmetry. CHECK_DEADLOCK is off as the search ends.
Termination is not stated: each module is entered at most once by construction.

### Connector (`firmware/backend/lola/src/lola/connector.cpp`, `sit.hpp`)

`Connector.tla`; `ConnectorMC.tla`; `ConnectorProofs.tla`. A cycle of `run()` is one
step, as all that other processes see of it is the message it reads and the
processes it forks. The lock of each triple buffer has no timeout: a frontend that dies
inside one (`orphaned`) blocks the backend in its next cycle, which is the finding of
`TripleBuffer_crash` seen from here. From then on no cycle ends.

| model | code |
|---|---|
| `shutdown`, `sitDone`, `connected`, `connCnt`, `lastTick`, `tick` | members of `Connector`; `connected` in `sensorMsg`, `tick` in `actuatorMsg` |
| `time`, `delay` | the static variables of `sit()` and in `run()` |
| `backend` | whether `run()` is in `connect()`, in its loop, hangs, or how it ended |
| `frontend`, `orphaned`, `killing`, `feTick`, `shmTick` | the frontend's process, whether one has died inside a mutex, a `killall` on its way, `NaoThread::ticks`, the tick in the shared memory |
| `Cycle` | a whole iteration: `WriteActuators` (`CountTicks`, `Judge`, `Settle` with `SitStep`), `buttonHandler`, shutdown with its delay, battery |
| `ResetCameras` | the click that kills all processes and exits |
| `Connect`, `ReceiveFails`, `SendFails` | the socket, with the early `continue` of each |
| `Block` | the lock in `sensors.consume()` (422) or `timedProduce()` (472) that never returns |
| `Signal` | SIGINT or SIGTERM, and what `run()` then returns to `main()` |
| `Exec`, `Up`, `Write`, `Exit`, `Crash`, `Killall` | the frontend from `fork()` on, as the backend can notice it |
| `written`, `newTicks`, `silence`, `pose` | not in the code: what the properties compare with |

`pose` says what has moved the joints, as far as the properties tell it apart. `sit()` reads
where the joints are, and sets their stiffness, in its first call only; each later one takes
the next point of the trajectory, and the last one overwrites it with the joints' present
positions and takes the stiffness away. So `sitDone` only says that `sit()` has come to an end
(`ended`); if a motion is interrupted before its last call, this call alone is left for the next
one, and the joints go limp where they are (`dropped`). What is left out of `pose` are the
messages of a frontend that is not connected yet, which also overwrite the actuators (486).

Choices. Which clicks, postures and battery states come is open. The shared memory
is the last tick: `TripleBuffer` shows that it is a latest-value register. A
double click does what none does and is left out of the runs. The calibration of
the gyroscope, LEDs, speech and the msgpack format do not influence any of this.

| run | shows | bounds |
|---|---|---|
| `Connector_life` | types; `sitDone`, which is asked before the power is cut, never outlasts a connected frontend, a fall or a new connection to the firmware; a silent frontend dropped; none imagined; the death of a frontend is noticed; a requested shutdown completes | threshold and limit 3 and 4 instead of 10 and 15, ticks modulo 3, a sitting motion of 3 calls, one message per cycle; socket errors, signals, crashes (also inside a mutex), falls, all clicks, an empty battery; 527 000 states |
| `Connector_sit` | *violation*: a sitting motion goes on in the middle of the old trajectory | socket errors only |

The bounds keep what matters: a limit above the threshold, more ticks than the
counter needs to connect, a motion that can be interrupted in the middle. For
safety the proofs cover the real numbers. Ticks wrap around in the runs as
well, and a wrapped tick that equals the last one is just one that is not new.

Fairness: the firmware sends sensors each 12 ms and the robot is on its feet again and
again (`UprightCycle`, strong, as falls and socket errors come between), the socket is
there in the end (`Connect`), `killall` runs, and a frontend that was told to end does
(`Kernel::stop` has a deadline). No click, message, crash or signal has to come. Nothing
is assumed of a backend whose mutex is orphaned: `UprightCycle` is not enabled there, and
`LostFrontendNoticed` and `ShutdownCompletes` leave this case out by name, as neither holds in
it. `ShutdownCompletes` supposes that socket errors cease. The backend ends, so deadlock is not checked.

Finding. `connect()` resets `sitDone` to "avoid abruptly changing joint positions",
but not the static `time` of `sit()`: an interrupted motion is resumed with its
old start and without its stiffness (`SitsFromTheStart`). If only the last call is left, the
robot does not sit down at all, `sitDone` is true, and a requested shutdown cuts the power,
which line 217 calls safe as the "bot is sitting". So what holds of the code, and is proved, is
less than that comment: `sit()` has come to an end, and nothing the backend takes notice of
has undone it since (`SittingIsFresh`).

Noticed, and no contradiction to anything written: each message counts twice, as
`lastTick` takes the tick *before* (485), so 10 ticks are 5 or 6 messages; a signal
in a requested shutdown cuts the power in any pose (249), an end that is called
`aborted` in the model and of which the properties say nothing; the power is cut also while
a frontend that was started in the last cycles is not connected yet (326), and though the
first messages of one have been sent to the joints; `killall` misses a
child between `fork()` and `exec()`, which `ShutdownCompletes` excludes.

### BodyControl (`modules/motion/bodycontrol/bodycontrol.cpp`, `stiffness.hpp`)

`BodyControl.tla`; `BodyControlMC.tla`; `BodyControlProofs.tla`.

| model | code |
|---|---|
| `body` | `active`, `activeMotion`, `nextMotion`, `motion_stable`, the walk's `activateMe`; what the active motion said last, which the motions remember in their own ways |
| `reported` | `bodyblackboard.activeMotion`, not updated when Stiffness ends the step |
| `stiffness`, `cmd`, `fallen` | the state machine of Stiffness, its command, `prevQns[IS_FALLEN]` |
| `ActivateModule`, `ReplaceMotionWithNextMotion`, `ExecuteSubmodules` | the functions of these names, on the record `body` |
| `DoMotion`, `HandleRequest`, `SetCommand` | handlers, run by `commands.update()` at the start of a step, hence as steps of their own |
| `Step` | the rest of `step()`: `activateMe`, first replacement, Stiffness, the motion, second replacement |
| `displaced` | not in the code: what the motion last replaced had returned last |

Motions are told apart by what they may return: the walk is always stable, stances
become stable, sequences end by themselves, the motion designer does neither.
Stiffness comes before any motion (their dependency), and its END_SEQUENCE keeps the
motions from running. When the robot falls is open, except that FallControl sees no
falls while standing up is *reported*. Other submodules are no motions, are active
from the beginning and do not touch the arbiter.

| run | shows | bounds |
|---|---|---|
| `BodyControl_requests` | one motion active at a time; none replaced after it has said it is unstable; a motion on hold gets its turn; a request to walk is served | one motion of each of the four kinds, the sequence being one that stands up; 24 000 states |

One motion of each kind is enough as the arbiter knows one active and one waiting
motion, and compares identities only. Proofs cover any sets.

Fairness: NaoThread calls `step()` in each cycle (weak); stances and sequences last
for a time fixed in advance, so what is executed often enough ends or becomes
stable (strong, `Ending`). Commands need not come. A body that stays limp, or is
held by the motion designer, is excluded by name (`Available`).

Noticed. `submodule.h:13-21` says a motion gives way only if it returned
MOTION_STABLE. `motion_stable` is one flag for all motions and a replacement does
not reset it, so a motion that has not run yet is judged by its predecessor.
`UnstableIsProtected` is what does hold: none that *said* it is unstable is replaced.

Also noticed: a request for a motion that has just deactivated itself is dropped (293); a
request to walk made while walking stays in `activateMe` and overwrites what is
requested next (289, 219); the two motions for standing up are registered under
each other's names (`modules.h:253-256`), which the behaviour must know.

### Gamecontrol (`modules/gamecontrol/gamecontrol.cpp`)

`Gamecontrol.tla`; `GamecontrolMC.tla`; `GamecontrolProofs.tla`. The game controller (GC)
and the network are external, modelled as `recv()` has to expect them.

| model | code |
|---|---|
| `gc`, `emitted`, `role` | `gc_data` with the age of `lastPacketTs`, `gc_last`, `settings->role` |
| `parsing` | what `recv()` has accepted and waits to parse under the mutex |
| `bb`, `was` | the blackboard's three variables; `wasUnstiff`, `lastPenalty`, `lastState` |
| `Ignore`, `Accept`, `ParsePacket` | `recv()` in the network's thread: the test of the number and `lastPacketTs` without the mutex, then `parsePacket()` |
| `Process` | all of `process()`: `ButtonHandler`, `UpdateBB`, `Emit` |
| `Silence` | a second without a packet |
| `Debug` | `change_value` of the debug server |
| `Decide`, `Send` | the GC decides and counts its packets; those on their way grow older, may be lost, overtaken or doubled |
| `age`, `gap` | not in the code: how many packets were sent since |

Choices. `process()` holds the mutex from beginning to end and is one step, but BembelDbug
writes to the blackboard without it, hence `UpdateBB` reads the board more than once and may
find something else each time (`seen`, `last`). Only packets of this game reach `recv()`
here. Contents are four fields, those other code depends on.

| run | shows | bounds |
|---|---|---|
| `Gamecontrol_lossy` | types; no news is taken for a late packet although the number wraps; the robot comes to agree with the GC | numbers modulo 4 with 2 that are always accepted instead of 256 with 11, packets one number late or lost, two contents, the debugger clears penalties; 241 000 states |

The bounds are the smallest in which the wrap, an ignored packet, a lost packet and a late
one all happen. The proofs cover the real numbers: `GapAssumption` says that losses and
delays together are less than the 11 numbers always accepted, 5.5 s of packets. With longer
silence around the wrap packets are ignored until the number has passed the last one, which
the code does not handle.

Fairness: the GC goes on sending and a packet newer than the last one gets through again and
again (strong, as both wait while one is parsed); both threads run (weak). Nobody has to
press anything: `ComesToAgree` is about what happens once nobody does.

Noticed. `updateBB()` copies the penalty to the board *after* it has remembered the board
(195, 172), so in the next call it takes its own old value for one set by hand, and keeps it
once more. `ComesToAgree` shows that it gives way to the next packet.

### Standby (`modules/gamestate`, `modules/refereegesture`, `modules/teamcomm`)

`Standby.tla`; `StandbyMC.tla`; `StandbyProofs.tla`. How a team walks in when the referee
raises both arms: three modules in each robot, the air between robots, and the GC.

| model | code |
|---|---|
| `official`, `real`, `detected`, `punished`, `waited` | Gamestate's `gameStateOfficial`, `gameStateReal`, `gestureInStandbyDetected`, `gestureInStandbyPenalized`, and whether 15 s are over |
| `gestures`, `messages`, `toSend` | the snooped queues of Gamestate and TeamComm: do they hold "both arms up"? |
| `looking` | RefereeGesture has such an image in work |
| `told` | the event Gamecontrol emitted last in this robot |
| `Look`, `Gesture` | `RefereeGesture::process()` from its image to its event |
| `Broadcast`, `NetRecv`, `Lose` | `TeamComm::process()` and its receiving handler; the air |
| `Process` | `Gamestate::process()` with `HandleOfficialStandby`; `Wait` is the time that passes |
| `Announce`, `Raise`, `Lower`, `Penalize`, `Hear` | GC, referee, and how the robot hears |
| `raised`, `lag` | not in the code: a signal in this STANDBY; states the robot has not noticed |

Choices. Events matter only by whether one says "arms up", so queues are Booleans. The two
flags nobody initializes start with any value in the robots of `Random`. A robot may fail to
notice a state of the GC (`MaxLag`), but no more than two in a row. The limit on the number
of messages of a game is assumed not to be reached, and RefereeGesture is taken not to be
wrong about what it sees.

| run | shows | bounds |
|---|---|---|
| `Standby_team` | nobody walks in during STANDBY without a signal in this STANDBY; all walk in if the arms stay up | one robot that sees and one that hears; flags uninitialized in the first; the second may foul and miss a state; 143 000 states |

Two robots are enough, as a robot reacts to a message alike whoever sent it and however many
send; the proof covers any team.

Fairness: threads run and time passes (weak); what is sent again and again arrives (strong).
No state has to be announced and no arm raised.

### XLogger and Log (`framework/logger/xlogger.cpp`)

`Log.tla` is what a logger promises: messages are written once and in order, and a flush
waits for all that was accepted before. `XLogger.tla` is the code: the lock-free queue
(boost, external, atomic `push` and `pop`), the null pointer a flush pushes, the worker
(`WorkerTest`, `WorkerPops`, `WorkerWrites`, `WorkerEnds` for `io_worker()` and
`consume()`), and main (`Stop`, `Destroy`, `Join`, `OwnerPops`, `OwnerWrites`, `Delete` for
the stop and the destructor). Messages are numbered as they are pushed, and `Null` is the
null pointer. Not in the code: `accepted` counts them, `owed` remembers for each thread how
many there were when it called `flush()`, `due` how many when the destructor was entered.
The mapping to `Log` is the identity but for names: `written` is the log, and who polls in
`flush()` is waiting. Proofs in `XLoggerProofs.tla`.

| run | shows | bounds |
|---|---|---|
| `XLogger_flush` | implements `Log` with either consumer; nothing accepted before the destructor is lost; waits end | two threads, five pushes in all; 29 000 states |

Five pushes allow both threads a message before and after a flush of the other. Deadlock is
not checked, as a program that logs no more and has deleted its logger stops.

Fairness: the worker, main and a flush that polls run on (weak). `WaitsEnd` does not promise
that a flush returns after the logger was stopped: it then waits for main to empty the
queue, and main may never come.

### ImageBuffer (`modules/nao/camera/image_buffer.cpp`, `framework/image/image.cpp`)

`ImageBuffer.tla`; `ImageBufferMC.tla`; `ImageBufferProofs.tla`. One camera's ring with the
grabber (`ImageThread::process`) and Vision. The camera is external: a frame or an error.

| model | code |
|---|---|
| `flags`, `content` | `ImgLock` flags of each image; the frame in its memory |
| `curImg`, `lastImg` | the members of `ImageBuffer` |
| `GetCaptureBuffer`, `Probe`, `LoadToSet`, `SetCapture` | `getCaptureBuffer()` with `lock()` |
| `FetchImage`, `ResetCameras`, `SetPose`, `FirstRun` | the grabber's attempts, up to three |
| `Publish`, `LoadToClear`, `ClearCapture` | `releaseCaptureBuffer()` with `unlock()` |
| `NewImage`, `GiveUp`, `NoteLast`, `TakeCurrent`, `CopyHeader` | `getImage()` and the copy in `ImageProvider` |
| `LoadToSetVision`, `SetVision`, `LoadToClearVision`, `ClearVision` | Vision's `lock()` and `unlock()` around the detection |
| `asked`, `late` | not in the code: the frame Vision chose; whether its flag came too late |

Choices. Each load and each store of the flags is a step of its own, and so is each of the
two reads of `curImg`. Frames are numbered; an image being filled has the new number, and
`Overtaken` counts it as torn while the grabber is at it. Images are not pixels, so a torn
image is one whose frame is no longer the one of its header.

| run | shows | bounds |
|---|---|---|
| `ImageBuffer_ring` | Vision's image is torn only if the grabber has gone round the ring, and then only if the flag came late or was lost; Vision never goes back; the program runs out of images only after all but two have leaked; images get to Vision | 4 images of 150, 2 attempts of 3, 6 frames; 253 000 states |
| `ImageBuffer_leak` | *violation*: a released image stays locked | 3 images, 5 frames |

Six frames go round the ring of four with a free choice of where Vision stands meanwhile;
ring size matters only by how often that happens. `GiveUp` is the limit of 100 ms on the
robot: in the simulator `getImage()` waits practically for ever (image_buffer.cpp:53-54),
which is not modelled, and `NewestIsTaken` is not claimed of it. Both threads run (weak fairness), and
frames are bounded, hence no check for deadlock.

Finding. An image is published before it is unlocked, and `lock()` and `unlock()` are a load
and a store of all flags: Vision may put back the CAPTURE flag the grabber has just cleared.
Nobody clears it again, the image is lost to the ring (`ReleasedIsUnlocked`), and when 148
are lost the program ends (`FullOnlyByLeaks` shows that it takes as many).

## 4. Proofs

All for every value of the constants: any finite set of modules and any graphs
(`ModulesAssumption`, `GraphsAssumption`), any messages and any crashes
(`CrashingAssumption`), any counters and faults (`ConnectorAssumption`), any sets of motions
of the four kinds (`BodyControlAssumption`), packet numbers, contents and inputs as long as
gaps are not too long (`NumbersAssumption`, `GapAssumption`, `InputsAssumption`), any team
(`StandbyAssumption`), any threads and number of pushes (`XLoggerAssumption`), any ring
(`ImageBufferAssumption`). Each `IInv` was an invariant of a run of TLC first.

* `KernelProofs`: `IInv` is inductive. `FetchFindsData` alone is not: a thread at `guard`
  must still be ready (`LetThrough`, which holds as only the thread itself empties its
  queues), the loops must stay within the graph (`Neighbours`). `CleanStop` needs `Count`:
  `numRunning` is the number of threads between `Enter` and `Leave`. `NotAllBlocked` needs
  that sleepers require something (`Sleepers`), that the graph is acyclic while the kernel
  runs (`Phase`), and then picks from the set of all modules one that requires nothing.
* `TripleBufferProofs`: `IInv` says where the three indices are distinct, which buffers are
  whole, and where the newest message is, at each label; it has to allow for a mutex
  orphaned in the middle of a swap, after which only `frontIdx # backIdx` is left, which is
  enough for whole copies. `Refinement`: `SwapMiddle` publishes, `TakeFront` obtains, the
  rest stutters.
* `KernelProofs` on the search: as long as no cycle was found, finished modules are closed
  under `requiredBy` (`Passed`) and acyclic (`FinishedAcyclic`): the module that becomes
  finished requires no finished one, since whoever requires a finished module is finished
  already. So it is the wanted member of every set it is in. Each module of `path` has a path
  of the graph to each one behind it (`OnPath`), so the edge back from its end closes a circle
  (`BackEdgeCircle`), and the modules on a circle all wait for one another (`CircleIsNotAcyclic`). `SearchDecides` puts both directions
  together: a search that has ended has found no cycle iff the graph satisfies `Acyclic`, so
  `Compile` refuses exactly the graphs that `resolve()` refuses. For this the module extends
  `Kernel` and `DepthFirstSearch`, which have no variable in common.
* `ConnectorProofs`: `SittingIsFresh` needs little, the counters more. After a cycle the
  message in the shared memory is one of the last two that were counted (`Remembered`), so a
  silent frontend adds one more count at most (`CountsAgain`); hence the counter falls with
  the silence (`Decaying`), which gives `SilenceDisconnects` with `Hysteresis`, and is at
  most twice the cycles with new messages plus one (`Earned`), which gives
  `ConnectionIsEarned`.
* `BodyControlProofs`: each function of the arbiter keeps `Orderly`: the active motion is
  the only one active, and `motion_stable` is what it said last, *once it has said
  anything*. This is what makes one unreset flag safe for motions that have run; those that
  have not are the exception noticed above.
* `GamecontrolProofs`: a number alone says nothing about which of two packets is newer.
  `Numbered` ties it to the packet's age across the wrap, `AgeBound` bounds the age of the
  last packet by the gap; then a newer packet with a smaller number is one after the wrap,
  and close enough to it to be among those always accepted.
* `StandbyProofs`: `Timeline` says where in the sequence of states a robot is that has
  missed some, so that one that is in STANDBY when the GC announces it again is excluded;
  `NoSignal`: before the referee raises the arms no queue, message or flag of a robot in
  STANDBY holds a trace of a signal.
* `XLoggerProofs`: `Turns` says that the worker has ended before the destructor consumes, so
  at most one of them holds a message. With `InOrder` that message is the next one, and the
  queue has all that come after it, in order; hence each write is a `Write` of `Log`.
  `Waits`: whoever flushes has a null pointer in the queue with only later messages behind
  it (`MarkedBy`), or all that it waits for is written. That pointer is popped only when the
  message before it has been written, as who pops is who writes; so an empty queue means
  that all is written, and `FlushReturns` is an `EndFlush`. `NothingLost`: the destructor
  leaves its loop with an empty queue and empty hands (`NoneLeft`).
* `ImageBufferProofs`: `Recent` orders the frames, which gives `NeverOlder`. `Guarded`: once
  the grabber has taken an image that Vision flagged in time, Vision's flag is neither on it
  nor in the grabber's copy of the flags. This gives `FlagProtects`, the second part of
  `NoTearing`. `Spare`: what the grabber has skipped since it published last has leaked, but
  for one image that is, or was, in Vision's hands. When it has skipped all but the current
  image, that gives `FullOnlyByLeaks`. The first part of `NoTearing` counts frames. `Rounds`
  says of the images the grabber has passed since Vision asked for its own that all but one
  have leaked or hold a later frame. When Vision's image is overtaken these are all images;
  the frames in those that have not leaked differ (`Numbered`), which is an injection into
  the frames since, and so there are as many of those as `Lapped` demands.
Only model-checked: everything under fairness (`EveryModuleRuns` and `StopReachesAll`;
`TimedProduceReturnsIfKept` and `NewsIsTaken`; `LostFrontendNoticed` and
`ShutdownCompletes`; `HeldMotionStarts` and `WalkRequestsAreServed`; `ComesToAgree`;
`AllWalkIn`; `WaitsEnd`; `NewestIsTaken`), as TLAPS proves neither ENABLED nor arguments
from fairness; and the violations. Every other property of a run that is to pass is a theorem.

## 5. Not modelled

Most of the lines of this program are numeric: vision, localization, filters of the world
model, walking, kinematics. Their correctness is about real numbers, not about order, and a
model of them would either be the code again or leave out what matters. The same holds for
the behaviour's decision trees, a single thread whose correctness is about the game. Build
files, the Python debugger and vendored code are no part of it. This is why the models stand
for a small share of the lines.

Left for later, as order does matter there (plan, 10 and 11): the life of a TCP session and
of the debug server's one client; squashing and several writers of a message; command and
task channels; the order of BodyControl's submodules; the whistle's recorder.

Left out of what is modelled: camera drivers and how images are matched to body states; the
number of messages a team may send; the calibration of the gyroscope; the configuration; a
backend that recreates the shared memory under a frontend that lives on. `PROJECT.json`
gives the reason for each.

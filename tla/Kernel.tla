------------------------------- MODULE Kernel -------------------------------
(***************************************************************************)
(* The runtime kernel of the frontend (framework/rt/kernel.cpp): it checks *)
(* the module graph, starts one thread per module, lets a thread process   *)
(* once every message its module requires has arrived, and stops them all. *)
(*                                                                         *)
(* A thread waits on the condition variable onReady[m] under mutexes[m].   *)
(* Nobody but the waiting thread ever takes that mutex, so it orders       *)
(* nothing and is not part of the state; evaluating the predicate and      *)
(* going to sleep are two steps, and a notification that falls between     *)
(* them wakes nobody.                                                      *)
(***************************************************************************)
EXTENDS ModuleGraph

CONSTANT
  StopTimeouts  \* TRUE iff the 2 s that stop() waits may run out

ASSUME TimeoutsAssumption == StopTimeouts \in BOOLEAN

VARIABLES
  state,      \* Kernel::state
  requires,   \* the required inputs: <<p, c>> is c's listener on p's message
  full,       \* the listeners whose one-element queue holds a message
  pc,         \* where the thread of each module is
  todo,       \* the neighbours the loop a thread is in has yet to visit
  numRunning, \* Kernel::numRunning
  main,       \* where the main thread is
  mainTodo,   \* the modules main's loop has yet to visit
  timedOut    \* whether stop() gave up waiting for the threads

mainVars == <<main, mainTodo, timedOut>>
vars == <<state, requires, full, pc, todo, numRunning, main, mainTodo, timedOut>>

States == {"SETUP", "READY", "RUNNING_ASYNC", "SHUTDOWN", "FINISHED", "ERROR"}

Labels == {"none", "spawned", "entering", "fetch", "test", "parking", "blocked",
           "guard", "consume", "run", "publish", "notify", "stopping", "done"}

MainLabels == {"compile", "start", "create", "stop", "finish", "returned"}

Inputs(m)  == {p \in Modules : <<p, m>> \in requires}
Outputs(m) == {c \in Modules : <<m, c>> \in requires}

\* The states in which fetch() waits and dump() notifies.
Async == state \in {"RUNNING_ASYNC", "SHUTDOWN"}

TypeOK ==
  /\ state \in States
  /\ requires \in Graphs
  /\ full \subseteq requires
  /\ pc \in [Modules -> Labels]
  /\ todo \in [Modules -> SUBSET Modules]
  /\ numRunning \in Int
  /\ main \in MainLabels
  /\ mainTodo \subseteq Modules
  /\ timedOut \in BOOLEAN

Init ==
  /\ state = "SETUP"
  /\ requires \in Graphs
  /\ full = {}
  /\ pc = [m \in Modules |-> "none"]
  /\ todo = [m \in Modules |-> {}]
  /\ numRunning = 0
  /\ main = "compile"
  /\ mainTodo = {}
  /\ timedOut = FALSE

Goto(m, from, to) == pc[m] = from /\ pc' = [pc EXCEPT ![m] = to]

-----------------------------------------------------------------------------
(* Faults: what some of the definitions would be if the code were wrong,   *)
(* kept to show that the properties below notice.                          *)

ReadyAny(m) == Inputs(m) = {} \/ \E p \in Inputs(m) : <<p, m>> \in full

WakeNobody(m) == pc' = pc

EnterUncounted(m) ==
  /\ Goto(m, "entering", "fetch")
  /\ UNCHANGED <<state, requires, full, todo, numRunning, mainVars>>

PublishToSelf(m, c) ==
  /\ pc[m] = "publish" /\ c \in todo[m]
  /\ full' = full \cup {<<m, m>>}
  /\ todo' = [todo EXCEPT ![m] = @ \ {c}]
  /\ UNCHANGED <<state, requires, pc, numRunning, mainVars>>

-----------------------------------------------------------------------------
(* The graph, the queues and the condition variables.                      *)

\* ModuleMeta::ready(): each required input of the module has new data.
Ready(m) == \A p \in Inputs(m) : <<p, m>> \in full

\* condition_variable::notify_one: only m's own thread ever sleeps on onReady[m].
Wake(m) == pc' = IF pc[m] = "blocked" THEN [pc EXCEPT ![m] = "test"] ELSE pc

-----------------------------------------------------------------------------
(* The main thread: compile(), start(), stop().                            *)

\* link() has filled in the graph; resolve() accepts it iff nErrors is 0.
\* Messages without producer and the like, the other errors, may occur too.
Compile ==
  /\ main = "compile"
  /\ \/ Acyclic(requires) /\ state' = "READY" /\ main' = "start"
     \/ state' = "ERROR" /\ main' = "returned"
  /\ UNCHANGED <<requires, full, pc, todo, numRunning, mainTodo, timedOut>>

Start ==
  /\ main = "start"
  /\ state' = "RUNNING_ASYNC"
  /\ main' = "create" /\ mainTodo' = Modules
  /\ UNCHANGED <<requires, full, pc, todo, numRunning, timedOut>>

\* CreateModuleThread() returns once the new thread has called notifyReady().
AllReady == \A m \in Modules : pc[m] # "spawned"

Create(m) ==
  /\ main = "create" /\ m \in mainTodo /\ AllReady
  /\ Goto(m, "none", "spawned")
  /\ mainTodo' = mainTodo \ {m}
  /\ UNCHANGED <<state, requires, full, todo, numRunning, main, timedOut>>

\* System::is_running has become false; stop() sets the state without a lock.
Stop ==
  /\ main = "create" /\ mainTodo = {} /\ AllReady
  /\ state' = "SHUTDOWN"
  /\ main' = "stop" /\ mainTodo' = Modules
  /\ UNCHANGED <<requires, full, pc, todo, numRunning, timedOut>>

NotifyStop(m) ==
  /\ main = "stop" /\ m \in mainTodo
  /\ Wake(m)
  /\ mainTodo' = mainTodo \ {m}
  /\ UNCHANGED <<state, requires, full, todo, numRunning, main, timedOut>>

\* moduleStopped.wait_for returns because no thread is counted as running ...
AllStopped ==
  /\ main = "stop" /\ mainTodo = {} /\ numRunning = 0
  /\ main' = "finish"
  /\ UNCHANGED <<state, requires, full, pc, todo, numRunning, mainTodo, timedOut>>

\* ... or because the 2 s are over.
StopTimeout ==
  /\ main = "stop" /\ mainTodo = {} /\ numRunning # 0 /\ StopTimeouts
  /\ main' = "finish" /\ timedOut' = TRUE
  /\ UNCHANGED <<state, requires, full, pc, todo, numRunning, mainTodo>>

Finish ==
  /\ main = "finish"
  /\ state' = "FINISHED" /\ main' = "returned"
  /\ UNCHANGED <<requires, full, pc, todo, numRunning, mainTodo, timedOut>>

-----------------------------------------------------------------------------
(* The thread of module m: moduleLoop(), which calls fetch(), run(), dump().*)

NotifyReady(m) ==
  /\ Goto(m, "spawned", "entering")
  /\ UNCHANGED <<state, requires, full, todo, numRunning, mainVars>>

Enter(m) ==
  /\ Goto(m, "entering", "fetch")
  /\ numRunning' = numRunning + 1
  /\ UNCHANGED <<state, requires, full, todo, mainVars>>

\* Top of the loop: at its start, and when dump() has notified all it has to.
Fetch(m) ==
  /\ pc[m] = "fetch" \/ (pc[m] = "notify" /\ todo[m] = {})
  /\ pc' = [pc EXCEPT ![m] = IF Async THEN "test" ELSE "guard"]
  /\ UNCHANGED <<state, requires, full, todo, numRunning, mainVars>>

\* The predicate of onReady[m].wait, evaluated before and after sleeping.
Test(m) ==
  /\ Goto(m, "test", IF Ready(m) \/ state = "SHUTDOWN" THEN "guard" ELSE "parking")
  /\ UNCHANGED <<state, requires, full, todo, numRunning, mainVars>>

Park(m) ==
  /\ Goto(m, "parking", "blocked")
  /\ UNCHANGED <<state, requires, full, todo, numRunning, mainVars>>

\* A condition variable may wake up a thread that nobody notified.
SpuriousWake(m) ==
  /\ Goto(m, "blocked", "test")
  /\ UNCHANGED <<state, requires, full, todo, numRunning, mainVars>>

\* fetch() goes on to doPreProcess() unless the kernel is shutting down.
Guard(m) ==
  /\ Goto(m, "guard", "consume")
  /\ todo' = [todo EXCEPT ![m] = IF state # "SHUTDOWN" THEN Inputs(m) ELSE {}]
  /\ UNCHANGED <<state, requires, full, numRunning, mainVars>>

\* MessageChannel::fetch of one required input empties its queue.
Consume(m, p) ==
  /\ pc[m] = "consume" /\ p \in todo[m]
  /\ full' = full \ {<<p, m>>}
  /\ todo' = [todo EXCEPT ![m] = @ \ {p}]
  /\ UNCHANGED <<state, requires, pc, numRunning, mainVars>>

\* moduleLoop() leaves its loop only if it still sees SHUTDOWN.
Check(m) ==
  /\ todo[m] = {}
  /\ Goto(m, "consume", IF state = "SHUTDOWN" THEN "stopping" ELSE "run")
  /\ UNCHANGED <<state, requires, full, todo, numRunning, mainVars>>

\* process() returns; doPostProcess() has all the module's outputs to write.
Run(m) ==
  /\ Goto(m, "run", "publish")
  /\ todo' = [todo EXCEPT ![m] = Outputs(m)]
  /\ UNCHANGED <<state, requires, full, numRunning, mainVars>>

\* MessageChannel::write to one listener.
Publish(m, c) ==
  /\ pc[m] = "publish" /\ c \in todo[m]
  /\ full' = full \cup {<<m, c>>}
  /\ todo' = [todo EXCEPT ![m] = @ \ {c}]
  /\ UNCHANGED <<state, requires, pc, numRunning, mainVars>>

\* dump() notifies nobody unless the kernel is in one of the two states.
Dump(m) ==
  /\ todo[m] = {}
  /\ Goto(m, "publish", "notify")
  /\ todo' = [todo EXCEPT ![m] = IF Async THEN Outputs(m) ELSE {}]
  /\ UNCHANGED <<state, requires, full, numRunning, mainVars>>

\* One module of requiredBy is notified if all it requires is there.
Notify(m, c) ==
  /\ pc[m] = "notify" /\ c \in todo[m]
  /\ IF Ready(c) THEN Wake(c) ELSE UNCHANGED pc
  /\ todo' = [todo EXCEPT ![m] = @ \ {c}]
  /\ UNCHANGED <<state, requires, full, numRunning, mainVars>>

\* The module's own stop() has been called; the thread is no longer counted.
Leave(m) ==
  /\ Goto(m, "stopping", "done")
  /\ numRunning' = numRunning - 1
  /\ UNCHANGED <<state, requires, full, todo, mainVars>>

-----------------------------------------------------------------------------

\* What the scheduler of the operating system keeps the threads doing.
ThreadStep(m) ==
  \/ NotifyReady(m) \/ Enter(m) \/ Fetch(m) \/ Test(m) \/ Park(m) \/ Guard(m)
  \/ Check(m) \/ Run(m) \/ Dump(m) \/ Leave(m)
  \/ \E n \in Modules : Consume(m, n) \/ Publish(m, n) \/ Notify(m, n)

MainStep ==
  \/ Compile \/ Start \/ AllStopped \/ Finish
  \/ \E m \in Modules : Create(m) \/ NotifyStop(m)

Next ==
  \/ MainStep
  \/ Stop \/ StopTimeout
  \/ \E m \in Modules : ThreadStep(m) \/ SpuriousWake(m)

Spec == Init /\ [][Next]_vars

(***************************************************************************)
(* Every runnable thread is scheduled in the end and process() returns, so *)
(* the steps of each thread are weakly fair. Neither a request to stop nor *)
(* a spurious wake-up is bound to happen, nor the end of the 2 s of stop() *)
(* (so nothing below is owed to it).                                       *)
(***************************************************************************)
Fairness == WF_vars(MainStep) /\ \A m \in Modules : WF_vars(ThreadStep(m))

FairSpec == Spec /\ Fairness

-----------------------------------------------------------------------------
(* Safety *)

\* The threads that have counted themselves in numRunning and not yet out.
Counted == {m \in Modules : pc[m] \notin {"none", "spawned", "entering", "done"}}

(***************************************************************************)
(* What jsassert(ready()) in fetch() and jsassert(queue.has_value()) in    *)
(* MessageChannel::fetch say, as long as stop() has not returned: a thread *)
(* that was let through the wait, whoever woke it, finds a message in      *)
(* every queue it has yet to empty, although readiness was tested some     *)
(* steps earlier without the locks of the queues.                          *)
(* After stop() the assertions can fail: a thread that had announced       *)
(* itself but was not counted yet, or that missed the deadline, neither    *)
(* waits nor leaves its loop any more.                                     *)
(***************************************************************************)
FetchFindsData ==
  \A m \in Modules :
    Async /\ pc[m] = "consume" => \A p \in todo[m] : <<p, m>> \in full

(***************************************************************************)
(* The modules never all wait for each other: resolve() only lets graphs   *)
(* without circular dependencies run, and a thread that requires nothing   *)
(* does not sleep.                                                         *)
(***************************************************************************)
NotAllBlocked ==
  state = "RUNNING_ASYNC" /\ Modules # {} =>
    \E m \in Modules : pc[m] \notin {"parking", "blocked"}

(***************************************************************************)
(* If stop() stops waiting before its 2 s are over, no thread is inside    *)
(* its loop: each has left it for good or has not entered it yet. stop()   *)
(* reads only the counter, which the threads update outside any lock.      *)
(***************************************************************************)
StopsClean ==
  main = "stop" /\ main' = "finish" /\ ~timedOut' =>
    \A m \in Modules : pc[m] \in {"entering", "done"}

CleanStop == [][StopsClean]_vars

-----------------------------------------------------------------------------
(* The inductive invariant behind the safety properties (KernelProofs).    *)

\* The loops over neighbours stay inside the graph.
Neighbours ==
  \A m \in Modules :
    /\ pc[m] = "consume" => todo[m] \subseteq Inputs(m)
    /\ pc[m] \in {"publish", "notify"} => todo[m] \subseteq Outputs(m)

\* Where main is determines the kernel's state and which threads exist.
Phase ==
  /\ main = "compile" => state = "SETUP"
  /\ main = "start" => state = "READY"
  /\ main = "create" => state = "RUNNING_ASYNC"
  /\ main \in {"stop", "finish"} => state = "SHUTDOWN"
  /\ main = "returned" => state \in {"FINISHED", "ERROR"}
  /\ main \notin {"compile", "returned"} => Acyclic(requires)
  /\ \A m \in Modules :
       /\ main \in {"compile", "start"} => pc[m] = "none"
       /\ main = "create" /\ m \notin mainTodo => pc[m] # "none"
       /\ main \in {"stop", "finish"} => pc[m] \notin {"none", "spawned"}

\* A thread that the wait let through while the kernel runs is still ready.
LetThrough ==
  \A m \in Modules : state = "RUNNING_ASYNC" /\ pc[m] = "guard" => Ready(m)

\* Only a thread that requires something goes to sleep.
Sleepers ==
  \A m \in Modules : pc[m] \in {"parking", "blocked"} => Inputs(m) # {}

Count == numRunning = Cardinality(Counted)

IInv ==
  /\ TypeOK /\ Neighbours /\ Phase /\ LetThrough /\ FetchFindsData
  /\ Sleepers /\ Count

-----------------------------------------------------------------------------
(* Liveness *)

(***************************************************************************)
(* While the kernel runs every module of an accepted graph processes again *)
(* and again. A notification may be lost between the predicate and the     *)
(* sleep, but the queues keep what they hold until the module empties      *)
(* them, so the next dump() of a producer notifies again.                  *)
(***************************************************************************)
EveryModuleRuns ==
  \A m \in Modules :
    [](state = "RUNNING_ASYNC" => <>(pc[m] = "run" \/ state # "RUNNING_ASYNC"))

\* All threads have entered their loops and none is between predicate and sleep.
NobodyInTheGap == \A m \in Modules : pc[m] \notin {"entering", "parking"}

(***************************************************************************)
(* If that is so when stop() sets SHUTDOWN, every thread leaves its loop   *)
(* and stop() returns, or else its deadline comes first. The deadline is   *)
(* not bound to come, so it is not what brings this about.                 *)
(***************************************************************************)
StopReachesAll ==
  (state = "SHUTDOWN" /\ mainTodo = Modules /\ NobodyInTheGap)
    ~> (timedOut \/ (main = "returned" /\ \A m \in Modules : pc[m] = "done"))

=============================================================================

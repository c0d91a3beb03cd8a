---------------------------- MODULE KernelProofs ----------------------------
(***************************************************************************)
(* Proofs about Kernel and about DepthFirstSearch, by which it refuses     *)
(* circular dependencies, for any finite set of modules and any graphs.    *)
(***************************************************************************)
EXTENDS Kernel, DepthFirstSearch, FiniteSetTheorems, SequenceTheorems, TLAPS

(***************************************************************************)
(* The kernel as its constructor leaves it satisfies the inductive         *)
(* invariant.                                                              *)
(***************************************************************************)
LEMMA InitIInv == Init => IInv
<1> SUFFICES ASSUME Init PROVE IInv
  OBVIOUS
<1> USE GraphsAssumption DEF Init
<1>1. TypeOK
  <2>1. pc \in [Modules -> Labels] /\ todo \in [Modules -> SUBSET Modules]
    BY DEF Labels
  <2>2. state \in States /\ main \in MainLabels /\ timedOut \in BOOLEAN
    BY DEF States, MainLabels
  <2>3. full \subseteq requires /\ mainTodo \subseteq Modules /\ numRunning \in Int
    OBVIOUS
  <2> QED
    BY <2>1, <2>2, <2>3 DEF TypeOK
<1>2. Neighbours /\ Phase /\ LetThrough /\ FetchFindsData /\ Sleepers
  BY DEF Neighbours, Phase, LetThrough, FetchFindsData, Sleepers
<1>3. Count
  <2>1. Counted = {}
    BY DEF Counted
  <2> QED
    BY <2>1, FS_EmptySet DEF Count
<1> QED
  BY <1>1, <1>2, <1>3 DEF IInv

(***************************************************************************)
(* Every step of main() and of the module threads preserves it.            *)
(***************************************************************************)
LEMMA NextIInv == IInv /\ [Next]_vars => IInv'
<1> SUFFICES ASSUME IInv, [Next]_vars PROVE IInv'
  OBVIOUS
<1> USE ModulesAssumption, GraphsAssumption DEF IInv
<1>1. TypeOK'
  <2> USE DEF TypeOK, States, Labels, MainLabels, Goto, mainVars, Neighbours
  <2>1. CASE Compile
    BY <2>1 DEF Compile
  <2>2. CASE Start
    BY <2>2 DEF Start
  <2>3. ASSUME NEW m \in Modules, Create(m) PROVE TypeOK'
    BY <2>3 DEF Create
  <2>4. CASE Stop
    BY <2>4 DEF Stop
  <2>5. ASSUME NEW m \in Modules, NotifyStop(m) PROVE TypeOK'
    BY <2>5 DEF NotifyStop, Wake
  <2>6. CASE AllStopped
    BY <2>6 DEF AllStopped
  <2>7. CASE StopTimeout
    BY <2>7 DEF StopTimeout
  <2>8. CASE Finish
    BY <2>8 DEF Finish
  <2>9. ASSUME NEW m \in Modules, NotifyReady(m) PROVE TypeOK'
    BY <2>9 DEF NotifyReady
  <2>10. ASSUME NEW m \in Modules, Enter(m) PROVE TypeOK'
    BY <2>10 DEF Enter
  <2>11. ASSUME NEW m \in Modules, Fetch(m) PROVE TypeOK'
    BY <2>11 DEF Fetch
  <2>12. ASSUME NEW m \in Modules, Test(m) PROVE TypeOK'
    BY <2>12 DEF Test
  <2>13. ASSUME NEW m \in Modules, Park(m) PROVE TypeOK'
    BY <2>13 DEF Park
  <2>14. ASSUME NEW m \in Modules, SpuriousWake(m) PROVE TypeOK'
    BY <2>14 DEF SpuriousWake
  <2>15. ASSUME NEW m \in Modules, Guard(m) PROVE TypeOK'
    BY <2>15 DEF Guard, Inputs
  <2>16. ASSUME NEW m \in Modules, NEW p \in Modules, Consume(m, p) PROVE TypeOK'
    BY <2>16 DEF Consume
  <2>17. ASSUME NEW m \in Modules, Check(m) PROVE TypeOK'
    BY <2>17 DEF Check
  <2>18. ASSUME NEW m \in Modules, Run(m) PROVE TypeOK'
    BY <2>18 DEF Run, Outputs
  <2>19. ASSUME NEW m \in Modules, NEW c \in Modules, Publish(m, c) PROVE TypeOK'
    BY <2>19 DEF Publish, Outputs
  <2>20. ASSUME NEW m \in Modules, Dump(m) PROVE TypeOK'
    BY <2>20 DEF Dump, Outputs
  <2>21. ASSUME NEW m \in Modules, NEW c \in Modules, Notify(m, c) PROVE TypeOK'
    BY <2>21 DEF Notify, Wake
  <2>22. ASSUME NEW m \in Modules, Leave(m) PROVE TypeOK'
    BY <2>22 DEF Leave
  <2>23. CASE UNCHANGED vars
    BY <2>23 DEF vars
  <2> QED
    BY <2>1, <2>2, <2>3, <2>4, <2>5, <2>6, <2>7, <2>8, <2>9, <2>10, <2>11,
       <2>12, <2>13, <2>14, <2>15, <2>16, <2>17, <2>18, <2>19, <2>20, <2>21,
       <2>22, <2>23
       DEF Next, MainStep, ThreadStep
<1>2. requires' = requires
  BY DEF Next, MainStep, ThreadStep, vars, mainVars, Compile, Start, Create, Stop, NotifyStop, AllStopped, StopTimeout, Finish, NotifyReady, Enter, Fetch, Test, Park, SpuriousWake, Guard, Consume, Check, Run, Publish, Dump, Notify, Leave
<1>3. \A m \in Modules : Inputs(m)' = Inputs(m) /\ Outputs(m)' = Outputs(m)
  BY <1>2 DEF Inputs, Outputs
<1>4. (Neighbours /\ Sleepers)'
  <2> USE <1>3 DEF TypeOK, Goto, mainVars, Neighbours, Sleepers
  <2>1. CASE Compile
    BY <2>1 DEF Compile
  <2>2. CASE Start
    BY <2>2 DEF Start
  <2>3. ASSUME NEW m \in Modules, Create(m) PROVE (Neighbours /\ Sleepers)'
    BY <2>3 DEF Create
  <2>4. CASE Stop
    BY <2>4 DEF Stop
  <2>5. ASSUME NEW m \in Modules, NotifyStop(m) PROVE (Neighbours /\ Sleepers)'
    BY <2>5 DEF NotifyStop, Wake
  <2>6. CASE AllStopped
    BY <2>6 DEF AllStopped
  <2>7. CASE StopTimeout
    BY <2>7 DEF StopTimeout
  <2>8. CASE Finish
    BY <2>8 DEF Finish
  <2>9. ASSUME NEW m \in Modules, NotifyReady(m) PROVE (Neighbours /\ Sleepers)'
    BY <2>9 DEF NotifyReady
  <2>10. ASSUME NEW m \in Modules, Enter(m) PROVE (Neighbours /\ Sleepers)'
    BY <2>10 DEF Enter
  <2>11. ASSUME NEW m \in Modules, Fetch(m) PROVE (Neighbours /\ Sleepers)'
    BY <2>11 DEF Fetch
  <2>12. ASSUME NEW m \in Modules, Test(m) PROVE (Neighbours /\ Sleepers)'
    BY <2>12 DEF Test, Ready
  <2>13. ASSUME NEW m \in Modules, Park(m) PROVE (Neighbours /\ Sleepers)'
    BY <2>13 DEF Park
  <2>14. ASSUME NEW m \in Modules, SpuriousWake(m) PROVE (Neighbours /\ Sleepers)'
    BY <2>14 DEF SpuriousWake
  <2>15. ASSUME NEW m \in Modules, Guard(m) PROVE (Neighbours /\ Sleepers)'
    BY <2>15 DEF Guard
  <2>16. ASSUME NEW m \in Modules, NEW p \in Modules, Consume(m, p)
        PROVE  (Neighbours /\ Sleepers)'
    BY <2>16 DEF Consume
  <2>17. ASSUME NEW m \in Modules, Check(m) PROVE (Neighbours /\ Sleepers)'
    BY <2>17 DEF Check
  <2>18. ASSUME NEW m \in Modules, Run(m) PROVE (Neighbours /\ Sleepers)'
    BY <2>18 DEF Run
  <2>19. ASSUME NEW m \in Modules, NEW c \in Modules, Publish(m, c)
        PROVE  (Neighbours /\ Sleepers)'
    BY <2>19 DEF Publish
  <2>20. ASSUME NEW m \in Modules, Dump(m) PROVE (Neighbours /\ Sleepers)'
    BY <2>20 DEF Dump
  <2>21. ASSUME NEW m \in Modules, NEW c \in Modules, Notify(m, c)
        PROVE  (Neighbours /\ Sleepers)'
    BY <2>21 DEF Notify, Wake
  <2>22. ASSUME NEW m \in Modules, Leave(m) PROVE (Neighbours /\ Sleepers)'
    BY <2>22 DEF Leave
  <2>23. CASE UNCHANGED vars
    BY <2>23 DEF vars
  <2> QED
    BY <2>1, <2>2, <2>3, <2>4, <2>5, <2>6, <2>7, <2>8, <2>9, <2>10, <2>11,
       <2>12, <2>13, <2>14, <2>15, <2>16, <2>17, <2>18, <2>19, <2>20, <2>21,
       <2>22, <2>23
       DEF Next, MainStep, ThreadStep
<1>5. Phase'
  <2> USE DEF TypeOK, Goto, mainVars, Phase, Acyclic
  <2>1. CASE Compile
    BY <2>1 DEF Compile
  <2>2. CASE Start
    BY <2>2 DEF Start
  <2>3. ASSUME NEW m \in Modules, Create(m) PROVE Phase'
    BY <2>3 DEF Create
  <2>4. CASE Stop
    BY <2>4 DEF Stop, AllReady
  <2>5. ASSUME NEW m \in Modules, NotifyStop(m) PROVE Phase'
    BY <2>5 DEF NotifyStop, Wake
  <2>6. CASE AllStopped
    BY <2>6 DEF AllStopped
  <2>7. CASE StopTimeout
    BY <2>7 DEF StopTimeout
  <2>8. CASE Finish
    BY <2>8 DEF Finish
  <2>9. ASSUME NEW m \in Modules, NotifyReady(m) PROVE Phase'
    BY <2>9 DEF NotifyReady
  <2>10. ASSUME NEW m \in Modules, Enter(m) PROVE Phase'
    BY <2>10 DEF Enter
  <2>11. ASSUME NEW m \in Modules, Fetch(m) PROVE Phase'
    BY <2>11 DEF Fetch
  <2>12. ASSUME NEW m \in Modules, Test(m) PROVE Phase'
    BY <2>12 DEF Test
  <2>13. ASSUME NEW m \in Modules, Park(m) PROVE Phase'
    BY <2>13 DEF Park
  <2>14. ASSUME NEW m \in Modules, SpuriousWake(m) PROVE Phase'
    BY <2>14 DEF SpuriousWake
  <2>15. ASSUME NEW m \in Modules, Guard(m) PROVE Phase'
    BY <2>15 DEF Guard
  <2>16. ASSUME NEW m \in Modules, NEW p \in Modules, Consume(m, p) PROVE Phase'
    BY <2>16 DEF Consume
  <2>17. ASSUME NEW m \in Modules, Check(m) PROVE Phase'
    BY <2>17 DEF Check
  <2>18. ASSUME NEW m \in Modules, Run(m) PROVE Phase'
    BY <2>18 DEF Run
  <2>19. ASSUME NEW m \in Modules, NEW c \in Modules, Publish(m, c) PROVE Phase'
    BY <2>19 DEF Publish
  <2>20. ASSUME NEW m \in Modules, Dump(m) PROVE Phase'
    BY <2>20 DEF Dump
  <2>21. ASSUME NEW m \in Modules, NEW c \in Modules, Notify(m, c) PROVE Phase'
    BY <2>21 DEF Notify, Wake
  <2>22. ASSUME NEW m \in Modules, Leave(m) PROVE Phase'
    BY <2>22 DEF Leave
  <2>23. CASE UNCHANGED vars
    BY <2>23 DEF vars
  <2> QED
    BY <2>1, <2>2, <2>3, <2>4, <2>5, <2>6, <2>7, <2>8, <2>9, <2>10, <2>11,
       <2>12, <2>13, <2>14, <2>15, <2>16, <2>17, <2>18, <2>19, <2>20, <2>21,
       <2>22, <2>23
       DEF Next, MainStep, ThreadStep
<1>6. (LetThrough /\ FetchFindsData)'
  <2> USE DEF TypeOK, Goto, mainVars, Phase, Neighbours, LetThrough, FetchFindsData, Ready,
              Inputs, Outputs, Async
  <2>1. CASE Compile
    BY <2>1 DEF Compile
  <2>2. CASE Start
    BY <2>2 DEF Start
  <2>3. ASSUME NEW m \in Modules, Create(m) PROVE (LetThrough /\ FetchFindsData)'
    BY <2>3 DEF Create
  <2>4. CASE Stop
    BY <2>4 DEF Stop
  <2>5. ASSUME NEW m \in Modules, NotifyStop(m) PROVE (LetThrough /\ FetchFindsData)'
    BY <2>5 DEF NotifyStop, Wake
  <2>6. CASE AllStopped
    BY <2>6 DEF AllStopped
  <2>7. CASE StopTimeout
    BY <2>7 DEF StopTimeout
  <2>8. CASE Finish
    BY <2>8 DEF Finish
  <2>9. ASSUME NEW m \in Modules, NotifyReady(m) PROVE (LetThrough /\ FetchFindsData)'
    BY <2>9 DEF NotifyReady
  <2>10. ASSUME NEW m \in Modules, Enter(m) PROVE (LetThrough /\ FetchFindsData)'
    BY <2>10 DEF Enter
  <2>11. ASSUME NEW m \in Modules, Fetch(m) PROVE (LetThrough /\ FetchFindsData)'
    BY <2>11 DEF Fetch
  <2>12. ASSUME NEW m \in Modules, Test(m) PROVE (LetThrough /\ FetchFindsData)'
    BY <2>12 DEF Test
  <2>13. ASSUME NEW m \in Modules, Park(m) PROVE (LetThrough /\ FetchFindsData)'
    BY <2>13 DEF Park
  <2>14. ASSUME NEW m \in Modules, SpuriousWake(m) PROVE (LetThrough /\ FetchFindsData)'
    BY <2>14 DEF SpuriousWake
  <2>15. ASSUME NEW m \in Modules, Guard(m) PROVE (LetThrough /\ FetchFindsData)'
    BY <2>15 DEF Guard
  <2>16. ASSUME NEW m \in Modules, NEW p \in Modules, Consume(m, p)
        PROVE  (LetThrough /\ FetchFindsData)'
    BY <2>16 DEF Consume
  <2>17. ASSUME NEW m \in Modules, Check(m) PROVE (LetThrough /\ FetchFindsData)'
    BY <2>17 DEF Check
  <2>18. ASSUME NEW m \in Modules, Run(m) PROVE (LetThrough /\ FetchFindsData)'
    BY <2>18 DEF Run
  <2>19. ASSUME NEW m \in Modules, NEW c \in Modules, Publish(m, c)
        PROVE  (LetThrough /\ FetchFindsData)'
    BY <2>19 DEF Publish
  <2>20. ASSUME NEW m \in Modules, Dump(m) PROVE (LetThrough /\ FetchFindsData)'
    BY <2>20 DEF Dump
  <2>21. ASSUME NEW m \in Modules, NEW c \in Modules, Notify(m, c)
        PROVE  (LetThrough /\ FetchFindsData)'
    BY <2>21 DEF Notify, Wake
  <2>22. ASSUME NEW m \in Modules, Leave(m) PROVE (LetThrough /\ FetchFindsData)'
    BY <2>22 DEF Leave
  <2>23. CASE UNCHANGED vars
    BY <2>23 DEF vars
  <2> QED
    BY <2>1, <2>2, <2>3, <2>4, <2>5, <2>6, <2>7, <2>8, <2>9, <2>10, <2>11,
       <2>12, <2>13, <2>14, <2>15, <2>16, <2>17, <2>18, <2>19, <2>20, <2>21,
       <2>22, <2>23
       DEF Next, MainStep, ThreadStep
<1>7. Count'
  <2>1. IsFiniteSet(Counted)
    BY FS_Subset DEF Counted
  <2>2. ASSUME NEW m \in Modules, Enter(m) PROVE Count'
    <3>1. m \notin Counted /\ Counted' = Counted \cup {m} /\ numRunning' = numRunning + 1
      BY <2>2 DEF Counted, Enter, Goto, TypeOK
    <3> QED
      BY <3>1, <2>1, FS_AddElement DEF Count
  <2>3. ASSUME NEW m \in Modules, Leave(m) PROVE Count'
    <3>1. m \in Counted /\ Counted' = Counted \ {m} /\ numRunning' = numRunning - 1
      BY <2>3 DEF Counted, Leave, Goto, TypeOK
    <3> QED
      BY <3>1, <2>1, FS_RemoveElement DEF Count, TypeOK
  <2>4. CASE ~ \E m \in Modules : Enter(m) \/ Leave(m)
    <3>1. numRunning' = numRunning
      BY <2>4 DEF Next, MainStep, ThreadStep, vars, mainVars,
             Compile, Start, Create, Stop, NotifyStop, AllStopped, StopTimeout,
             Finish, NotifyReady, Fetch, Test, Park, SpuriousWake, Guard,
             Consume, Check, Run, Publish, Dump, Notify
    <3>2. \A m \in Modules : m \in Counted' <=> m \in Counted
      BY <2>4 DEF Next, MainStep, ThreadStep, vars, mainVars, Goto, Wake, TypeOK, Counted, 
             Compile, Start, Create, Stop, NotifyStop, AllStopped, StopTimeout,
             Finish, NotifyReady, Fetch, Test, Park, SpuriousWake, Guard,
             Consume, Check, Run, Publish, Dump, Notify
    <3> QED
      BY <3>1, <3>2 DEF Count, Counted
  <2> QED
    BY <2>2, <2>3, <2>4
<1> QED
  BY <1>1, <1>4, <1>5, <1>6, <1>7

(***************************************************************************)
(* IInv holds in every behaviour of the kernel, and with it the types.     *)
(***************************************************************************)
THEOREM Inductive == Spec => []IInv
<1> QED
  BY InitIInv, NextIInv, PTL DEF Spec

(***************************************************************************)
(* The variables keep their types; in particular messages only ever sit in *)
(* the queues of required inputs.                                          *)
(***************************************************************************)
THEOREM TypeCorrect == Spec => []TypeOK
<1>1. IInv => TypeOK
  BY DEF IInv
<1> QED
  BY <1>1, Inductive, PTL

(***************************************************************************)
(* Until stop() has returned, a thread that fetches finds a message in     *)
(* every required queue it has yet to empty, for any graph.                *)
(***************************************************************************)
THEOREM FetchCorrect == Spec => []FetchFindsData
<1>1. IInv => FetchFindsData
  BY DEF IInv
<1> QED
  BY <1>1, Inductive, PTL

(***************************************************************************)
(* Whatever graph compile() accepts, the modules never all wait for each   *)
(* other: one of them requires nothing, and such a module never sleeps.    *)
(***************************************************************************)
THEOREM NeverAllBlocked == Spec => []NotAllBlocked
<1>1. IInv => NotAllBlocked
  <2> SUFFICES ASSUME IInv, state = "RUNNING_ASYNC", Modules # {}
               PROVE  \E m \in Modules : pc[m] \notin {"parking", "blocked"}
    BY DEF NotAllBlocked
  <2>1. Acyclic(requires)
    BY DEF IInv, Phase, TypeOK, MainLabels
  <2>2. PICK m \in Modules : \A p \in Modules : <<p, m>> \notin requires
    BY <2>1 DEF Acyclic
  <2>3. Inputs(m) = {}
    BY <2>2 DEF Inputs
  <2> QED
    BY <2>3 DEF IInv, Sleepers
<1> QED
  BY <1>1, Inductive, PTL

(***************************************************************************)
(* When stop() reads numRunning = 0 no thread is inside its loop: the      *)
(* counter is the number of threads there, and by then none is unborn.     *)
(***************************************************************************)
THEOREM CleanStopCorrect == Spec => CleanStop
<1>1. IInv /\ [Next]_vars => [StopsClean]_vars
  <2> SUFFICES ASSUME IInv, [Next]_vars,
                      main = "stop", main' = "finish", ~timedOut'
               PROVE  \A m \in Modules : pc[m] \in {"entering", "done"}
    BY DEF StopsClean
  <2>1. numRunning = 0
    BY DEF Next, MainStep, ThreadStep, vars, mainVars,
           Compile, Start, Create, Stop, NotifyStop, AllStopped, StopTimeout,
           Finish, NotifyReady, Enter, Fetch, Test, Park, SpuriousWake, Guard,
           Consume, Check, Run, Publish, Dump, Notify, Leave
  <2>2. Counted = {}
    <3>1. IsFiniteSet(Counted)
      BY ModulesAssumption, FS_Subset DEF Counted
    <3> QED
      BY <2>1, <3>1, FS_EmptySet DEF IInv, Count
  <2>3. \A m \in Modules : pc[m] \notin {"none", "spawned"}
    BY DEF IInv, Phase
  <2> QED
    BY <2>2, <2>3 DEF Counted
<1> QED
  BY <1>1, Inductive, PTL DEF CleanStop, Spec

-----------------------------------------------------------------------------
(***************************************************************************)
(* The search by which resolve() decides what Compile admits: it has       *)
(* variables of its own, and the modules and the graphs of the kernel.     *)
(***************************************************************************)
LEMMA SearchStarts == SearchInit => SearchIInv
<1> SUFFICES ASSUME SearchInit PROVE SearchIInv
  OBVIOUS
<1>1. SearchTypeOK
  BY GraphsAssumption DEF SearchInit, SearchTypeOK
<1>2. path = <<>> /\ Len(path) = 0 /\ 1 .. Len(path) = {}
  BY DEF SearchInit
<1>3. OnPath /\ Children
  BY <1>2 DEF SearchInit, OnPath, Children
<1>4. Passed
  BY <1>2 DEF SearchInit, Passed
<1>5. FinishedAcyclic
  <2>1. finished = {} /\ (SUBSET {}) \ {{}} = {}
    BY DEF SearchInit
  <2> QED
    BY <2>1 DEF FinishedAcyclic
<1>6. Looked
  BY DEF SearchInit, Looked
<1> QED
  BY <1>1, <1>3, <1>4, <1>5, <1>6 DEF SearchIInv, SearchInit

\* What Append and SubSeq do to the path.
LEMMA Longer ==
  ASSUME SearchTypeOK, NEW c \in Modules, path' = Append(path, c)
  PROVE  /\ path' \in Seq(Modules) /\ Len(path') = Len(path) + 1 /\ Len(path) \in Nat
         /\ \A i \in 1 .. Len(path) : path'[i] = path[i]
         /\ path'[Len(path) + 1] = c
BY DEF SearchTypeOK

LEMMA Shorter ==
  ASSUME SearchTypeOK, path # <<>>, path' = SubSeq(path, 1, Len(path) - 1)
  PROVE  /\ path' \in Seq(Modules) /\ Len(path') = Len(path) - 1 /\ Len(path) \in Nat \ {0}
         /\ \A i \in 1 .. Len(path) - 1 : path'[i] = path[i]
<1>1. path \in Seq(Modules) /\ Len(path) \in Nat \ {0}
  BY DEF SearchTypeOK
<1> DEFINE n == Len(path) - 1
<1>2. n \in Nat /\ \A k \in 1 .. n : path[k] \in Modules
  BY <1>1
<1> HIDE DEF n
<1>3. /\ SubSeq(path, 1, n) \in Seq(Modules)
      /\ Len(SubSeq(path, 1, n)) = IF 1 <= n THEN n - 1 + 1 ELSE 0
      /\ \A i \in 1 .. n - 1 + 1 : SubSeq(path, 1, n)[i] = path[1 + i - 1]
  BY <1>2, SubSeqProperties
<1>4. Len(path') = n
  <2>1. path' = SubSeq(path, 1, n)
    BY DEF n
  <2>2. n = IF 1 <= n THEN n - 1 + 1 ELSE 0
    BY <1>2
  <2> QED
    BY <2>1, <2>2, <1>3
<1> USE DEF n
<1>5. \A i \in 1 .. Len(path) - 1 : path'[i] = path[i]
  <2> TAKE i \in 1 .. Len(path) - 1
  <2>1. i \in 1 .. n - 1 + 1 /\ 1 + i - 1 = i
    BY <1>1
  <2> QED
    BY <1>3, <2>1
<1> QED
  BY <1>1, <1>3, <1>4, <1>5

LEMMA Innermost ==
  ASSUME SearchTypeOK, path # <<>>
  PROVE  Len(path) \in Nat \ {0} /\ Len(path) \in 1 .. Len(path) /\ id \in Modules
BY DEF SearchTypeOK, id

\* Paths: the empty one, and one that goes on by an edge.
LEMMA ReachesItself == \A g, m : Reaches(g, m, m)
BY DEF Reaches

LEMMA ReachesNext ==
  ASSUME NEW g, NEW m, NEW n, NEW k, Reaches(g, m, n), <<n, k>> \in g
  PROVE  Reaches(g, m, k)
BY DEF Reaches

\* And one that begins with an edge.
LEMMA ReachesFromNext ==
  ASSUME NEW g, NEW m, NEW n, NEW k, Reaches(g, m, n), <<k, m>> \in g
  PROVE  Reaches(g, k, n)
BY DEF Reaches

\* Each module that is reached, but the first, is required by another one.
LEMMA ReachedFrom ==
  ASSUME NEW g \in SUBSET (Modules \X Modules), NEW m \in Modules, NEW n \in Modules,
         Reaches(g, m, n), n # m
  PROVE  \E k \in Modules : Reaches(g, m, k) /\ <<k, n>> \in g
<1> SUFFICES ASSUME \A k \in Modules : Reaches(g, m, k) => <<k, n>> \notin g
             PROVE  FALSE
  OBVIOUS
<1> DEFINE S == {k \in Modules : Reaches(g, m, k)} \ {n}
<1>1. S \in SUBSET Modules /\ m \in S /\ n \notin S
  BY ReachesItself
<1>2. ASSUME NEW e \in g, e[1] \in S PROVE e[2] \in S
  <2>1. e = <<e[1], e[2]>> /\ e[2] \in Modules
    OBVIOUS
  <2>2. Reaches(g, m, e[2])
    BY <1>2, <2>1, ReachesNext
  <2>3. e[2] # n
    BY <1>2, <2>1
  <2> QED
    BY <2>1, <2>2, <2>3
<1> QED
  BY <1>1, <1>2 DEF Reaches

\* The modules between the two ends of a closed path all wait for each other.
LEMMA CircleIsNotAcyclic ==
  ASSUME NEW g \in SUBSET (Modules \X Modules), NEW m, NEW n,
         <<n, m>> \in g, Reaches(g, m, n)
  PROVE  ~Acyclic(g)
<1> DEFINE S == {k \in Modules : Reaches(g, m, k) /\ Reaches(g, k, n)}
<1>1. m \in Modules /\ n \in Modules
  OBVIOUS
<1>2. m \in S /\ n \in S
  BY <1>1, ReachesItself
<1>3. ASSUME NEW k \in S PROVE \E p \in S : <<p, k>> \in g
  <2>1. CASE k = m
    BY <1>2, <2>1
  <2>2. CASE k # m
    <3>1. PICK p \in Modules : Reaches(g, m, p) /\ <<p, k>> \in g
      BY <1>1, <2>2, ReachedFrom
    <3>2. Reaches(g, p, n)
      BY <3>1, ReachesFromNext
    <3> QED
      BY <3>1, <3>2
  <2> QED
    BY <2>1, <2>2
<1>4. S \in (SUBSET Modules) \ {{}}
  BY <1>2
<1> HIDE DEF S
<1> QED
  BY <1>3, <1>4 DEF Acyclic

\* The child in hand closes a circle with the part of the path behind it.
LEMMA BackEdgeCircle ==
  ASSUME SearchIInv, NEW c \in Modules, BackEdge(c)
  PROVE  Circle(<<c, id>>)
<1>1. PICK i \in 1 .. Len(path) : path[i] = c
  BY DEF SearchIInv, OnPath, BackEdge
<1>2. Len(path) \in 1 .. Len(path) /\ i <= Len(path) /\ id = path[Len(path)]
  BY Innermost DEF SearchIInv, BackEdge, id
<1>3. Reaches(graph, c, id)
  BY <1>1, <1>2 DEF SearchIInv, OnPath
<1>4. <<id, c>> \in graph
  BY <1>2 DEF SearchIInv, Children, RequiredBy, BackEdge
<1> QED
  BY <1>3, <1>4 DEF Circle

LEMMA SearchSteps == SearchIInv /\ [SearchNext]_searchVars => SearchIInv'
<1> SUFFICES ASSUME SearchIInv, [SearchNext]_searchVars PROVE SearchIInv'
  OBVIOUS
<1> USE DEF SearchIInv
<1>0. \A d : UNCHANGED graph /\ Circle(d) => Circle(d)'
  BY DEF Circle
<1>1. ASSUME NEW m \in Modules, SkipRoot(m) PROVE SearchIInv'
  <2>1. SearchTypeOK' /\ OnPath' /\ Children' /\ Looked'
    BY <1>1
    DEF SkipRoot, SearchTypeOK, OnPath, Children, Looked, RequiredBy
  <2>2. Passed' /\ FinishedAcyclic'
    BY <1>1 DEF SkipRoot, Passed, FinishedAcyclic, RequiredBy
  <2> QED
    BY <2>1, <2>2, <1>1, <1>0 DEF SkipRoot
<1>2. ASSUME NEW m \in Modules, NextRoot(m) PROVE SearchIInv'
  <2>1. SearchTypeOK'
    BY <1>2 DEF NextRoot, SearchTypeOK, RequiredBy
  <2>2. /\ path = <<>> /\ path' = <<m>> /\ cycle = {} /\ visited = {}
        /\ Len(path') = 1 /\ path'[1] = m /\ visited' = {m} /\ children'[m] = RequiredBy(m)
        /\ m \notin finished
    BY <1>2 DEF NextRoot, Looked, OnPath, SearchTypeOK
  <2>3. OnPath'
    <3>1. \A i \in 1 .. Len(path') : path'[i] = m
      BY <2>2
    <3>2. \A i, j \in 1 .. Len(path') : Reaches(graph, path[i], path[j])'
      BY <3>1, ReachesItself
    <3>3. visited' \cap finished' = {}
      BY <1>2, <2>2 DEF NextRoot
    <3>4. Len(path') = 1 /\ visited' = {path'[i] : i \in 1 .. Len(path')}
      BY <2>2, <3>1
    <3> QED
      BY <3>2, <3>3, <3>4 DEF OnPath
  <2>5. Children' /\ Looked'
    BY <1>2, <2>2
    DEF NextRoot, Children, Looked, RequiredBy
  <2>4. Passed' /\ FinishedAcyclic'
    BY <1>2, <2>2
    DEF NextRoot, Passed, FinishedAcyclic, RequiredBy
  <2> QED
    BY <2>1, <2>3, <2>4, <2>5, <1>0, <1>2 DEF NextRoot
<1>3. ASSUME NEW c \in Modules, BackEdge(c) PROVE SearchIInv'
  <2>1. SearchTypeOK'
    BY <1>3, Innermost DEF BackEdge, SearchTypeOK
  <2>2. OnPath' /\ Children' /\ Looked'
    BY <1>3
    DEF BackEdge, OnPath, Children, Looked, RequiredBy
  <2>3. Passed' /\ FinishedAcyclic'
    BY <1>3 DEF BackEdge, Passed, FinishedAcyclic
  <2>4. \A d \in cycle' \cup circularDeps' : Circle(d)'
    BY <1>3, <1>0, BackEdgeCircle DEF BackEdge
  <2> QED
    BY <2>1, <2>2, <2>3, <2>4
<1>4. ASSUME NEW c \in Modules, Descend(c) PROVE SearchIInv'
  <2> DEFINE n == Len(path)
  <2>1. /\ path' \in Seq(Modules) /\ Len(path') = n + 1 /\ n \in Nat \ {0}
        /\ \A i \in 1 .. n : path'[i] = path[i]
        /\ path'[n + 1] = c /\ id = path[n] /\ id \in Modules
    BY <1>4, Longer, Innermost DEF Descend, id
  <2>2. \A i \in 1 .. n : path[i] # c
    BY <1>4 DEF Descend, OnPath
  <2>3. /\ children'[c] = RequiredBy(c) /\ children'[id] = children[id] \ {c}
        /\ \A m \in Modules \ {id, c} : children'[m] = children[m]
        /\ children' \in [Modules -> SUBSET Modules]
    BY <1>4, <2>1, <2>2 DEF Descend, SearchTypeOK, RequiredBy
  <2>4. \A i \in 1 .. n : path[i] \in Modules /\ (i # n => path[i] # id)
    BY <2>1 DEF SearchTypeOK, OnPath
  <2>5. <<id, c>> \in graph
    BY <1>4, <2>1 DEF Descend, Children, RequiredBy
  <2>6. SearchTypeOK'
    BY <1>4, <2>1, <2>3 DEF Descend, SearchTypeOK
  <2>7. OnPath'
    <3>1. visited' = {path'[i] : i \in 1 .. Len(path')}
      BY <1>4, <2>1 DEF Descend, OnPath
    <3>2. ASSUME NEW i \in 1 .. Len(path') - 1 PROVE <<path'[i], path'[i + 1]>> \in graph'
      <4>1. CASE i = n
        <5>1. path'[i] = id /\ path'[i + 1] = c
          BY <2>1, <4>1
        <5>2. graph' = graph
          BY <1>4 DEF Descend
        <5> QED
          BY <2>5, <5>1, <5>2
      <4>2. CASE i # n
        <5>1. i \in 1 .. n - 1 /\ i \in 1 .. n /\ i + 1 \in 1 .. n
          BY <2>1, <4>2
        <5> QED
          BY <1>4, <2>1, <5>1 DEF Descend, OnPath
      <4> QED
        BY <4>1, <4>2
    <3>3. \A i, j \in 1 .. Len(path') : path'[i] = path'[j] => i = j
      BY <2>1, <2>2 DEF OnPath
    <3>4. ASSUME NEW i \in 1 .. Len(path'), NEW j \in 1 .. Len(path'), i <= j
          PROVE  Reaches(graph, path'[i], path'[j])
      <4>1. CASE j = n + 1 /\ i = n + 1
        BY <4>1, ReachesItself
      <4>2. CASE j = n + 1 /\ i # n + 1
        <5>1. i \in 1 .. n /\ n \in 1 .. n /\ i <= n
          BY <4>2, <2>1
        <5>2. Reaches(graph, path[i], path[n])
          BY <5>1 DEF OnPath
        <5> QED
          BY <4>2, <5>1, <5>2, <2>1, <2>5, ReachesNext
      <4>3. CASE j # n + 1
        <5>1. i \in 1 .. n /\ j \in 1 .. n
          BY <4>3, <3>4, <2>1
        <5> QED
          BY <3>4, <5>1, <2>1 DEF OnPath
      <4> QED
        BY <4>1, <4>2, <4>3
    <3>5. UNCHANGED graph /\ visited' \cap finished' = {}
      BY <1>4 DEF Descend, OnPath
    <3>6. \A i, j \in 1 .. Len(path') : i <= j => Reaches(graph, path[i], path[j])'
      BY <3>4, <3>5
    <3> QED
      BY <3>1, <3>2, <3>3, <3>5, <3>6 DEF OnPath
  <2>8. Children'
    BY <1>4, <2>1, <2>2, <2>3, <2>4 DEF Descend, Children, RequiredBy
  <2>9. Passed'
    <3> SUFFICES ASSUME circularDeps = {}, cycle = {}
                 PROVE  \A i \in 1 .. n + 1 :
                          RequiredBy(path'[i]) \subseteq finished \cup children'[path'[i]]
                            \cup (IF i < n + 1 THEN {path'[i + 1]} ELSE {})
      <4>1. circularDeps = {} /\ cycle = {} =>
              \A m \in finished : RequiredBy(m) \subseteq finished
        BY DEF Passed
      <4>2. /\ UNCHANGED <<graph, finished, cycle, circularDeps>>
            /\ \A m : RequiredBy(m)' = RequiredBy(m)
        BY <1>4 DEF Descend, RequiredBy
      <4> QED
        BY <4>1, <4>2, <2>1 DEF Passed
    <3>1. CASE n \in Nat
      <4> TAKE i \in 1 .. n + 1
      <4>1. CASE i = n + 1
        BY <4>1, <2>1, <2>3
      <4>2. CASE i = n
        BY <4>2, <2>1, <2>3 DEF Passed
      <4>3. CASE i \in 1 .. n - 1
        <5>1. path[i] # id /\ path[i] # c /\ path[i] \in Modules
          BY <4>3, <2>1, <2>2, <2>4
        <5>2. RequiredBy(path[i]) \subseteq finished \cup children[path[i]] \cup {path[i + 1]}
          BY <4>3, <2>1 DEF Passed
        <5> QED
          BY <4>3, <5>1, <5>2, <2>1, <2>3
      <4> QED
        BY <4>1, <4>2, <4>3, <2>1
    <3> QED
      BY <3>1, <2>1
  <2>10. FinishedAcyclic' /\ Looked'
    BY <1>4, <2>1 DEF Descend, FinishedAcyclic, Looked
  <2> QED
    BY <1>4, <1>0, <2>6, <2>7, <2>8, <2>9, <2>10 DEF Descend
<1>5. ASSUME NEW c \in Modules, PassFinished(c) PROVE SearchIInv'
  <2>1. /\ Len(path) \in Nat \ {0} /\ id = path[Len(path)] /\ id \in Modules
        /\ c \in finished
    BY <1>5, Innermost DEF PassFinished, id
  <2>2. /\ children'[id] = children[id] \ {c}
        /\ \A m \in Modules \ {id} : children'[m] = children[m]
        /\ children' \in [Modules -> SUBSET Modules]
    BY <1>5, <2>1 DEF PassFinished, SearchTypeOK
  <2>3. \A i \in 1 .. Len(path) : path[i] \in Modules
    BY DEF SearchTypeOK
  <2>4. SearchTypeOK' /\ OnPath'
    BY <1>5, <2>2 DEF PassFinished, SearchTypeOK, OnPath
  <2>7. FinishedAcyclic' /\ Looked'
    BY <1>5 DEF PassFinished, FinishedAcyclic, Looked
  <2>5. Children'
    BY <1>5, <2>1, <2>2, <2>3 DEF PassFinished, Children, RequiredBy
  <2>6. Passed'
    BY <1>5, <2>1, <2>2, <2>3 DEF PassFinished, Passed, RequiredBy
  <2> QED
    BY <1>5, <1>0, <2>4, <2>5, <2>6, <2>7 DEF PassFinished
<1>6. CASE Return
  <2> DEFINE n == Len(path)
  <2>1. /\ path' \in Seq(Modules) /\ Len(path') = n - 1 /\ n \in Nat \ {0}
        /\ \A i \in 1 .. n - 1 : path'[i] = path[i]
        /\ id = path[n] /\ id \in Modules
    BY <1>6, Shorter, Innermost DEF Return, id
  <2>2. \A i \in 1 .. n - 1 : path[i] # id
    BY <2>1 DEF OnPath
  <2>3. SearchTypeOK'
    BY <1>6, <2>1 DEF Return, SearchTypeOK
  <2>4. OnPath'
    <3>1. visited' = {path'[i] : i \in 1 .. Len(path')}
      BY <1>6, <2>1, <2>2 DEF Return, OnPath
    <3> QED
      BY <1>6, <3>1, <2>1 DEF Return, OnPath
  <2>5. Children' /\ Looked'
    <3>1. Children'
      BY <1>6, <2>1 DEF Return, Children, RequiredBy
    <3>2. Modules \subseteq roots' \cup visited' \cup finished'
      BY <1>6 DEF Return, Looked
    <3>3. path' = <<>> => Len(path) = 1
      BY <2>1
    <3>4. path' = <<>> => cycle' = {}
      BY <1>6, <3>3 DEF Return
    <3> QED
      BY <3>1, <3>2, <3>4 DEF Looked
  <2>6. circularDeps' = {} /\ cycle' = {} => circularDeps = {} /\ cycle = {} /\ children[id] = {}
    BY <1>6 DEF Return
  <2>7. circularDeps = {} /\ cycle = {} /\ children[id] = {}
           => RequiredBy(id) \subseteq finished
    BY <2>1 DEF Passed
  <2>8. Passed'
    <3> SUFFICES ASSUME circularDeps = {}, cycle = {}, children[id] = {}
                 PROVE  /\ \A m \in finished' : RequiredBy(m) \subseteq finished'
                        /\ \A i \in 1 .. n - 1 :
                             RequiredBy(path[i]) \subseteq
                               finished' \cup children[path[i]]
                                 \cup (IF i < n - 1 THEN {path[i + 1]} ELSE {})
      BY <1>6, <2>1, <2>6 DEF Return, Passed, RequiredBy
    <3>1. \A m \in finished' : RequiredBy(m) \subseteq finished'
      BY <1>6, <2>7 DEF Return, Passed
    <3>2. \A i \in 1 .. n - 1 : RequiredBy(path[i]) \subseteq
                                  finished \cup children[path[i]] \cup {path[i + 1]}
      BY <2>1 DEF Passed
    <3>3. \A i \in 1 .. n - 1 : i < n - 1 \/ path[i + 1] = id
      BY <2>1
    <3> QED
      BY <1>6, <3>1, <3>2, <3>3 DEF Return
  <2>9. FinishedAcyclic'
    <3> SUFFICES ASSUME circularDeps = {}, cycle = {}, children[id] = {},
                        NEW S \in (SUBSET finished') \ {{}}
                 PROVE  \E m \in S : \A p \in S : <<p, m>> \notin graph
      BY <1>6, <2>6 DEF Return, FinishedAcyclic
    <3>1. CASE id \notin S
      BY <1>6, <3>1 DEF Return, FinishedAcyclic
    <3>2. CASE id \in S
      <4>1. id \notin finished
        BY <2>1 DEF OnPath
      <4>2. \A p \in finished \cup {id} : <<p, id>> \notin graph
        BY <4>1, <2>1, <2>7 DEF Passed, RequiredBy
      <4> QED
        BY <1>6, <3>2, <4>2 DEF Return
    <3> QED
      BY <3>1, <3>2
  <2>10. \A d \in cycle' \cup circularDeps' : Circle(d)'
    BY <1>6, <1>0 DEF Return
  <2> QED
    BY <2>3, <2>4, <2>5, <2>8, <2>9, <2>10
<1>7. CASE UNCHANGED searchVars
  <2>1. SearchTypeOK' /\ OnPath' /\ Children' /\ Looked'
    BY <1>7
    DEF searchVars, SearchTypeOK, OnPath, Children, Looked, RequiredBy
  <2>2. Passed' /\ FinishedAcyclic'
    BY <1>7 DEF searchVars, Passed, FinishedAcyclic, RequiredBy
  <2> QED
    BY <2>1, <2>2, <1>0, <1>7 DEF searchVars
<1> QED
  BY <1>1, <1>2, <1>3, <1>4, <1>5, <1>6, <1>7 DEF SearchNext

THEOREM SearchInductive == SearchSpec => []SearchIInv
BY SearchStarts, SearchSteps, PTL DEF SearchSpec

\* The types of the search's variables, for any finite set of modules.
THEOREM SearchTypeCorrect == SearchSpec => []SearchTypeOK
BY SearchInductive, PTL DEF SearchIInv

\* Nothing found means nothing there: resolve() lets no circular graph run.
THEOREM NothingOverlookedCorrect == SearchSpec => []NothingOverlooked
<1>1. SearchIInv => NothingOverlooked
  <2> SUFFICES ASSUME SearchIInv, Done, circularDeps = {} PROVE Acyclic(graph)
    BY DEF NothingOverlooked
  <2>1. visited = {} /\ cycle = {}
    BY DEF SearchIInv, OnPath, Looked, Done
  <2>2. finished = Modules
    BY <2>1 DEF SearchIInv, Looked, Done, SearchTypeOK
  <2> QED
    BY <2>1, <2>2 DEF SearchIInv, FinishedAcyclic, Acyclic
<1> QED
  BY <1>1, SearchInductive, PTL

\* What is reported is there: resolve() refuses no graph without a circle.
THEOREM OnlyRealCyclesCorrect == SearchSpec => []OnlyRealCycles
<1>1. SearchIInv => OnlyRealCycles
  BY DEF SearchIInv, OnlyRealCycles
<1> QED
  BY <1>1, SearchInductive, PTL

\* resolve() admits a graph iff Compile does: the search ends without a cycle
\* iff no modules of the graph wait for each other.
THEOREM SearchDecides ==
  SearchSpec => [](Done => (circularDeps = {} <=> Acyclic(graph)))
<1>1. SearchTypeOK /\ NothingOverlooked /\ OnlyRealCycles => (Done => (circularDeps = {} <=> Acyclic(graph)))
  <2>1. ASSUME SearchTypeOK, OnlyRealCycles, NEW d \in circularDeps PROVE ~Acyclic(graph)
    <3>1. graph \in SUBSET (Modules \X Modules)
      BY <2>1, GraphsAssumption DEF SearchTypeOK
    <3>2. <<d[2], d[1]>> \in graph /\ Reaches(graph, d[1], d[2])
      BY <2>1 DEF OnlyRealCycles, Circle
    <3> QED
      BY <3>1, <3>2, CircleIsNotAcyclic
  <2> QED
    BY <2>1 DEF NothingOverlooked
<1> QED
  BY <1>1, SearchTypeCorrect, NothingOverlookedCorrect, OnlyRealCyclesCorrect, PTL

=============================================================================

-------------------------- MODULE DepthFirstSearch --------------------------
(***************************************************************************)
(* DepthFirstSearch::findCycles (framework/rt/util/depth_first_search.cpp) *)
(* by which Kernel::resolve() refuses circular dependencies. The recursion *)
(* of visit() is kept as the path of modules whose visit() has not ended.  *)
(* The search gives up the whole path when it meets a cycle and marks its  *)
(* modules finished although some of their children have not been seen.    *)
(***************************************************************************)
EXTENDS ModuleGraph, Sequences

VARIABLES
  graph,        \* <<m, c>> is in it iff c is in m's requiredBy
  roots,        \* the modules findCycles() has yet to look at
  visited,      \* moduleVisited
  finished,     \* moduleFinished
  path,         \* the modules being visited, outermost first
  children,     \* the children the loop of each module's visit() has yet to see
  cycle,        \* the cycle visit() is returning, as a set of at most one pair
  circularDeps  \* the cycles found

searchVars == <<graph, roots, visited, finished, path, children, cycle, circularDeps>>

RequiredBy(m) == {c \in Modules : <<m, c>> \in graph}

id == path[Len(path)]

SearchTypeOK ==
  /\ graph \in Graphs
  /\ roots \subseteq Modules /\ visited \subseteq Modules /\ finished \subseteq Modules
  /\ path \in Seq(Modules)
  /\ children \in [Modules -> SUBSET Modules]
  /\ cycle \subseteq Modules \X Modules /\ circularDeps \subseteq Modules \X Modules

SearchInit ==
  /\ graph \in Graphs
  /\ roots = Modules
  /\ visited = {} /\ finished = {}
  /\ path = <<>>
  /\ children = [m \in Modules |-> {}]
  /\ cycle = {} /\ circularDeps = {}

-----------------------------------------------------------------------------
(* Faults: what some of the definitions would be if the code were wrong,   *)
(* kept to show that the properties below notice.                          *)

BackEdgeUnpaired(c) ==
  /\ path # <<>> /\ cycle = {} /\ c \in children[id] /\ c \in visited
  /\ cycle' = {c}
  /\ UNCHANGED <<graph, roots, visited, finished, path, children, circularDeps>>

ReturnStillVisited ==
  /\ path # <<>> /\ (children[id] = {} \/ cycle # {})
  /\ finished' = finished \cup {id}
  /\ path' = SubSeq(path, 1, Len(path) - 1)
  /\ circularDeps' = IF Len(path) = 1 THEN circularDeps \cup cycle ELSE circularDeps
  /\ cycle' = IF Len(path) = 1 THEN {} ELSE cycle
  /\ UNCHANGED <<graph, roots, visited, children>>

PassFinishedVisited(c) ==
  /\ path # <<>> /\ cycle = {} /\ c \in children[id] /\ c \in visited \cup finished
  /\ children' = [children EXCEPT ![id] = @ \ {c}]
  /\ UNCHANGED <<graph, roots, visited, finished, path, cycle, circularDeps>>

-----------------------------------------------------------------------------
(* findCycles() looks at the modules one after the other.                  *)

SkipRoot(m) ==
  /\ path = <<>> /\ m \in roots \cap finished
  /\ roots' = roots \ {m}
  /\ UNCHANGED <<graph, visited, finished, path, children, cycle, circularDeps>>

NextRoot(m) ==
  /\ path = <<>> /\ m \in roots \ finished
  /\ roots' = roots \ {m}
  /\ visited' = visited \cup {m} /\ path' = <<m>>
  /\ children' = [children EXCEPT ![m] = RequiredBy(m)]
  /\ UNCHANGED <<graph, finished, cycle, circularDeps>>

(* visit(id) looks at the children of id one after the other.              *)

BackEdge(c) ==
  /\ path # <<>> /\ cycle = {} /\ c \in children[id] /\ c \in visited
  /\ cycle' = {<<c, id>>}
  /\ UNCHANGED <<graph, roots, visited, finished, path, children, circularDeps>>

Descend(c) ==
  /\ path # <<>> /\ cycle = {} /\ c \in children[id] /\ c \notin visited \cup finished
  /\ visited' = visited \cup {c} /\ path' = Append(path, c)
  /\ children' = [children EXCEPT ![id] = @ \ {c}, ![c] = RequiredBy(c)]
  /\ UNCHANGED <<graph, roots, finished, cycle, circularDeps>>

PassFinished(c) ==
  /\ path # <<>> /\ cycle = {} /\ c \in children[id] /\ c \in finished \ visited
  /\ children' = [children EXCEPT ![id] = @ \ {c}]
  /\ UNCHANGED <<graph, roots, visited, finished, path, cycle, circularDeps>>

\* The loop is over or was left with a cycle, which the caller passes on.
Return ==
  /\ path # <<>> /\ (children[id] = {} \/ cycle # {})
  /\ visited' = visited \ {id} /\ finished' = finished \cup {id}
  /\ path' = SubSeq(path, 1, Len(path) - 1)
  /\ circularDeps' = IF Len(path) = 1 THEN circularDeps \cup cycle ELSE circularDeps
  /\ cycle' = IF Len(path) = 1 THEN {} ELSE cycle
  /\ UNCHANGED <<graph, roots, children>>

Done == path = <<>> /\ roots = {}

SearchNext ==
  \/ \E m \in Modules : \/ SkipRoot(m) \/ NextRoot(m)
                        \/ BackEdge(m) \/ Descend(m) \/ PassFinished(m)
  \/ Return

SearchSpec == SearchInit /\ [][SearchNext]_searchVars

-----------------------------------------------------------------------------
\* The back edge of the pair closes a path.
Circle(d) == <<d[2], d[1]>> \in graph /\ Reaches(graph, d[1], d[2])

(***************************************************************************)
(* A search that finds nothing has shown that nothing is there, though it  *)
(* looks at each module once only.                                         *)
(***************************************************************************)
NothingOverlooked == Done /\ circularDeps = {} => Acyclic(graph)

(***************************************************************************)
(* Each reported pair is an edge that closes a circle of the graph, also   *)
(* the one met on a path that is given up while other children are waiting.*)
(***************************************************************************)
OnlyRealCycles == \A d \in circularDeps : Circle(d)

-----------------------------------------------------------------------------
(* The inductive invariant (KernelProofs).                                 *)

\* The path is a path of the graph through the visited modules.
OnPath ==
  /\ visited = {path[i] : i \in 1 .. Len(path)}
  /\ \A i \in 1 .. Len(path) - 1 : <<path[i], path[i + 1]>> \in graph
  /\ \A i, j \in 1 .. Len(path) : i <= j => Reaches(graph, path[i], path[j])
  /\ \A i, j \in 1 .. Len(path) : path[i] = path[j] => i = j
  /\ visited \cap finished = {}

\* Without a cycle so far, what the visits have passed is finished or ahead.
Passed ==
  circularDeps = {} /\ cycle = {} =>
    /\ \A m \in finished : RequiredBy(m) \subseteq finished
    /\ \A i \in 1 .. Len(path) :
         RequiredBy(path[i]) \subseteq
           finished \cup children[path[i]] \cup (IF i < Len(path) THEN {path[i + 1]} ELSE {})

\* The finished modules are free of cycles.
FinishedAcyclic ==
  circularDeps = {} /\ cycle = {} =>
    \A S \in (SUBSET finished) \ {{}} : \E m \in S : \A p \in S : <<p, m>> \notin graph

\* What the loops have left to see are children, and a child is seen or not.
Children == \A i \in 1 .. Len(path) : children[path[i]] \subseteq RequiredBy(path[i])

\* A module is a root still, is being visited or is finished.
Looked ==
  /\ Modules \subseteq roots \cup visited \cup finished
  /\ path = <<>> => cycle = {}

SearchIInv ==
  /\ SearchTypeOK /\ OnPath /\ Children /\ Passed /\ FinishedAcyclic /\ Looked
  /\ \A d \in cycle \cup circularDeps : Circle(d)

=============================================================================

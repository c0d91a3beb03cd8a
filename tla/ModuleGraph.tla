---------------------------- MODULE ModuleGraph -----------------------------
(***************************************************************************)
(* The graph of the kernel's modules (framework/rt/meta.cpp) and what the  *)
(* kernel demands of it.                                                   *)
(***************************************************************************)
EXTENDS Integers, FiniteSets

CONSTANTS
  Modules,  \* the modules that have a thread of their own
  Graphs    \* the graphs to look at: each a set of <<producer, consumer>>

ASSUME ModulesAssumption == IsFiniteSet(Modules)
ASSUME GraphsAssumption == Graphs \subseteq SUBSET (Modules \X Modules)

(* Fault: a search that only looks for modules which require their own     *)
(* message, kept to show that the properties of Kernel notice.             *)
AcyclicSelf(g) == \A m \in Modules : <<m, m>> \notin g

\* No set of modules in which each waits for another of the set.
Acyclic(g) == \A S \in (SUBSET Modules) \ {{}} :
                \E m \in S : \A p \in S : <<p, m>> \notin g

\* There is a path from m to n, if only the empty one: whatever has m, and with
\* each module those that require its messages, has n.
Reaches(g, m, n) ==
  \A S \in SUBSET Modules : m \in S /\ (\A e \in g : e[1] \in S => e[2] \in S) => n \in S

=============================================================================

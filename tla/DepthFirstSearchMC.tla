------------------------ MODULE DepthFirstSearchMC --------------------------
(* Instances of DepthFirstSearch for TLC. *)
EXTENDS DepthFirstSearch, TLC

AllGraphs == SUBSET (Modules \X Modules)

\* No module requires its own message.
LooplessGraphs == {g \in AllGraphs : \A m \in Modules : <<m, m>> \notin g}

Permuted == Permutations(Modules)

=============================================================================

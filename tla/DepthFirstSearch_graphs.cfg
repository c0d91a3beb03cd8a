SPECIFICATION SearchSpec
CONSTANTS
  Modules = {m1, m2, m3, m4}
  Graphs <- LooplessGraphs
SYMMETRY Permuted
INVARIANTS SearchTypeOK NothingOverlooked OnlyRealCycles
CHECK_DEADLOCK FALSE

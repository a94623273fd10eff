----------------------------- MODULE MCParallelSaga -----------------------------
\* Model checking of ParallelSaga: every dependency graph over three steps, those
\* with a cycle included, and one with a dependency on an id that is no step.
EXTENDS ParallelSaga

Steps == {"a", "b", "c"}
AllGraphs == [Steps -> SUBSET Steps]
UnknownId == [s \in Steps |-> IF s = "a" THEN {"unknown"} ELSE {"a", "unknown"}]
ManyGraphs == AllGraphs \cup {UnknownId}
================================================================================

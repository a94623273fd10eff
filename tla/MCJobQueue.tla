------------------------------- MODULE MCJobQueue -------------------------------
\* Model checking of JobQueue: the workers are interchangeable.
EXTENDS JobQueue, TLC
WorkerSymmetry == Permutations(Worker)
================================================================================

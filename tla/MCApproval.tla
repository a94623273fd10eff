------------------------------- MODULE MCApproval -------------------------------
\* Model checking of Approval: any of two people, then both of two; and both of two
\* alone, for what a counter-sign promises.
EXTENDS Approval, TLC

TwoThenTwo == <<2, 2>>
AnyThenBoth == <<"or_sign", "and_sign">>
JustTwo == <<2>>
JustBoth == <<"and_sign">>
Symmetry == Permutations(TaskId) \cup Permutations(Caller)
================================================================================

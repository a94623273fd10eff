------------------------------ MODULE ParallelSaga ------------------------------
(***************************************************************************)
(* One transaction of ParallelSaga (sz-rust-distributed-tx,                *)
(* parallel_saga.rs): the steps are put into layers by their dependencies, *)
(* a layer runs concurrently, and when one of its steps fails everything   *)
(* that was completed is compensated, later layers first.                  *)
(*                                                                         *)
(* Participants are those of Saga: what one keeps is the net effect of the *)
(* calls it has carried out, a call and its answer are separate steps, and *)
(* a call whose timer fired may still arrive.  Payloads are left out.      *)
(* Nothing is logged, so a crash only ends a behaviour early.              *)
(***************************************************************************)
EXTENDS Integers, FiniteSets

CONSTANTS
  Step,        \* the step ids
  Graphs,      \* the dependency graphs considered; ids that are no steps may occur
  Retries,     \* BackoffRetry::max_retries, at least 1 (lines 109 to 111)
  HasTimeout,  \* is the timeout of the inner SagaOrchestrator set?
  Leaky,       \* steps whose forward action may fail and leave its effect behind
  Idempotent   \* steps whose compensation, repeated, does nothing more

ASSUME ConstantsAssumption ==
  /\ IsFiniteSet(Step) /\ Step # {}
  /\ \A g \in Graphs : DOMAIN g = Step
  /\ Retries \in Nat \ {0}
  /\ HasTimeout \in BOOLEAN
  /\ Leaky \subseteq Step
  /\ Idempotent \subseteq Step

VARIABLES
  deps,       \* DependencyGraph::dependencies
  pc,         \* where execute stands
  layer,      \* the group topological_groups has put each step in (0: remaining)
  layers,     \* how many groups there are
  level,      \* the group that runs
  report,     \* the last StepResult of each step
  marked,     \* IdempotentCompensate::compensated
  todo,       \* what the loop of execute_compensate has yet to finish
  attempt,    \* failed attempts at the compensation the loop is at
  effect,     \* the participants: the net effect of each step
  late        \* forward calls nobody waits for any more that may still arrive

planVars == <<deps, layer, layers>>
undoVars == <<marked, todo, attempt>>
vars == <<planVars, pc, level, report, undoVars, effect, late>>

Phase == {"plan", "refused", "run", "compensate", "succeeded", "failed"}
StepStatus == {"Pending", "ForwardDone", "ForwardFailed", "Compensated", "CompensateFailed"}

\* The reports are StepStatus values, and a compensation is tried no more often than
\* max_retries says.
TypeOK ==
  /\ deps \in Graphs
  /\ pc \in Phase
  /\ layer \in [Step -> Nat]
  /\ layers \in Nat
  /\ level \in Nat
  /\ report \in [Step -> StepStatus]
  /\ marked \subseteq Step
  /\ todo \subseteq Step
  /\ attempt \in 0..(Retries - 1)
  /\ effect \in [Step -> Int]
  /\ late \subseteq Step

Init ==
  /\ deps \in Graphs
  /\ pc = "plan"
  /\ layer = [s \in Step |-> 0]
  /\ layers = 0
  /\ level = 1
  /\ report = [s \in Step |-> "Pending"]
  /\ marked = {}
  /\ todo = {}
  /\ attempt = 0
  /\ effect = [s \in Step |-> 0]
  /\ late = {}

--------------------------------------------------------------------------------
Remaining == {s \in Step : layer[s] = 0}

\* Mutant: a step is ready as soon as one of the things it depends on is.
Ready_Any == {s \in Remaining : deps[s] = {} \/ ~(deps[s] \subseteq Remaining)}

\* Mutant: what a step depends on has to be a step.
Ready_Known == {s \in Remaining : \A d \in deps[s] : d \in Step /\ layer[d] # 0}

\* Steps that depend on nothing that remains; an unknown id never remains.
Ready == {s \in Remaining : deps[s] \cap Remaining = {}}

\* One turn of the loop of topological_groups.
AddLayer ==
  /\ pc = "plan"
  /\ Ready # {}
  /\ layer' = [s \in Step |-> IF s \in Ready THEN layers + 1 ELSE layer[s]]
  /\ layers' = layers + 1
  /\ UNCHANGED <<deps, pc, level, report, undoVars, effect, late>>

\* Nothing is ready and something remains: a cycle, and execute returns Err.
Refuse ==
  /\ pc = "plan"
  /\ Remaining # {} /\ Ready = {}
  /\ pc' = "refused"
  /\ UNCHANGED <<planVars, level, report, undoVars, effect, late>>

\* Every step has its group.
Begin ==
  /\ pc = "plan"
  /\ Remaining = {}
  /\ pc' = "run"
  /\ UNCHANGED <<planVars, level, report, undoVars, effect, late>>

--------------------------------------------------------------------------------
Group == {s \in Step : layer[s] = level}

\* The forward call of s is under way (execute_group_parallel).
At(s) == pc = "run" /\ s \in Group /\ report[s] = "Pending"

\* The participant of s acts; nothing has been answered yet.
Act(s) ==
  /\ At(s)
  /\ effect[s] = 0
  /\ effect' = [effect EXCEPT ![s] = 1]
  /\ UNCHANGED <<planVars, pc, level, report, undoVars, late>>

\* The future of s is ready, with this StepResult.
Done(s, status) ==
  /\ report' = [report EXCEPT ![s] = status]
  /\ UNCHANGED <<planVars, pc, level, undoVars, effect>>

\* The forward action answers Ok.
ForwardOk(s) ==
  /\ At(s)
  /\ effect[s] = 1
  /\ Done(s, "ForwardDone")
  /\ UNCHANGED late

\* The forward action answers Err.
ForwardErr(s) ==
  /\ At(s)
  /\ effect[s] = 0 \/ s \in Leaky
  /\ Done(s, "ForwardFailed")
  /\ UNCHANGED late

\* The timer of s fires and its call is dropped as it stands.
ForwardTimeout(s) ==
  /\ HasTimeout
  /\ At(s)
  /\ Done(s, "ForwardFailed")
  /\ late' = IF effect[s] = 0 THEN late \cup {s} ELSE late

\* A call that was dropped on this side reaches its participant after all.
LateEffect(s) ==
  /\ s \in late
  /\ effect' = [effect EXCEPT ![s] = 1]
  /\ late' = late \ {s}
  /\ UNCHANGED <<planVars, pc, level, report, undoVars>>

Completed == {s \in Step : report[s] = "ForwardDone"}

\* Mutant: the first failure is enough, without waiting for the rest of the group.
Joined_First == \E s \in Group : report[s] = "ForwardFailed"

\* join_all has waited for every step of the group.
Joined == \A s \in Group : report[s] # "Pending"

\* The group failed: compensate what this and the earlier groups completed.
TurnBack ==
  /\ pc = "run"
  /\ Joined
  /\ \E s \in Group : report[s] = "ForwardFailed"
  /\ pc' = "compensate"
  /\ todo' = Completed
  /\ UNCHANGED <<planVars, level, report, marked, attempt, effect, late>>

\* The group succeeded: the next one, or the end.
NextGroup ==
  /\ pc = "run"
  /\ Joined
  /\ \A s \in Group : report[s] # "ForwardFailed"
  /\ pc' = IF level = layers THEN "succeeded" ELSE "run"
  /\ level' = IF level = layers THEN level ELSE level + 1
  /\ UNCHANGED <<planVars, report, undoVars, effect, late>>

--------------------------------------------------------------------------------
\* Mutant: any completed step may be undone first.
LastLeft_Any(s) == s \in todo

\* The loop visits completed_order backwards; the order within a group is that of
\* a hash set.
LastLeft(s) == s \in todo /\ \A t \in todo : layer[t] <= layer[s]

\* The loop comes to s and marks it; no step occurs twice in completed_order, so
\* the mark is always new.
Mark(s) ==
  /\ pc = "compensate"
  /\ todo \cap marked = {}
  /\ LastLeft(s)
  /\ marked' = marked \cup {s}
  /\ UNCHANGED <<planVars, pc, level, report, todo, attempt, effect, late>>

AtCompensate(s) == pc = "compensate" /\ s \in todo \cap marked

\* The net effect of step s after one more compensation.
Undone(s) == IF s \in Idempotent THEN 0 ELSE effect[s] - 1

\* Compensation of s is over, with this StepResult.
MoveOn(s, status) ==
  /\ report' = [report EXCEPT ![s] = status]
  /\ todo' = todo \ {s}
  /\ attempt' = 0

\* The compensation answers Ok.
CompensateOk(s) ==
  /\ AtCompensate(s)
  /\ effect' = [effect EXCEPT ![s] = Undone(s)]
  /\ MoveOn(s, "Compensated")
  /\ UNCHANGED <<planVars, pc, level, marked, late>>

\* Mutant: one attempt too many.
CompensateErr_OneMore(s) ==
  /\ AtCompensate(s)
  /\ \E e \in {effect[s], Undone(s)} : effect' = [effect EXCEPT ![s] = e]
  /\ \/ attempt < Retries /\ attempt' = attempt + 1 /\ UNCHANGED <<report, todo>>
     \/ attempt = Retries /\ MoveOn(s, "CompensateFailed")
  /\ UNCHANGED <<planVars, pc, level, marked, late>>

\* The compensation answers Err, having undone the step or not; it is tried again
\* after a pause, and given up after the last attempt.
CompensateErr(s) ==
  /\ AtCompensate(s)
  /\ \E e \in {effect[s], Undone(s)} : effect' = [effect EXCEPT ![s] = e]
  /\ \/ attempt + 1 < Retries /\ attempt' = attempt + 1 /\ UNCHANGED <<report, todo>>
     \/ attempt + 1 = Retries /\ MoveOn(s, "CompensateFailed")
  /\ UNCHANGED <<planVars, pc, level, marked, late>>

\* execute returns with success: false.
Return ==
  /\ pc = "compensate"
  /\ todo = {}
  /\ pc' = "failed"
  /\ UNCHANGED <<planVars, level, report, undoVars, effect, late>>

Execute == AddLayer \/ Refuse \/ Begin \/ TurnBack \/ NextGroup \/ Return
Forward(s) == Act(s) \/ ForwardOk(s) \/ ForwardErr(s) \/ ForwardTimeout(s)
Compensate(s) == Mark(s) \/ CompensateOk(s) \/ CompensateErr(s)

Next == Execute \/ \E s \in Step : Forward(s) \/ LateEffect(s) \/ Compensate(s)

\* The task is scheduled and the timer of a forward call fires.  A compensation,
\* which runs without a timer, is assumed to answer.
Fairness ==
  /\ WF_vars(Execute)
  /\ \A s \in Step : WF_vars(ForwardTimeout(s)) /\ WF_vars(Compensate(s))

Spec == Init /\ [][Next]_vars
FairSpec == Spec /\ Fairness
--------------------------------------------------------------------------------
\* Properties.

\* The steps that s depends on.
Needs(s) == deps[s] \cap Step

\* No step acts, not even late, before everything it depends on has answered Ok
\* (line 184: the groups run one after the other).
DependenciesFirst ==
  \A s \in Step : \A d \in Needs(s) :
    effect[s] # 0 \/ s \in late \/ report[s] # "Pending"
      => report[d] \in {"ForwardDone", "Compensated", "CompensateFailed"}

\* A step that is over in a saga that failed (see Saga): nothing is left of it
\* unless the report says that its compensation failed, or it is a failed step
\* that leaks or timed out.  A compensation that is not idempotent may have been
\* applied once per attempt: that this breaks a promise is CompensatedOnce below.
Settled(s) ==
  \/ report[s] = "Compensated" /\ effect[s] \in (1 - Retries)..0 /\ (s \in Idempotent => effect[s] = 0)
  \/ report[s] = "CompensateFailed" /\ effect[s] \in (1 - Retries)..1
  \/ report[s] = "ForwardFailed" /\ effect[s] \in IF HasTimeout \/ s \in Leaky THEN {0, 1} ELSE {0}
  \/ report[s] = "Pending" /\ effect[s] = 0

\* The SagaResult tells the truth about every participant, although the rest of a
\* group goes on while one of its steps fails, and calls may arrive after the
\* compensation.
VerdictTellsTruth ==
  /\ pc = "succeeded" => \A s \in Step : effect[s] = 1
  /\ pc = "failed" => \A s \in Step : Settled(s)
  /\ pc = "refused" => \A s \in Step : effect[s] = 0

\* Compensation runs backwards (line 157): a step is not undone while one that
\* depends on it still stands.
DependentsUndoneFirst ==
  [][\A s \in Step : \A d \in Needs(s) : effect'[d] < effect[d] => report[s] # "ForwardDone"]_vars

\* The reference for topological_groups: the steps can be numbered so that each
\* comes after those it depends on.
Acyclic ==
  \E rank \in [Step -> 1..Cardinality(Step)] :
    \A s \in Step : \A d \in Needs(s) : rank[d] < rank[s]

\* What topological_groups promises (line 51): the graphs it refuses are those with a
\* cycle, whatever layers it has made before it is stuck, and it has carried out no
\* step of one; an id that is no step holds nothing up.
RefusesCycles ==
  /\ pc = "refused" => ~Acyclic
  /\ pc \notin {"plan", "refused"} => Acyclic

\* With a timer, a graph without a cycle is carried out to the end, and one with a
\* cycle is refused (line 53).
EndsOrRefuses ==
  /\ pc = "plan" /\ Acyclic ~> pc \in {"succeeded", "failed"}
  /\ pc = "plan" /\ ~Acyclic ~> pc = "refused"

\* Participants that have not acted and still may, and steps yet to be compensated.
Idle == {s \in Step : report[s] \in {"Pending", "ForwardFailed"} /\ effect[s] = 0}
Unsettled == {s \in Step : report[s] \notin {"Compensated", "CompensateFailed"}}
Waiting == {s \in Step : report[s] = "Pending"}

PhasesLeft ==
  CASE pc = "plan" -> 3
    [] pc = "run" -> 2
    [] pc = "compensate" -> 1
    [] OTHER -> 0

Work ==
  PhasesLeft + Cardinality(Remaining) + Cardinality(Idle) + Cardinality(Waiting)
    + Cardinality(Step \ marked) + (Cardinality(Step) - level)
    + (Retries * Cardinality(Unsettled) - attempt)

\* Sorting, running and compensating end for every graph, with a cycle or without:
\* every step, late calls included, uses up one of a number that the steps and
\* max_retries fix beforehand, and no group is empty.
WorkRunsOut ==
  /\ [](Work \in 0..(2 + (5 + Retries) * Cardinality(Step)))
  /\ [][Work' < Work]_vars

\* What a failed saga promises of sound participants (line 157), whichever of them
\* ran at the same time: nothing is left, but for what is reported as CompensateFailed.
RollsBack ==
  pc = "failed" => \A s \in Step : report[s] # "CompensateFailed" => effect[s] = 0

\* What IdempotentCompensate promises (lines 6, 126 and 159: a repeated compensation
\* has no side effect): a step that is reported Compensated has been undone exactly
\* once.  It does not hold of participants whose compensation may work and yet answer
\* Err: the mark is set once per step (line 319), before the loop that repeats the
\* call (line 329), and keeps no attempt of that loop from the participant.
CompensatedOnce == \A s \in Step : report[s] = "Compensated" => effect[s] = 0

--------------------------------------------------------------------------------
\* The inductive invariant (ParallelSagaProofs).

Answered == {"ForwardDone", "Compensated", "CompensateFailed"}

\* The layers respect the dependencies, and nothing is done before they are complete.
PlanInv ==
  /\ \A s \in Step : layer[s] <= layers
  /\ \A s \in Step : \A d \in Needs(s) : layer[s] # 0 => layer[d] # 0 /\ layer[d] < layer[s]
  /\ pc \in {"plan", "refused"} =>
       level = 1 /\ late = {} /\ \A s \in Step : report[s] = "Pending" /\ effect[s] = 0
  /\ pc \notin {"plan", "refused"} => Remaining = {}

\* Which groups are over, and what that makes of the reports.
GroupInv ==
  /\ pc \in {"plan", "refused", "run", "succeeded"} =>
       /\ todo = {} /\ marked = {}
       /\ \A s \in Step : report[s] \in {"Pending", "ForwardDone", "ForwardFailed"}
  /\ pc \notin {"plan", "refused"} => \A s \in Step :
       /\ layer[s] < level => report[s] \in Answered
       /\ level < layer[s] => report[s] = "Pending"
  /\ pc \in {"compensate", "failed"} => \A s \in Step :
       /\ report[s] = "Pending" => level < layer[s]
       /\ s \in todo <=> report[s] = "ForwardDone"
  /\ pc = "failed" => todo = {}
  /\ pc = "succeeded" => \A s \in Step : report[s] = "ForwardDone"

\* The compensation loop is at one step at a time, one of the highest group left.
LoopInv ==
  /\ attempt # 0 => todo \cap marked # {}
  /\ \A s \in todo \cap marked : LastLeft(s) /\ \A t \in todo \cap marked : t = s

\* What the net effect of a step can be, by what is reported of it.
EffectInv ==
  \A s \in Step :
    /\ effect[s] \in (1 - Retries)..1
    /\ report[s] = "Pending" => effect[s] = 0 \/ (effect[s] = 1 /\ At(s))
    /\ report[s] = "ForwardDone" /\ s \notin marked => effect[s] = 1
    /\ report[s] = "ForwardDone" => effect[s] >= 1 - attempt
    /\ report[s] = "ForwardFailed" => effect[s] \in {0, 1}
    /\ report[s] = "ForwardFailed" /\ effect[s] = 1 => HasTimeout \/ s \in Leaky
    /\ report[s] = "Compensated" => effect[s] <= 0 /\ (s \in Idempotent => effect[s] = 0)
    /\ s \in late => report[s] = "ForwardFailed" /\ effect[s] = 0 /\ HasTimeout

IInv == TypeOK /\ PlanInv /\ GroupInv /\ LoopInv /\ EffectInv

\* For RefusesCycles: no layer is empty, and whoever refuses is stuck.
SortInv ==
  /\ layers <= Cardinality(Step \ Remaining)
  /\ pc = "refused" => Remaining # {} /\ Ready = {}
================================================================================

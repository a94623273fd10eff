--------------------------- MODULE ParallelSagaProofs ---------------------------
(***************************************************************************)
(* Theorems about ParallelSaga, for any finite set of steps, any           *)
(* dependency graphs and any number of attempts, with and without a timer: *)
(* the type invariant, that dependencies are respected on the way forward  *)
(* and on the way back, that the result tells the truth, that only graphs  *)
(* with a cycle are refused, and that every step leaves less to do.  And   *)
(* for steps that fail before they act: what is rolled back is gone.       *)
(***************************************************************************)
EXTENDS ParallelSaga, FiniteSetTheorems, WellFoundedInduction, TLAPS

\* The inductive invariant holds at the start.
LEMMA InitIInv == Init => IInv
BY ConstantsAssumption
DEF Init, IInv, TypeOK, PlanInv, GroupInv, LoopInv, EffectInv, Phase, StepStatus, Remaining, LastLeft

\* What a compensation makes of the effect of a step that has used fewer than
\* Retries attempts.
LEMMA UndoneBound ==
  ASSUME IInv, NEW s \in Step, AtCompensate(s)
  PROVE  /\ Undone(s) \in (1 - Retries)..0
         /\ Undone(s) >= 0 - attempt
         /\ s \in Idempotent => Undone(s) = 0
<1>1. report[s] = "ForwardDone"
  BY DEF AtCompensate, IInv, GroupInv
<1>2. effect[s] >= 1 - attempt /\ effect[s] \in Int /\ effect[s] <= 1 /\ attempt \in 0..(Retries - 1)
  BY <1>1, ConstantsAssumption DEF IInv, EffectInv, TypeOK
<1> QED
  BY <1>2, ConstantsAssumption DEF Undone

\* Every step keeps the variables in their types.
LEMMA TypeOKStep == IInv /\ [Next]_vars => TypeOK'
<1> SUFFICES ASSUME IInv, [Next]_vars PROVE TypeOK'
  OBVIOUS
<1> USE ConstantsAssumption DEF IInv, TypeOK, Phase, StepStatus, planVars, undoVars
<1>1. CASE AddLayer
  BY <1>1 DEF AddLayer
<1>2. CASE Refuse \/ Begin \/ Return
  BY <1>2 DEF Refuse, Begin, Return
<1>3. CASE TurnBack
  BY <1>3 DEF TurnBack, Completed
<1>4. CASE NextGroup
  BY <1>4 DEF NextGroup
<1>5. ASSUME NEW s \in Step, Forward(s) \/ LateEffect(s) PROVE TypeOK'
  BY <1>5 DEF Forward, Act, ForwardOk, ForwardErr, ForwardTimeout, Done, LateEffect
<1>6. ASSUME NEW s \in Step, Mark(s) PROVE TypeOK'
  BY <1>6 DEF Mark
<1>7. ASSUME NEW s \in Step, CompensateOk(s) \/ CompensateErr(s) PROVE TypeOK'
  <2>1. \E e \in {effect[s], Undone(s)} : effect' = [effect EXCEPT ![s] = e]
    BY <1>7 DEF CompensateOk, CompensateErr
  <2>2. Undone(s) \in Int /\ effect[s] \in Int
    BY DEF Undone
  <2>3. \/ attempt + 1 < Retries /\ attempt' = attempt + 1 /\ UNCHANGED <<report, todo>>
        \/ MoveOn(s, "Compensated") \/ MoveOn(s, "CompensateFailed")
    BY <1>7 DEF CompensateOk, CompensateErr
  <2>4. attempt' \in 0..(Retries - 1) /\ report' \in [Step -> StepStatus] /\ todo' \subseteq Step
    BY <2>3 DEF MoveOn
  <2>5. effect' \in [Step -> Int]
    BY <2>1, <2>2
  <2> QED
    BY <1>7, <2>4, <2>5 DEF CompensateOk, CompensateErr
<1>8. CASE UNCHANGED vars
  BY <1>8 DEF vars
<1> QED
  BY <1>1, <1>2, <1>3, <1>4, <1>5, <1>6, <1>7, <1>8 DEF Next, Execute, Compensate

\* The layers stay as they are planned.
LEMMA PlanStep == IInv /\ [Next]_vars => PlanInv'
<1> SUFFICES ASSUME IInv, [Next]_vars PROVE PlanInv'
  OBVIOUS
<1> USE ConstantsAssumption DEF IInv, TypeOK, PlanInv, Remaining, Needs, planVars, undoVars
<1>1. CASE AddLayer
  <2>1. /\ pc = "plan" /\ layers' = layers + 1
        /\ UNCHANGED <<deps, pc, level, report, undoVars, effect, late>>
        /\ \A s \in Step : layer'[s] = IF s \in Ready THEN layers + 1 ELSE layer[s]
    BY <1>1 DEF AddLayer
  <2>2. \A s \in Step : layer'[s] <= layers'
    BY <2>1
  <2>3. ASSUME NEW s \in Step, NEW d \in Needs(s), layer'[s] # 0
        PROVE  layer'[d] # 0 /\ layer'[d] < layer'[s]
    <3>1. CASE s \in Ready
      <4>1. layer[d] # 0 /\ layer[d] <= layers /\ d \notin Ready /\ d \in Step
        BY <3>1 DEF Ready
      <4> QED
        BY <2>1, <3>1, <4>1
    <3>2. CASE s \notin Ready
      <4>1. layer[d] # 0 /\ layer[d] < layer[s] /\ d \in Step
        BY <2>1, <2>3, <3>2
      <4>2. d \notin Ready
        BY <4>1 DEF Ready
      <4> QED
        BY <2>1, <3>2, <4>1, <4>2
    <3> QED
      BY <3>1, <3>2
  <2> QED
    BY <2>1, <2>2, <2>3
<1>2. CASE Refuse \/ Begin \/ Return \/ TurnBack \/ NextGroup
  BY <1>2 DEF Refuse, Begin, Return, TurnBack, NextGroup
<1>3. ASSUME NEW s \in Step, Forward(s) \/ LateEffect(s) PROVE PlanInv'
  BY <1>3 DEF Forward, Act, ForwardOk, ForwardErr, ForwardTimeout, Done, LateEffect, At
<1>4. ASSUME NEW s \in Step, Compensate(s) PROVE PlanInv'
  BY <1>4 DEF Compensate, Mark, CompensateOk, CompensateErr, AtCompensate
<1>5. CASE UNCHANGED vars
  BY <1>5 DEF vars
<1> QED
  BY <1>1, <1>2, <1>3, <1>4, <1>5 DEF Next, Execute

\* The reports agree with the groups.
LEMMA GroupStep == IInv /\ [Next]_vars => GroupInv'
<1> SUFFICES ASSUME IInv, [Next]_vars PROVE GroupInv'
  OBVIOUS
<1> USE ConstantsAssumption DEF IInv, TypeOK, GroupInv, planVars, undoVars, Answered
<1>1. CASE AddLayer
  BY <1>1 DEF AddLayer, PlanInv
<1>2. CASE Refuse
  BY <1>2 DEF Refuse
<1>3. CASE Begin
  <2>1. level = 1 /\ \A s \in Step : layer[s] # 0 /\ report[s] = "Pending"
    BY <1>3 DEF Begin, PlanInv, Remaining
  <2> QED
    BY <1>3, <2>1 DEF Begin
<1>4. CASE Return
  BY <1>4 DEF Return
<1>5. CASE TurnBack
  <2>1. \A s \in Step : layer[s] < level \/ layer[s] = level \/ level < layer[s]
    OBVIOUS
  <2> QED
    BY <1>5, <2>1 DEF TurnBack, Joined, Group, Completed
<1>6. CASE NextGroup
  <2>1. \A s \in Group : report[s] = "ForwardDone"
    BY <1>6 DEF NextGroup, Joined, Group
  <2>2. ASSUME NEW s \in Step, layer[s] <= level PROVE report[s] = "ForwardDone"
    <3>1. layer[s] < level \/ s \in Group
      BY <2>2 DEF Group
    <3> QED
      BY <1>6, <2>1, <3>1 DEF NextGroup
  <2>3. CASE level = layers
    BY <1>6, <2>2, <2>3 DEF NextGroup, PlanInv
  <2>4. CASE level # layers
    <3>1. pc' = "run" /\ level' = level + 1
      BY <1>6, <2>4 DEF NextGroup
    <3>2. ASSUME NEW s \in Step
          PROVE  /\ layer[s] < level + 1 => report[s] = "ForwardDone"
                 /\ level + 1 < layer[s] => report[s] = "Pending"
      BY <1>6, <2>2 DEF NextGroup
    <3> QED
      BY <1>6, <3>1, <3>2 DEF NextGroup
  <2> QED
    BY <2>3, <2>4
<1>7. ASSUME NEW s \in Step, Forward(s) \/ LateEffect(s) PROVE GroupInv'
  BY <1>7 DEF Forward, Act, ForwardOk, ForwardErr, ForwardTimeout, Done, LateEffect, At, Group
<1>8. ASSUME NEW s \in Step, Mark(s) PROVE GroupInv'
  BY <1>8 DEF Mark
<1>9. ASSUME NEW s \in Step, CompensateOk(s) \/ CompensateErr(s) PROVE GroupInv'
  <2>1. pc = "compensate" /\ pc' = pc /\ level' = level /\ layer' = layer /\ s \in todo
    BY <1>9 DEF CompensateOk, CompensateErr, AtCompensate
  <2>2. CASE UNCHANGED <<report, todo>>
    BY <2>1, <2>2
  <2>3. ASSUME NEW status \in {"Compensated", "CompensateFailed"}, MoveOn(s, status) PROVE GroupInv'
    BY <2>1, <2>3 DEF MoveOn
  <2> QED
    BY <1>9, <2>2, <2>3 DEF CompensateOk, CompensateErr
<1>10. CASE UNCHANGED vars
  BY <1>10 DEF vars
<1> QED
  BY <1>1, <1>2, <1>3, <1>4, <1>5, <1>6, <1>7, <1>8, <1>9, <1>10 DEF Next, Execute, Compensate

\* The compensation loop stays at one step until that is over.
LEMMA LoopStep == IInv /\ [Next]_vars => LoopInv'
<1> SUFFICES ASSUME IInv, [Next]_vars PROVE LoopInv'
  OBVIOUS
<1> USE ConstantsAssumption DEF IInv, TypeOK, LoopInv, LastLeft, planVars, undoVars
<1>1. CASE AddLayer
  BY <1>1 DEF AddLayer, GroupInv
<1>2. CASE Refuse \/ Begin \/ Return \/ NextGroup
  BY <1>2 DEF Refuse, Begin, Return, NextGroup
<1>3. CASE TurnBack
  BY <1>3 DEF TurnBack, GroupInv
<1>4. ASSUME NEW s \in Step, Forward(s) \/ LateEffect(s) PROVE LoopInv'
  BY <1>4 DEF Forward, Act, ForwardOk, ForwardErr, ForwardTimeout, Done, LateEffect
<1>5. ASSUME NEW s \in Step, Mark(s) PROVE LoopInv'
  BY <1>5 DEF Mark
<1>6. ASSUME NEW s \in Step, CompensateOk(s) \/ CompensateErr(s) PROVE LoopInv'
  <2>1. s \in todo \cap marked /\ UNCHANGED <<layer, marked>>
    BY <1>6 DEF CompensateOk, CompensateErr, AtCompensate
  <2>2. CASE UNCHANGED todo
    BY <2>1, <2>2
  <2>3. ASSUME NEW status, MoveOn(s, status) PROVE LoopInv'
    BY <2>1, <2>3 DEF MoveOn
  <2> QED
    BY <1>6, <2>2, <2>3 DEF CompensateOk, CompensateErr
<1>7. CASE UNCHANGED vars
  BY <1>7 DEF vars
<1> QED
  BY <1>1, <1>2, <1>3, <1>4, <1>5, <1>6, <1>7 DEF Next, Execute, Compensate

\* The effects agree with the reports.
LEMMA EffectStep == IInv /\ [Next]_vars => EffectInv'
<1> SUFFICES ASSUME IInv, [Next]_vars PROVE EffectInv'
  OBVIOUS
<1> USE ConstantsAssumption DEF IInv, TypeOK, EffectInv, planVars, undoVars
<1>1. CASE AddLayer \/ Refuse \/ Begin
  <2>1. /\ \A s \in Step : report[s] = "Pending" /\ effect[s] = 0
        /\ late = {} /\ UNCHANGED <<report, effect, late>>
    BY <1>1 DEF AddLayer, Refuse, Begin, PlanInv
  <2> QED
    BY <2>1
<1>2. CASE TurnBack \/ NextGroup
  <2>1. \A s \in Step : report[s] = "Pending" => effect[s] = 0
    BY <1>2 DEF TurnBack, NextGroup, Joined, At
  <2> QED
    BY <1>2, <2>1 DEF TurnBack, NextGroup
<1>3. CASE Return
  BY <1>3 DEF Return, At
<1>4. ASSUME NEW s \in Step, Act(s) PROVE EffectInv'
  <2>1. \A t \in Step : At(t)' = At(t)
    BY <1>4 DEF Act, At, Group
  <2> QED
    BY <1>4, <2>1 DEF Act, At
<1>5. ASSUME NEW s \in Step, NEW status \in {"ForwardDone", "ForwardFailed"}, At(s), Done(s, status),
             status = "ForwardDone" => effect[s] = 1,
             status = "ForwardFailed" => effect[s] = 0 \/ HasTimeout \/ s \in Leaky,
             late' = late \/ (late' = late \cup {s} /\ effect[s] = 0 /\ HasTimeout /\ status = "ForwardFailed")
      PROVE  EffectInv'
  <2>1. \A t \in Step : t # s => At(t)' = At(t)
    BY <1>5 DEF Done, At, Group
  <2>2. report' = [report EXCEPT ![s] = status] /\ UNCHANGED <<effect, marked, attempt>> /\ report[s] = "Pending"
    BY <1>5 DEF Done, At
  <2>3. effect[s] \in {0, 1} /\ s \notin late
    BY <2>2
  <2> QED
    BY <1>5, <2>1, <2>2, <2>3
<1>6. ASSUME NEW s \in Step, Forward(s) PROVE EffectInv'
  BY <1>4, <1>5, <1>6 DEF Forward, ForwardOk, ForwardErr, ForwardTimeout
<1>7. ASSUME NEW s \in Step, LateEffect(s) PROVE EffectInv'
  <2>1. \A t \in Step : At(t)' = At(t)
    BY <1>7 DEF LateEffect, At, Group
  <2> QED
    BY <1>7, <2>1 DEF LateEffect
<1>8. ASSUME NEW s \in Step, Mark(s) PROVE EffectInv'
  <2>1. \A t \in Step : At(t)' = At(t)
    BY <1>8 DEF Mark, At, Group
  <2>2. attempt = 0
    BY <1>8 DEF Mark, LoopInv
  <2> QED
    BY <1>8, <2>1, <2>2 DEF Mark
<1>9. ASSUME NEW s \in Step, CompensateOk(s) \/ CompensateErr(s) PROVE EffectInv'
  <2>1. /\ AtCompensate(s) /\ UNCHANGED <<pc, level, layer, marked, late>>
        /\ report[s] = "ForwardDone" /\ s \in marked
    BY <1>9 DEF CompensateOk, CompensateErr, AtCompensate, GroupInv
  <2>2. /\ Undone(s) \in (1 - Retries)..0 /\ Undone(s) >= 0 - attempt
        /\ s \in Idempotent => Undone(s) = 0
    BY <2>1, UndoneBound
  <2>3. PICK e \in {effect[s], Undone(s)} : effect' = [effect EXCEPT ![s] = e]
    BY <1>9 DEF CompensateOk, CompensateErr
  <2>4. e \in (1 - Retries)..1 /\ e >= 0 - attempt
    BY <2>1, <2>2, <2>3
  <2>5. \A t \in Step : t # s => \/ report[t] # "ForwardDone"
                                 \/ t \notin marked
    BY <2>1 DEF AtCompensate, GroupInv, LoopInv
  <2>6. \A t \in Step : At(t) => FALSE
    BY <2>1 DEF AtCompensate, At
  <2>7. CASE CompensateOk(s)
    <3>1. effect' = [effect EXCEPT ![s] = Undone(s)] /\ report' = [report EXCEPT ![s] = "Compensated"]
          /\ attempt' = 0
      BY <2>7 DEF CompensateOk, MoveOn
    <3> QED
      BY <2>1, <2>2, <2>5, <2>6, <3>1
  <2>8. CASE attempt' = attempt + 1 /\ UNCHANGED report
    BY <2>1, <2>3, <2>4, <2>5, <2>6, <2>8
  <2>9. CASE MoveOn(s, "CompensateFailed")
    <3>1. report' = [report EXCEPT ![s] = "CompensateFailed"] /\ attempt' = 0
      BY <2>9 DEF MoveOn
    <3> QED
      BY <2>1, <2>3, <2>4, <2>5, <2>6, <3>1
  <2> QED
    BY <1>9, <2>7, <2>8, <2>9 DEF CompensateErr
<1>10. CASE UNCHANGED vars
  <2>1. \A t \in Step : At(t)' = At(t)
    BY <1>10 DEF vars, At, Group
  <2> QED
    BY <1>10, <2>1 DEF vars
<1> QED
  BY <1>1, <1>2, <1>3, <1>6, <1>7, <1>8, <1>9, <1>10 DEF Next, Execute, Compensate

\* IInv is an invariant.
LEMMA InductiveInvariant == Spec => []IInv
<1>1. IInv /\ [Next]_vars => IInv'
  BY TypeOKStep, PlanStep, GroupStep, LoopStep, EffectStep DEF IInv
<1> QED
  BY InitIInv, <1>1, PTL DEF Spec

--------------------------------------------------------------------------------
\* The variables stay in their types (TypeOK).
THEOREM TypeCorrect == Spec => []TypeOK
<1>1. IInv => TypeOK
  BY DEF IInv
<1> QED
  BY <1>1, InductiveInvariant, PTL

\* Nothing acts before what it depends on has answered Ok (DependenciesFirst).
THEOREM DependenciesComeFirst == Spec => []DependenciesFirst
<1>1. ASSUME IInv, NEW s \in Step, NEW d \in Needs(s),
             effect[s] # 0 \/ s \in late \/ report[s] # "Pending"
      PROVE  report[d] \in Answered
  <2>1. report[s] # "Pending" \/ At(s)
    BY <1>1 DEF IInv, EffectInv
  <2>2. pc \notin {"plan", "refused"}
    BY <1>1, <2>1 DEF IInv, PlanInv, At
  <2>3. ~(level < layer[s]) /\ layer[s] # 0
    BY <2>1, <2>2, <1>1 DEF IInv, PlanInv, GroupInv, TypeOK, At, Group, Remaining
  <2>4. d \in Step /\ layer[d] < layer[s]
    BY <1>1, <2>3 DEF IInv, PlanInv, Needs
  <2>5. layer[d] < level
    BY <1>1, <2>3, <2>4 DEF IInv, TypeOK
  <2> QED
    BY <1>1, <2>2, <2>4, <2>5 DEF IInv, GroupInv
<1>2. IInv => DependenciesFirst
  BY <1>1 DEF DependenciesFirst, Answered
<1> QED
  BY <1>2, InductiveInvariant, PTL

\* The result tells the truth about all participants (VerdictTellsTruth).
THEOREM VerdictIsTrue == Spec => []VerdictTellsTruth
<1>1. ASSUME IInv, pc = "succeeded", NEW s \in Step PROVE effect[s] = 1
  <2>1. report[s] = "ForwardDone" /\ s \notin marked
    BY <1>1 DEF IInv, GroupInv
  <2> QED
    BY <1>1, <2>1 DEF IInv, EffectInv
<1>2. ASSUME IInv, pc = "failed", NEW s \in Step PROVE Settled(s)
  <2>1. report[s] # "ForwardDone" /\ report[s] \in StepStatus
    BY <1>2 DEF IInv, GroupInv, TypeOK
  <2>2. ~At(s)
    BY <1>2 DEF At
  <2> QED
    BY <1>2, <2>1, <2>2, ConstantsAssumption DEF IInv, EffectInv, StepStatus, Settled
<1>3. IInv => VerdictTellsTruth
  BY <1>1, <1>2 DEF IInv, PlanInv, VerdictTellsTruth
<1> QED
  BY <1>3, InductiveInvariant, PTL

\* No step is undone while one that depends on it stands (DependentsUndoneFirst).
THEOREM DependentsAreUndoneFirst == Spec => DependentsUndoneFirst
<1> DEFINE First == \A s \in Step : \A d \in Needs(s) :
                      effect'[d] < effect[d] => report[s] # "ForwardDone"
<1>1. ASSUME IInv, [Next]_vars PROVE [First]_vars
  <2> SUFFICES ASSUME NEW s \in Step, NEW d \in Needs(s), Next,
                      effect'[d] < effect[d], report[s] = "ForwardDone"
               PROVE  FALSE
    BY <1>1
  <2> USE <1>1 DEF IInv, TypeOK
  <2>1. d \in Step
    BY DEF Needs
  <2>2. AtCompensate(d)
    <3>1. ASSUME NEW u \in Step, NEW e, effect' = [effect EXCEPT ![u] = e] PROVE u = d
      BY <2>1, <3>1
    <3>2. ASSUME NEW u \in Step, Act(u) PROVE FALSE
      BY <2>1, <3>2 DEF Act
    <3>3. ASSUME NEW u \in Step, LateEffect(u) PROVE FALSE
      BY <2>1, <3>3 DEF LateEffect, EffectInv
    <3>4. ASSUME NEW u \in Step, CompensateOk(u) \/ CompensateErr(u) PROVE AtCompensate(d)
      BY <3>1, <3>4 DEF CompensateOk, CompensateErr
    <3>5. effect' # effect
      BY <2>1
    <3> QED
      BY <3>2, <3>3, <3>4, <3>5
      DEF Next, Execute, Forward, Compensate, AddLayer, Refuse, Begin, TurnBack, NextGroup, Return,
          ForwardOk, ForwardErr, ForwardTimeout, Done, Mark
  <2>3. pc = "compensate" /\ s \in todo
    BY <2>2 DEF AtCompensate, GroupInv
  <2>4. layer[s] <= layer[d]
    BY <2>1, <2>2, <2>3 DEF AtCompensate, LoopInv, LastLeft
  <2>5. layer[s] # 0 /\ layer[d] < layer[s]
    BY <2>3 DEF PlanInv, Remaining
  <2> QED
    BY <2>1, <2>4, <2>5
<1> QED
  BY <1>1, InductiveInvariant, PTL DEF Spec, DependentsUndoneFirst

--------------------------------------------------------------------------------
\* The sort.

\* The number of steps that have a layer is a number, and at most that of the steps.
LEMMA SortedCount ==
  /\ IsFiniteSet(Step \ Remaining)
  /\ Cardinality(Step \ Remaining) \in Nat /\ Cardinality(Step) \in Nat
  /\ Cardinality(Step \ Remaining) <= Cardinality(Step)
BY ConstantsAssumption, FS_Subset, FS_CardinalityType

\* There is no infinite descent in the numbers.
LEMMA NoDescent == IsWellFoundedOn({pair \in Nat \X Nat : pair[1] < pair[2]}, Nat)
BY NatLessThanWellFounded DEF OpToRel

\* A set of numbers that is not empty has a smallest one.
LEMMA LeastNumber ==
  ASSUME NEW S, S \subseteq Nat, S # {}
  PROVE  \E n \in S : \A m \in S : ~(m < n)
<1>1. \E n \in S : \A m \in S : ~(<<m, n>> \in {pair \in Nat \X Nat : pair[1] < pair[2]})
  BY NoDescent, WFMin
<1> QED
  BY <1>1

\* A layer takes at least one step from those that remain.
LEMMA LayerTakesSteps ==
  ASSUME IInv, SortInv, AddLayer
  PROVE  SortInv'
<1> DEFINE sorted == Step \ Remaining
<1>1. PICK s \in Step : s \in Ready /\ s \notin sorted
  BY DEF AddLayer, Ready, Remaining
<1>2. layers' = layers + 1 /\ layers \in Nat /\ pc' = pc /\ pc = "plan"
  BY DEF AddLayer, IInv, TypeOK
<1>3. sorted \cup {s} \subseteq sorted'
  BY <1>1, <1>2 DEF AddLayer, Remaining, IInv, TypeOK
<1>4. IsFiniteSet(sorted') /\ Cardinality(sorted') \in Nat
  BY ConstantsAssumption, FS_Subset, FS_CardinalityType
<1>5. Cardinality(sorted \cup {s}) <= Cardinality(sorted')
  BY <1>3, <1>4, FS_Subset
<1>6. Cardinality(sorted \cup {s}) = Cardinality(sorted) + 1
  BY <1>1, SortedCount, FS_AddElement
<1>7. layers <= Cardinality(sorted) /\ Cardinality(sorted) \in Nat
  BY SortedCount DEF SortInv
<1> HIDE DEF sorted
<1>8. layers' <= Cardinality(sorted')
  BY <1>2, <1>4, <1>5, <1>6, <1>7
<1> QED
  BY <1>2, <1>8 DEF SortInv, sorted

\* SortInv is an invariant.
LEMMA SortInvariant == Spec => []SortInv
<1>1. Init => SortInv
  BY SortedCount DEF Init, SortInv
<1>2. IInv /\ SortInv /\ [Next]_vars => SortInv'
  <2> SUFFICES ASSUME IInv, SortInv, [Next]_vars PROVE SortInv'
    OBVIOUS
  <2>1. CASE AddLayer
    BY <2>1, LayerTakesSteps
  <2>2. CASE Refuse
    BY <2>2 DEF Refuse, planVars, SortInv, Remaining, Ready
  <2>3. CASE UNCHANGED planVars /\ (pc' = pc \/ pc' # "refused")
    BY <2>3 DEF planVars, SortInv, Remaining, Ready
  <2>4. ASSUME NEW s \in Step, Forward(s) \/ LateEffect(s) \/ Compensate(s) PROVE SortInv'
    BY <2>3, <2>4 DEF Forward, Act, ForwardOk, ForwardErr, ForwardTimeout, Done, LateEffect,
                      Compensate, Mark, CompensateOk, CompensateErr
  <2> QED
    BY <2>1, <2>2, <2>3, <2>4
    DEF Next, Execute, Begin, TurnBack, NextGroup, Return, vars
<1> QED
  BY <1>1, <1>2, InductiveInvariant, PTL DEF Spec

\* Line 51: the graphs that are refused are those with a cycle (RefusesCycles).
THEOREM OnlyCyclesRefused == Spec => []RefusesCycles
<1>1. ASSUME SortInv, pc = "refused", Acyclic PROVE FALSE
  <2>1. PICK rank \in [Step -> 1..Cardinality(Step)] :
               \A s \in Step : \A d \in Needs(s) : rank[d] < rank[s]
    BY <1>1 DEF Acyclic
  <2> DEFINE ranks == {rank[s] : s \in Remaining}
  <2>2. Remaining # {} /\ Ready = {} /\ Remaining \subseteq Step
    BY <1>1 DEF SortInv, Remaining
  <2>3. ranks \subseteq Nat /\ ranks # {}
    BY <2>2, SortedCount
  <2>4. PICK n \in ranks : \A m \in ranks : ~(m < n)
    BY <2>3, LeastNumber
  <2>5. PICK s \in Remaining : n = rank[s]
    OBVIOUS
  <2>6. PICK d \in deps[s] : d \in Remaining
    BY <2>2, <2>5 DEF Ready
  <2>7. rank[d] < rank[s]
    BY <2>1, <2>2, <2>5, <2>6 DEF Needs
  <2> QED
    BY <2>4, <2>5, <2>6, <2>7
<1>2. ASSUME IInv, SortInv, pc \notin {"plan", "refused"} PROVE Acyclic
  <2>1. layers \in Nat /\ layers <= Cardinality(Step)
    BY <1>2, SortedCount DEF SortInv, IInv, TypeOK
  <2>2. layer \in [Step -> 1..Cardinality(Step)]
    BY <1>2, <2>1, SortedCount DEF IInv, TypeOK, PlanInv, Remaining
  <2>3. \A s \in Step : \A d \in Needs(s) : layer[d] < layer[s]
    BY <1>2 DEF IInv, PlanInv, Remaining
  <2> QED
    BY <2>2, <2>3 DEF Acyclic
<1>3. IInv /\ SortInv => RefusesCycles
  BY <1>1, <1>2 DEF RefusesCycles
<1> QED
  BY <1>3, InductiveInvariant, SortInvariant, PTL

\* With sound participants nothing is left of a failed saga, but for the steps it
\* reports as CompensateFailed (RollsBack).
THEOREM SoundStepsRollBack ==
  ASSUME Leaky = {}, ~HasTimeout, Idempotent = Step
  PROVE  Spec => []RollsBack
<1>1. ASSUME VerdictTellsTruth PROVE RollsBack
  BY <1>1 DEF VerdictTellsTruth, Settled, RollsBack
<1> QED
  BY <1>1, VerdictIsTrue, PTL

--------------------------------------------------------------------------------
\* The work that is left.

\* The groups are run in turn, up to the last one.
LevelInv ==
  /\ level >= 1
  /\ pc \notin {"plan", "refused"} => level <= layers

\* LevelInv is an invariant.
LEMMA LevelInvariant == Spec => []LevelInv
<1>1. Init => LevelInv
  BY DEF Init, LevelInv
<1>2. ASSUME IInv, LevelInv, [Next]_vars PROVE LevelInv'
  <2> USE <1>2 DEF IInv, TypeOK, LevelInv
  <2>1. CASE AddLayer
    BY <2>1 DEF AddLayer
  <2>2. CASE Begin
    <3>1. PICK s \in Step : layer[s] # 0 /\ layer[s] <= layers
      BY <2>2, ConstantsAssumption DEF Begin, Remaining, PlanInv
    <3>2. layers >= 1 /\ level = 1
      BY <2>2, <3>1 DEF Begin, PlanInv
    <3> QED
      BY <2>2, <3>2 DEF Begin, planVars
  <2>3. CASE NextGroup
    BY <2>3 DEF NextGroup, planVars
  <2>4. CASE UNCHANGED <<layers, level>> /\ (pc' = "refused" \/ pc \notin {"plan", "refused"} \/ pc' = pc)
    BY <2>4
  <2>5. ASSUME NEW s \in Step, Forward(s) \/ LateEffect(s) \/ Compensate(s) PROVE LevelInv'
    BY <2>4, <2>5 DEF Forward, Act, ForwardOk, ForwardErr, ForwardTimeout, Done, LateEffect,
                      Compensate, Mark, CompensateOk, CompensateErr, planVars
  <2> QED
    BY <1>2, <2>1, <2>2, <2>3, <2>4, <2>5
    DEF Next, Execute, Refuse, TurnBack, Return, planVars, vars
<1> QED
  BY <1>1, <1>2, InductiveInvariant, PTL DEF Spec

\* A proper subset of a finite set has fewer elements.
LEMMA FewerElements ==
  ASSUME NEW S, NEW T, IsFiniteSet(S), T \subseteq S
  PROVE  /\ Cardinality(S) \in Nat /\ Cardinality(T) \in Nat
         /\ Cardinality(T) <= Cardinality(S)
         /\ T # S => Cardinality(T) < Cardinality(S)
BY FS_Subset, FS_CardinalityType

\* One step fewer to compensate is Retries attempts fewer.
LEMMA AttemptsOf ==
  ASSUME NEW r \in Nat \ {0}, NEW m \in Nat, NEW n \in Nat, m < n
  PROVE  r * m + r <= r * n
<1>1. PICK k \in Nat : n = m + 1 + k
  <2>1. n - m - 1 \in Nat /\ n = m + 1 + (n - m - 1)
    OBVIOUS
  <2> QED
    BY <2>1
<1>2. r * n = r * m + r + r * k
  BY <1>1
<1>3. r * k \in Nat
  BY <1>1
<1> QED
  BY <1>2, <1>3

\* How much work there is at most of each kind.
LEMMA WorkCounted ==
  /\ Cardinality(Step) \in Nat \ {0}
  /\ IsFiniteSet(Remaining) /\ Cardinality(Remaining) \in 0..Cardinality(Step)
  /\ IsFiniteSet(Idle) /\ Cardinality(Idle) \in 0..Cardinality(Step)
  /\ IsFiniteSet(Waiting) /\ Cardinality(Waiting) \in 0..Cardinality(Step)
  /\ IsFiniteSet(Step \ marked) /\ Cardinality(Step \ marked) \in 0..Cardinality(Step)
  /\ IsFiniteSet(Unsettled) /\ Cardinality(Unsettled) \in 0..Cardinality(Step)
<1>1. IsFiniteSet(Step) /\ Cardinality(Step) \in Nat \ {0}
  BY ConstantsAssumption, FS_CardinalityType, FS_EmptySet
<1>2. ASSUME NEW S, S \subseteq Step
      PROVE  IsFiniteSet(S) /\ Cardinality(S) \in 0..Cardinality(Step)
  BY <1>1, <1>2, FS_Subset, FewerElements
<1>3. /\ Remaining \subseteq Step /\ Idle \subseteq Step /\ Waiting \subseteq Step
      /\ Step \ marked \subseteq Step /\ Unsettled \subseteq Step
  BY DEF Remaining, Idle, Waiting, Unsettled
<1> QED
  BY <1>1, <1>2, <1>3

\* The attempt that is counted is one that is left, and there are no more groups than steps.
LEMMA WorkBounded ==
  ASSUME IInv, SortInv, LevelInv
  PROVE  Work \in 0..(2 + (5 + Retries) * Cardinality(Step))
<1> DEFINE n == Cardinality(Unsettled)
           all == Cardinality(Step)
<1>1. n \in 0..all /\ all \in Nat \ {0} /\ Retries \in Nat \ {0}
  BY WorkCounted, ConstantsAssumption
<1>2. attempt \in 0..(Retries - 1)
  BY DEF IInv, TypeOK
<1>3. attempt # 0 => n > 0
  <2> SUFFICES ASSUME attempt # 0 PROVE n # 0
    BY <1>1
  <2>1. PICK s \in Step : s \in todo
    BY DEF IInv, TypeOK, LoopInv
  <2>2. s \in Unsettled
    BY <2>1 DEF IInv, TypeOK, GroupInv, Unsettled, Phase
  <2> QED
    BY <2>2, WorkCounted, FS_EmptySet
<1>4. level - 1 \in Nat /\ all - level \in 0..(all - 1)
  <2>1. level \in Nat /\ layers \in Nat /\ level >= 1 /\ (level = 1 \/ level <= layers)
    BY DEF IInv, TypeOK, PlanInv, LevelInv
  <2>2. layers <= all
    BY <2>1, SortedCount DEF SortInv
  <2> QED
    BY <1>1, <2>1, <2>2
<1>5. PhasesLeft \in 0..3
  BY DEF PhasesLeft
<1> HIDE DEF n, all
<1>6. n > 0 => Retries * 0 + Retries <= Retries * n
  BY <1>1, AttemptsOf
<1>7. n < all => Retries * n + Retries <= Retries * all
  BY <1>1, AttemptsOf
<1>8. /\ Retries * n \in Nat /\ Retries * all \in Nat
      /\ (5 + Retries) * all = 5 * all + Retries * all
  BY <1>1
<1>9. Retries * n - attempt \in 0..(Retries * all)
  <2>1. Retries * n <= Retries * all
    BY <1>1, <1>7, <1>8
  <2>2. attempt <= Retries * n
    BY <1>1, <1>2, <1>3, <1>6, <1>8
  <2> QED
    BY <1>2, <1>8, <2>1, <2>2
<1>10. Work \in 0..(2 + 5 * all + Retries * all)
  BY <1>1, <1>4, <1>5, <1>8, <1>9, WorkCounted DEF Work, n, all
<1>11. 2 + (5 + Retries) * all = 2 + 5 * all + Retries * all
  <2>1. 5 * all \in Nat
    BY <1>1
  <2> QED
    BY <1>8, <2>1
<1>12. Work \in 0..(2 + (5 + Retries) * all)
  BY ONLY <1>10, <1>11
<1> QED
  BY <1>12 DEF all

\* A step that takes something away, and adds nothing, takes from the work.
LEMMA LessWork ==
  ASSUME IInv, TypeOK', PhasesLeft' <= PhasesLeft, Remaining' \subseteq Remaining,
         Idle' \subseteq Idle, Waiting' \subseteq Waiting, marked \subseteq marked',
         level' >= level, Unsettled' \subseteq Unsettled,
         \/ Unsettled' = Unsettled /\ attempt' >= attempt
         \/ Unsettled' # Unsettled /\ attempt' = 0,
         \/ PhasesLeft' < PhasesLeft \/ Remaining' # Remaining \/ Idle' # Idle
         \/ Waiting' # Waiting \/ ~(marked' \subseteq marked) \/ level' > level
         \/ attempt' > attempt \/ Unsettled' # Unsettled
  PROVE  Work' < Work
<1> DEFINE n == Cardinality(Unsettled)
           i == Cardinality(Idle)
           r == Cardinality(Remaining)
           w == Cardinality(Waiting)
           m == Cardinality(Step \ marked)
<1>1. /\ i \in Nat /\ i' \in Nat /\ i' <= i /\ (Idle' # Idle => i' < i)
      /\ r \in Nat /\ r' \in Nat /\ r' <= r /\ (Remaining' # Remaining => r' < r)
      /\ w \in Nat /\ w' \in Nat /\ w' <= w /\ (Waiting' # Waiting => w' < w)
  BY WorkCounted, FewerElements
<1>2. /\ m \in Nat /\ m' \in Nat /\ m' <= m
      /\ ~(marked' \subseteq marked) => m' < m
  <2>1. Step \ marked' \subseteq Step \ marked
    OBVIOUS
  <2>2. ~(marked' \subseteq marked) => Step \ marked' # Step \ marked
    BY DEF TypeOK
  <2>3. Cardinality(Step \ marked') = m'
    OBVIOUS
  <2> HIDE DEF m
  <2>4. m = Cardinality(Step \ marked)
    BY DEF m
  <2> QED
    BY <2>1, <2>2, <2>3, <2>4, WorkCounted, FewerElements
<1>3. /\ n \in Nat /\ n' \in Nat /\ (Unsettled' # Unsettled => n' < n)
      /\ Unsettled' = Unsettled => n' = n
  BY WorkCounted, FewerElements
<1>4. PhasesLeft \in Nat /\ PhasesLeft' \in Nat
  BY DEF PhasesLeft
<1>5. /\ Retries \in Nat \ {0} /\ attempt \in 0..(Retries - 1) /\ attempt' \in Nat
      /\ Retries * n \in Nat /\ Retries * n' \in Nat
      /\ level \in Nat /\ level' \in Nat /\ Cardinality(Step) \in Nat
  BY <1>3, WorkCounted, ConstantsAssumption DEF IInv, TypeOK
<1>6. Unsettled' # Unsettled => Retries * n' - attempt' < Retries * n - attempt
  <2> SUFFICES ASSUME Unsettled' # Unsettled PROVE Retries * n' - attempt' < Retries * n - attempt
    OBVIOUS
  <2>1. n' < n
    BY <1>3
  <2>2. Retries * n' + Retries <= Retries * n
    BY <1>3, <1>5, <2>1, AttemptsOf
  <2> QED
    BY <1>5, <2>2
<1>7. /\ Retries * n' - attempt' <= Retries * n - attempt
      /\ attempt' > attempt => Retries * n' - attempt' < Retries * n - attempt
  BY <1>3, <1>5, <1>6
<1>8. /\ Work = PhasesLeft + r + i + w + m + (Cardinality(Step) - level) + (Retries * n - attempt)
      /\ Work' = PhasesLeft' + r' + i' + w' + m' + (Cardinality(Step) - level')
                    + (Retries * n' - attempt')
  BY DEF Work
<1> HIDE DEF n, i, r, w, m
<1> QED
  BY <1>1, <1>2, <1>4, <1>5, <1>6, <1>7, <1>8

\* Every step uses up some of a bounded amount of work (WorkRunsOut).
THEOREM WorkDoesRunOut == Spec => WorkRunsOut
<1> DEFINE Shrinks == Work' < Work
           Bounded == Work \in 0..(2 + (5 + Retries) * Cardinality(Step))
<1>1. ASSUME IInv, [Next]_vars PROVE [Shrinks]_vars
  <2> SUFFICES ASSUME Next PROVE Shrinks
    BY <1>1
  <2>0. ASSUME PhasesLeft' <= PhasesLeft, Remaining' \subseteq Remaining,
               Idle' \subseteq Idle, Waiting' \subseteq Waiting, marked \subseteq marked',
               level' >= level, Unsettled' \subseteq Unsettled,
               \/ Unsettled' = Unsettled /\ attempt' >= attempt
               \/ Unsettled' # Unsettled /\ attempt' = 0,
               \/ PhasesLeft' < PhasesLeft \/ Remaining' # Remaining \/ Idle' # Idle
               \/ Waiting' # Waiting \/ ~(marked' \subseteq marked) \/ level' > level
               \/ attempt' > attempt \/ Unsettled' # Unsettled
        PROVE  Shrinks
    <3>1. TypeOK'
      BY <1>1, TypeOKStep
    <3> QED
      BY <1>1, <2>0, <3>1, LessWork
  <2> HIDE DEF Shrinks
  <2>n. /\ PhasesLeft \in Nat /\ PhasesLeft' \in Nat /\ attempt \in Nat /\ attempt' \in Nat
        /\ level \in Nat /\ level' \in Nat
    BY <1>1, TypeOKStep, ConstantsAssumption DEF IInv, TypeOK, PhasesLeft
  <2> USE <1>1, <2>n DEF IInv, TypeOK
  <2>1. CASE AddLayer
    <3>1. PICK s \in Step : s \in Ready /\ s \in Remaining /\ s \notin Remaining'
      BY <2>1 DEF AddLayer, Ready, Remaining
    <3>2. Remaining' \subseteq Remaining
      BY <2>1 DEF AddLayer, Remaining, Ready
    <3>3. UNCHANGED <<PhasesLeft, Idle, Waiting, marked, level, Unsettled, attempt>>
      BY <2>1 DEF AddLayer, PhasesLeft, Idle, Waiting, Unsettled, undoVars
    <3> QED
      BY <2>0, <3>1, <3>2, <3>3
  <2>2. ASSUME UNCHANGED <<planVars, marked, attempt, report, effect>>, level' >= level,
               PhasesLeft' <= PhasesLeft, PhasesLeft' < PhasesLeft \/ level' > level
        PROVE  Shrinks
    <3>1. UNCHANGED <<Remaining, Idle, Waiting, Unsettled>>
      BY <2>2 DEF planVars, Remaining, Idle, Waiting, Unsettled
    <3> QED
      BY <2>0, <2>2, <3>1
  <2>3. CASE Refuse \/ Begin \/ TurnBack \/ Return
    BY <2>2, <2>3 DEF Refuse, Begin, TurnBack, Return, PhasesLeft, undoVars
  <2>4. CASE NextGroup
    BY <2>2, <2>4 DEF NextGroup, PhasesLeft, undoVars
  <2>5. ASSUME NEW s \in Step, s \in Idle, effect' = [effect EXCEPT ![s] = 1],
               UNCHANGED <<planVars, pc, level, report, undoVars>>
        PROVE  Shrinks
    <3>1. Idle' \subseteq Idle /\ s \notin Idle'
      BY <2>5 DEF Idle
    <3>2. UNCHANGED <<PhasesLeft, Remaining, Waiting, Unsettled, marked, attempt, level>>
      BY <2>5 DEF PhasesLeft, Remaining, Waiting, Unsettled, planVars, undoVars
    <3> QED
      BY <2>0, <2>5, <3>1, <3>2
  <2>6. ASSUME NEW s \in Step, Act(s) \/ LateEffect(s) PROVE Shrinks
    <3>1. s \in Idle
      BY <2>6 DEF Act, At, LateEffect, EffectInv, Idle
    <3> QED
      BY <2>5, <2>6, <3>1 DEF Act, LateEffect
  <2>7. ASSUME NEW s \in Step, At(s), NEW status \in {"ForwardDone", "ForwardFailed"},
               Done(s, status), status = "ForwardDone" => effect[s] = 1
        PROVE  Shrinks
    <3>1. /\ Waiting' \subseteq Waiting /\ s \in Waiting /\ s \notin Waiting'
          /\ Idle' \subseteq Idle /\ Unsettled' = Unsettled
      BY <2>7 DEF At, Done, Waiting, Idle, Unsettled
    <3>2. UNCHANGED <<PhasesLeft, Remaining, marked, attempt, level>>
      BY <2>7 DEF Done, PhasesLeft, Remaining, planVars, undoVars
    <3> QED
      BY <2>0, <3>1, <3>2
  <2>8. ASSUME NEW s \in Step, ForwardOk(s) \/ ForwardErr(s) \/ ForwardTimeout(s) PROVE Shrinks
    BY <2>7, <2>8 DEF ForwardOk, ForwardErr, ForwardTimeout
  <2>9. ASSUME NEW s \in Step, Mark(s) PROVE Shrinks
    <3>1. /\ marked \subseteq marked' /\ ~(marked' \subseteq marked)
          /\ UNCHANGED <<PhasesLeft, Remaining, Idle, Waiting, Unsettled, attempt, level>>
      BY <2>9 DEF Mark, LastLeft, PhasesLeft, Remaining, Idle, Waiting, Unsettled, planVars
    <3> QED
      BY <2>0, <3>1
  <2>10. ASSUME NEW s \in Step, NEW e, AtCompensate(s), effect' = [effect EXCEPT ![s] = e],
                UNCHANGED <<planVars, pc, level, marked, late>>,
                \/ attempt' > attempt /\ UNCHANGED report
                \/ \E status \in {"Compensated", "CompensateFailed"} : MoveOn(s, status)
         PROVE  Shrinks
    <3>1. report[s] = "ForwardDone"
      BY <2>10 DEF AtCompensate, GroupInv
    <3>2. /\ Idle' \subseteq Idle /\ Waiting' \subseteq Waiting /\ Unsettled' \subseteq Unsettled
          /\ UNCHANGED <<PhasesLeft, Remaining>>
      BY <2>10, <3>1 DEF MoveOn, Idle, Waiting, Unsettled, PhasesLeft, Remaining, planVars
    <3>3. CASE attempt' > attempt /\ UNCHANGED report
      BY <2>0, <2>10, <3>2, <3>3 DEF Unsettled
    <3>4. ASSUME NEW status \in {"Compensated", "CompensateFailed"}, MoveOn(s, status)
          PROVE  Shrinks
      <4>1. s \in Unsettled /\ s \notin Unsettled' /\ attempt' = 0
        BY <3>1, <3>4 DEF MoveOn, Unsettled
      <4> QED
        BY <2>0, <2>10, <3>2, <4>1
    <3> QED
      BY <2>10, <3>3, <3>4
  <2>11. ASSUME NEW s \in Step, CompensateOk(s) PROVE Shrinks
    BY <2>10, <2>11 DEF CompensateOk
  <2>12. ASSUME NEW s \in Step, CompensateErr(s) PROVE Shrinks
    <3>1. PICK e \in {effect[s], Undone(s)} : effect' = [effect EXCEPT ![s] = e]
      BY <2>12 DEF CompensateErr
    <3>2. (attempt' > attempt /\ UNCHANGED report) \/ MoveOn(s, "CompensateFailed")
      BY <2>12, ConstantsAssumption DEF CompensateErr
    <3> QED
      BY <2>10, <2>12, <3>1, <3>2 DEF CompensateErr
  <2> QED
    BY <2>1, <2>3, <2>4, <2>6, <2>8, <2>9, <2>11, <2>12 DEF Next, Execute, Forward, Compensate
<1>2. ASSUME IInv, SortInv, LevelInv PROVE Bounded
  BY <1>2, WorkBounded
<1> QED
  BY <1>1, <1>2, InductiveInvariant, SortInvariant, LevelInvariant, PTL DEF Spec, WorkRunsOut
================================================================================

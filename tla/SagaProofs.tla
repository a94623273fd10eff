------------------------------- MODULE SagaProofs -------------------------------
(***************************************************************************)
(* Theorems about Saga, for any number of steps and attempts, with and     *)
(* without a timer, whichever steps leak or are idempotent: the type       *)
(* invariant, that the log and the answer tell the truth, that a step is   *)
(* undone at most Retries times, that steps are undone in reverse, and     *)
(* that every step of the saga leaves less to do.  And for steps that fail *)
(* before they act: what is compensated is rolled back.                    *)
(***************************************************************************)
EXTENDS Saga, FiniteSetTheorems, TLAPS

\* The inductive invariant holds at the start.
LEMMA InitIInv == Init => IInv
BY ConstantsAssumption
DEF Init, IInv, TypeOK, BookInv, EffectInv, LoopInv, AbandonedInv, PhaseInv, Step,
    Phase, StepStatus, TxState, Failed, Stuck, AtForward

\* Every step keeps the variables in their types.
LEMMA TypeOKStep == TypeOK /\ [Next]_vars => TypeOK'
<1> SUFFICES ASSUME TypeOK, [Next]_vars PROVE TypeOK'
  OBVIOUS
<1> USE ConstantsAssumption DEF TypeOK, Step, Phase, StepStatus, TxState
<1>1. CASE Save
  BY <1>1 DEF Save
<1>2. ASSUME NEW s \in Step, Act(s) PROVE TypeOK'
  BY <1>2 DEF Act
<1>3. ASSUME NEW s \in Step, ForwardOk(s) PROVE TypeOK'
  BY <1>3 DEF ForwardOk
<1>4. ASSUME NEW s \in Step, ForwardErr(s) PROVE TypeOK'
  BY <1>4 DEF ForwardErr, TurnBack
<1>5. ASSUME NEW s \in Step, ForwardTimeout(s) PROVE TypeOK'
  BY <1>5 DEF ForwardTimeout, TurnBack
<1>6. CASE LateEffect
  BY <1>6 DEF LateEffect
<1>7. ASSUME NEW s \in Step, CompensateOk(s) PROVE TypeOK'
  BY <1>7 DEF CompensateOk, MoveOn, Undone
<1>8. ASSUME NEW s \in Step, CompensateErr(s) PROVE TypeOK'
  <2>1. effect' \in [Step -> Int]
    <3>1. effect[s] \in Int /\ Undone(s) \in Int
      BY DEF Undone
    <3>2. PICK e \in {effect[s], Undone(s)} : effect' = [effect EXCEPT ![s] = e]
      BY <1>8 DEF CompensateErr
    <3> QED
      BY <3>1, <3>2
  <2>2. /\ attempt' \in 0..(Retries - 1) /\ report' \in [Step -> StepStatus]
        /\ todo' \subseteq completed
    <3>1. CASE attempt + 1 < Retries /\ attempt' = attempt + 1 /\ UNCHANGED <<report, todo>>
      BY <3>1
    <3>2. CASE MoveOn(s, "CompensateFailed")
      BY <3>2 DEF MoveOn
    <3> QED
      BY <1>8, <3>1, <3>2 DEF CompensateErr
  <2>3. UNCHANGED <<pc, completed, abandoned, log, verdict>>
    BY <1>8 DEF CompensateErr
  <2> QED
    BY <2>1, <2>2, <2>3
<1>9. CASE UpdateState
  BY <1>9 DEF UpdateState, FinalState
<1>10. CASE Answer
  BY <1>10 DEF Answer
<1>11. CASE Crash
  <2>1. effect' \in [Step -> Int]
    BY <1>11 DEF Crash, Undone
  <2>2. abandoned' \in {0} \cup Step
    BY <1>11 DEF Crash
  <2> QED
    BY <1>11, <2>1, <2>2 DEF Crash
<1>12. CASE UNCHANGED vars
  BY <1>12 DEF vars
<1> QED
  BY <1>1, <1>2, <1>3, <1>4, <1>5, <1>6, <1>7, <1>8, <1>9, <1>10, <1>11, <1>12 DEF Next

\* The loops keep their books.
LEMMA BookStep == IInv /\ [Next]_vars => BookInv'
<1> SUFFICES ASSUME IInv, [Next]_vars PROVE BookInv'
  OBVIOUS
<1> USE ConstantsAssumption DEF IInv, TypeOK, BookInv, Failed
<1>1. CASE Save
  BY <1>1 DEF Save
<1>2. ASSUME NEW s \in Step, Act(s) PROVE BookInv'
  BY <1>2 DEF Act
<1>3. ASSUME NEW s \in Step, ForwardOk(s) PROVE BookInv'
  <2>1. Failed = {} /\ todo = {}
    BY <1>3 DEF ForwardOk, AtForward, PhaseInv
  <2>2. \A c \in completed', t \in Step : t < c => t \in completed'
    BY <1>3 DEF ForwardOk, AtForward
  <2> QED
    BY <1>3, <2>1, <2>2 DEF ForwardOk, AtForward
<1>4. ASSUME NEW s \in Step, AtForward(s), TurnBack(s) PROVE BookInv'
  <2>1. Failed = {} /\ s \in Failed'
    BY <1>4 DEF AtForward, TurnBack, PhaseInv
  <2>2. attempt' = 0
    BY <1>4, <2>1 DEF TurnBack
  <2> QED
    BY <1>4, <2>1, <2>2 DEF AtForward, TurnBack
<1>5. CASE LateEffect
  BY <1>5 DEF LateEffect
<1>6. ASSUME NEW s \in Step, NEW status \in {"Compensated", "CompensateFailed"},
             AtCompensate(s), MoveOn(s, status), UNCHANGED completed
      PROVE  BookInv'
  <2>1. report[s] = "ForwardDone" /\ s \in completed
    BY <1>6 DEF AtCompensate
  <2>2. Failed' = Failed /\ Failed # {}
    BY <1>6, <2>1 DEF AtCompensate, MoveOn, PhaseInv
  <2> QED
    BY <1>6, <2>1, <2>2 DEF MoveOn
<1>7. ASSUME NEW s \in Step, CompensateOk(s) PROVE BookInv'
  BY <1>6, <1>7 DEF CompensateOk
<1>8. ASSUME NEW s \in Step, CompensateErr(s) PROVE BookInv'
  <2>1. CASE UNCHANGED <<report, todo>>
    BY <1>8, <2>1 DEF CompensateErr, AtCompensate
  <2>2. CASE MoveOn(s, "CompensateFailed")
    BY <1>6, <1>8, <2>2 DEF CompensateErr
  <2> QED
    BY <1>8, <2>1, <2>2 DEF CompensateErr
<1>9. CASE UpdateState
  BY <1>9 DEF UpdateState
<1>10. CASE Answer
  BY <1>10 DEF Answer
<1>11. CASE Crash
  BY <1>11 DEF Crash
<1>12. CASE UNCHANGED vars
  BY <1>12 DEF vars
<1> QED
  BY <1>1, <1>2, <1>3, <1>4, <1>5, <1>7, <1>8, <1>9, <1>10, <1>11, <1>12
  DEF Next, ForwardErr, ForwardTimeout

\* What a compensation makes of the effect of a step that has used fewer than
\* Retries attempts.
LEMMA UndoneBound ==
  ASSUME IInv, NEW s \in Step, AtCompensate(s)
  PROVE  /\ Undone(s) \in (1 - Retries)..0
         /\ Undone(s) >= 0 - attempt
         /\ s \in Idempotent => Undone(s) = 0
BY ConstantsAssumption
DEF IInv, TypeOK, EffectInv, LoopInv, AtCompensate, Undone, Step

\* Every step keeps EffectInv.
LEMMA EffectStep == IInv /\ [Next]_vars => EffectInv'
<1> SUFFICES ASSUME IInv, [Next]_vars PROVE EffectInv'
  OBVIOUS
<1> USE ConstantsAssumption DEF IInv, TypeOK, EffectInv
<1>1. CASE Save
  BY <1>1 DEF Save, PhaseInv, AtForward, Failed
<1>2. ASSUME NEW s \in Step, Act(s) PROVE EffectInv'
  BY <1>2 DEF Act, AtForward, PhaseInv, BookInv, Failed
<1>3. ASSUME NEW s \in Step, ForwardOk(s) PROVE EffectInv'
  <2>1. Failed = {} /\ Failed' = {}
    BY <1>3 DEF ForwardOk, AtForward, PhaseInv, Failed
  <2>2. \A t \in Step \ {s} : ~AtForward(t)
    BY <1>3 DEF ForwardOk, AtForward, Step
  <2> QED
    BY <1>3, <2>1, <2>2 DEF ForwardOk, AtForward, PhaseInv
<1>4. ASSUME NEW s \in Step, AtForward(s), TurnBack(s),
             effect[s] = 1 => HasTimeout \/ s \in Leaky
      PROVE  EffectInv'
  <2>1. s \in Failed'
    BY <1>4 DEF TurnBack, Failed
  <2>2. \A t \in Step \ {s} : ~AtForward(t)
    BY <1>4 DEF AtForward, Step
  <2> QED
    BY <1>4, <2>1, <2>2 DEF TurnBack, AtForward
<1>5. CASE LateEffect
  <2>1. abandoned \in Step /\ abandoned \notin completed
    BY <1>5 DEF LateEffect, AbandonedInv, BookInv
  <2>2. report[abandoned] # "Compensated"
    BY <1>5 DEF LateEffect, AbandonedInv
  <2>3. \A s \in Step : AtForward(s)' = AtForward(s)
    BY <1>5 DEF LateEffect, AtForward
  <2> QED
    BY <1>5, <2>1, <2>2, <2>3 DEF LateEffect, AbandonedInv, Failed
<1>6. ASSUME NEW s \in Step, AtCompensate(s), NEW e \in {effect[s], Undone(s)},
             effect' = [effect EXCEPT ![s] = e],
             UNCHANGED <<completed, log, verdict>>,
             pc' \in {"compensate", "crashed"},
             \/ UNCHANGED report
             \/ report' = [report EXCEPT ![s] = "CompensateFailed"]
             \/ report' = [report EXCEPT ![s] = "Compensated"] /\ e = Undone(s)
      PROVE  EffectInv'
  <2>1. s \in completed /\ Failed # {} /\ report[s] = "ForwardDone"
    BY <1>6 DEF AtCompensate, PhaseInv, BookInv
  <2>2. Failed' = Failed
    BY <1>6, <2>1 DEF Failed
  <2>3. \A t \in Step : ~AtForward(t)
    BY <1>6 DEF AtCompensate, AtForward
  <2>4. \A t \in Step \ {s} : effect'[t] = effect[t] /\ report'[t] = report[t]
    BY <1>6
  <2>5. effect'[s] = e /\ e \in (1 - Retries)..1
    BY <1>6, UndoneBound
  <2>6. report'[s] # "Pending" /\ report'[s] # "ForwardFailed"
    BY <1>6, <2>1
  <2>7. report'[s] = "Compensated" => e <= 0 /\ (s \in Idempotent => e = 0)
    BY <1>6, <2>1, UndoneBound
  <2>8. pc # "crashed" /\ \A t \in Step : ~AtForward(t)'
    BY <1>6 DEF AtCompensate, AtForward
  <2> SUFFICES ASSUME NEW t \in Step
               PROVE  /\ effect'[t] \in (1 - Retries)..1
                      /\ t \notin completed' => effect'[t] \in {0, 1}
                      /\ report'[t] = "Pending" => effect'[t] # 1
                      /\ report'[t] = "ForwardFailed" /\ effect'[t] = 1
                           => HasTimeout \/ t \in Leaky
                      /\ report'[t] = "Compensated"
                           => effect'[t] <= 0 /\ (t \in Idempotent => effect'[t] = 0)
    BY <2>1, <2>2
  <2>9. CASE t = s
    BY <1>6, <2>1, <2>5, <2>6, <2>7, <2>9
  <2>10. CASE t # s
    BY <1>6, <2>3, <2>4, <2>8, <2>10
  <2> QED
    BY <2>9, <2>10
<1>7. ASSUME NEW s \in Step, CompensateOk(s) PROVE EffectInv'
  <2>1. pc' = "compensate"
    BY <1>7 DEF CompensateOk, AtCompensate
  <2> QED
    BY <1>6, <1>7, <2>1 DEF CompensateOk, MoveOn
<1>8. ASSUME NEW s \in Step, CompensateErr(s) PROVE EffectInv'
  <2>1. pc' = "compensate"
    BY <1>8 DEF CompensateErr, AtCompensate
  <2>2. PICK e \in {effect[s], Undone(s)} : effect' = [effect EXCEPT ![s] = e]
    BY <1>8 DEF CompensateErr
  <2>3. UNCHANGED report \/ report' = [report EXCEPT ![s] = "CompensateFailed"]
    BY <1>8 DEF CompensateErr, MoveOn
  <2> QED
    BY <1>6, <1>8, <2>1, <2>2, <2>3 DEF CompensateErr
<1>9. CASE UpdateState
  BY <1>9 DEF UpdateState, AtForward, Failed
<1>10. CASE Answer
  BY <1>10 DEF Answer, AtForward, Failed
<1>11. CASE Crash
  <2>1. CASE UNCHANGED effect
    BY <1>11, <2>1 DEF Crash, AtForward, PhaseInv, Failed
  <2>2. ASSUME NEW s \in Step, AtCompensate(s), effect' = [effect EXCEPT ![s] = Undone(s)]
        PROVE  EffectInv'
    BY <1>6, <1>11, <2>2 DEF Crash
  <2> QED
    BY <1>11, <2>1, <2>2 DEF Crash
<1>12. CASE UNCHANGED vars
  BY <1>12 DEF vars, AtForward, Failed
<1> QED
  BY <1>1, <1>2, <1>3, <1>4, <1>5, <1>7, <1>8, <1>9, <1>10, <1>11, <1>12
  DEF Next, ForwardErr, ForwardTimeout

\* Every step keeps LoopInv.
LEMMA LoopStep == IInv /\ [Next]_vars => LoopInv'
<1> SUFFICES ASSUME IInv, [Next]_vars PROVE LoopInv'
  OBVIOUS
<1> USE ConstantsAssumption DEF IInv, TypeOK, LoopInv
<1>1. CASE Save
  BY <1>1 DEF Save, BookInv, PhaseInv
<1>2. ASSUME NEW s \in Step, Act(s) PROVE LoopInv'
  BY <1>2 DEF Act, AtForward, BookInv, PhaseInv
<1>3. ASSUME NEW s \in Step, ForwardOk(s) PROVE LoopInv'
  BY <1>3 DEF ForwardOk, AtForward
<1>4. ASSUME NEW s \in Step, AtForward(s), TurnBack(s) PROVE LoopInv'
  BY <1>4 DEF AtForward, TurnBack, EffectInv, PhaseInv
<1>5. CASE LateEffect
  <2>1. abandoned \notin todo
    BY <1>5 DEF LateEffect, AbandonedInv, BookInv
  <2> QED
    BY <1>5, <2>1 DEF LateEffect
<1>6. ASSUME NEW s \in Step, NEW status, AtCompensate(s), MoveOn(s, status),
             UNCHANGED pc, NEW e, effect' = [effect EXCEPT ![s] = e]
      PROVE  LoopInv'
  <2>1. \A t \in todo' : t \in todo /\ t # s /\ effect'[t] = effect[t]
    BY <1>6 DEF MoveOn
  <2>2. \A t \in todo' : t < s
    <3>1. ASSUME NEW t \in todo, t # s, t <= s PROVE t < s
      BY <3>1 DEF Step
    <3>2. \A t \in todo : t <= s
      BY <1>6 DEF AtCompensate
    <3> QED
      BY <2>1, <3>1, <3>2
  <2>3. \A t \in todo' : effect[t] = 1
    BY <1>6, <2>1, <2>2 DEF AtCompensate
  <2> QED
    BY <1>6, <2>1, <2>3 DEF MoveOn
<1>7. ASSUME NEW s \in Step, CompensateOk(s) PROVE LoopInv'
  BY <1>6, <1>7 DEF CompensateOk
<1>8. ASSUME NEW s \in Step, CompensateErr(s) PROVE LoopInv'
  <2>1. PICK e \in {effect[s], Undone(s)} : effect' = [effect EXCEPT ![s] = e]
    BY <1>8 DEF CompensateErr
  <2>2. CASE MoveOn(s, "CompensateFailed")
    BY <1>6, <1>8, <2>1, <2>2 DEF CompensateErr
  <2>3. CASE attempt' = attempt + 1 /\ UNCHANGED <<report, todo>>
    <3>1. e >= 0 - attempt
      BY <1>8, <2>1, UndoneBound DEF CompensateErr, AtCompensate
    <3>2. \A t \in todo : t # s => effect'[t] = effect[t]
      BY <2>1
    <3>3. \A t \in todo : ~(s < t)
      BY <1>8 DEF CompensateErr, AtCompensate, Step
    <3> QED
      BY <1>8, <2>1, <2>3, <3>1, <3>2, <3>3 DEF CompensateErr, AtCompensate
  <2> QED
    BY <1>8, <2>2, <2>3 DEF CompensateErr
<1>9. CASE UpdateState
  BY <1>9 DEF UpdateState, BookInv, PhaseInv
<1>10. CASE Answer
  BY <1>10 DEF Answer
<1>11. CASE Crash
  BY <1>11 DEF Crash
<1>12. CASE UNCHANGED vars
  BY <1>12 DEF vars
<1> QED
  BY <1>1, <1>2, <1>3, <1>4, <1>5, <1>7, <1>8, <1>9, <1>10, <1>11, <1>12
  DEF Next, ForwardErr, ForwardTimeout

\* Every step keeps AbandonedInv.
LEMMA AbandonedStep == IInv /\ [Next]_vars => AbandonedInv'
<1> SUFFICES ASSUME IInv, [Next]_vars PROVE AbandonedInv'
  OBVIOUS
<1> USE ConstantsAssumption DEF IInv, TypeOK, AbandonedInv
<1>1. CASE Save
  BY <1>1 DEF Save, PhaseInv, Failed
<1>2. ASSUME NEW s \in Step, AtForward(s) PROVE abandoned = 0
  BY <1>2 DEF AtForward, PhaseInv, Failed
<1>3. ASSUME NEW s \in Step, AtForward(s), UNCHANGED abandoned PROVE AbandonedInv'
  BY <1>2, <1>3
<1>4. ASSUME NEW s \in Step, ForwardTimeout(s) PROVE AbandonedInv'
  BY <1>4 DEF ForwardTimeout, TurnBack, AtForward, Step
<1>5. CASE LateEffect
  BY <1>5 DEF LateEffect
<1>6. ASSUME NEW s \in Step, AtCompensate(s), NEW e, effect' = [effect EXCEPT ![s] = e],
             UNCHANGED <<abandoned, log, verdict>>,
             \/ UNCHANGED report
             \/ \E status \in {"Compensated", "CompensateFailed"} :
                  report' = [report EXCEPT ![s] = status]
      PROVE  AbandonedInv'
  <2>1. pc = "compensate" /\ report[s] = "ForwardDone"
    BY <1>6 DEF AtCompensate, BookInv, PhaseInv
  <2>2. abandoned # 0 => report[abandoned] = "ForwardFailed" /\ HasTimeout
    BY <2>1
  <2>3. abandoned # 0 => abandoned # s
    BY <2>1, <2>2
  <2> QED
    BY <1>6, <2>2, <2>3
<1>7. ASSUME NEW s \in Step, CompensateOk(s) PROVE AbandonedInv'
  BY <1>6, <1>7 DEF CompensateOk, MoveOn
<1>8. ASSUME NEW s \in Step, CompensateErr(s) PROVE AbandonedInv'
  <2>1. PICK e \in {effect[s], Undone(s)} : effect' = [effect EXCEPT ![s] = e]
    BY <1>8 DEF CompensateErr
  <2> QED
    BY <1>6, <1>8, <2>1 DEF CompensateErr, MoveOn
<1>9. CASE UpdateState
  <2>1. abandoned # 0 => report[abandoned] = "ForwardFailed" /\ HasTimeout
    BY <1>9 DEF UpdateState
  <2> QED
    BY <1>9, <2>1 DEF UpdateState
<1>10. CASE Answer
  BY <1>10 DEF Answer
<1>11. CASE Crash
  <2>1. ASSUME NEW s \in Step, AtForward(s), effect[s] = 0, abandoned' = s
        PROVE  AbandonedInv'
    <3>1. report[s] = "Pending" /\ Failed = {} /\ log = "running" /\ verdict = "none"
      BY <2>1 DEF AtForward, BookInv, PhaseInv, Failed, StepStatus
    <3>2. \A t \in Step : ~AtCompensate(t)
      BY <2>1 DEF AtForward, AtCompensate
    <3> QED
      BY <1>11, <2>1, <3>1, <3>2 DEF Crash, Failed
  <2>2. CASE UNCHANGED <<abandoned, effect>>
    BY <1>11, <2>2 DEF Crash, Failed
  <2>3. ASSUME NEW s \in Step, AtCompensate(s), effect' = [effect EXCEPT ![s] = Undone(s)],
               UNCHANGED abandoned
        PROVE  AbandonedInv'
    BY <1>6, <1>11, <2>3 DEF Crash
  <2> QED
    BY <1>11, <2>1, <2>2, <2>3 DEF Crash
<1>12. CASE UNCHANGED vars
  BY <1>12 DEF vars, Failed
<1>13. ASSUME NEW s \in Step, Act(s) PROVE AbandonedInv'
  BY <1>3, <1>13 DEF Act
<1>14. ASSUME NEW s \in Step, ForwardOk(s) PROVE AbandonedInv'
  BY <1>3, <1>14 DEF ForwardOk
<1>15. ASSUME NEW s \in Step, ForwardErr(s) PROVE AbandonedInv'
  BY <1>3, <1>15 DEF ForwardErr
<1> QED
  BY <1>1, <1>4, <1>5, <1>7, <1>8, <1>9, <1>10, <1>11, <1>12, <1>13, <1>14, <1>15 DEF Next

\* Every step keeps PhaseInv.
LEMMA PhaseStep == IInv /\ [Next]_vars => PhaseInv'
<1> SUFFICES ASSUME IInv, [Next]_vars PROVE PhaseInv'
  OBVIOUS
<1> USE DEF IInv, TypeOK, PhaseInv, Failed, Stuck, TxState
<1>1. CASE Save
  BY <1>1 DEF Save
<1>2. ASSUME NEW s \in Step, Act(s) PROVE PhaseInv'
  BY <1>2 DEF Act
<1>3. ASSUME NEW s \in Step, ForwardOk(s) PROVE PhaseInv'
  BY <1>3 DEF ForwardOk, AtForward
<1>4. ASSUME NEW s \in Step, AtForward(s), TurnBack(s) PROVE PhaseInv'
  BY <1>4 DEF AtForward, TurnBack
<1>5. CASE LateEffect
  BY <1>5 DEF LateEffect
<1>6. ASSUME NEW s \in Step, AtCompensate(s), UNCHANGED <<pc, completed, log, verdict>>,
             report[s] = "ForwardDone",
             \/ UNCHANGED report
             \/ \E status \in {"Compensated", "CompensateFailed"} :
                  report' = [report EXCEPT ![s] = status]
      PROVE  PhaseInv'
  <2>1. Failed' = Failed
    BY <1>6
  <2> QED
    BY <1>6, <2>1 DEF AtCompensate
<1>7. ASSUME NEW s \in Step, CompensateOk(s) PROVE PhaseInv'
  BY <1>6, <1>7 DEF CompensateOk, MoveOn, AtCompensate, BookInv
<1>8. ASSUME NEW s \in Step, CompensateErr(s) PROVE PhaseInv'
  BY <1>6, <1>8 DEF CompensateErr, MoveOn, AtCompensate, BookInv
<1>9. CASE UpdateState
  BY <1>9 DEF UpdateState, FinalState
<1>10. CASE Answer
  BY <1>10 DEF Answer
<1>11. CASE Crash
  BY <1>11 DEF Crash
<1>12. CASE UNCHANGED vars
  BY <1>12 DEF vars
<1> QED
  BY <1>1, <1>2, <1>3, <1>4, <1>5, <1>7, <1>8, <1>9, <1>10, <1>11, <1>12
  DEF Next, ForwardErr, ForwardTimeout

--------------------------------------------------------------------------------
\* IInv is an invariant.
LEMMA InductiveInvariant == Spec => []IInv
<1>1. IInv /\ [Next]_vars => IInv'
  BY TypeOKStep, BookStep, EffectStep, LoopStep, AbandonedStep, PhaseStep DEF IInv
<1> QED
  BY <1>1, InitIInv, PTL DEF Spec

\* The variables keep their types.
THEOREM TypeCorrect == Spec => []TypeOK
<1>1. IInv => TypeOK
  BY DEF IInv
<1> QED
  BY <1>1, InductiveInvariant, PTL

\* What IInv says of a final state, be it logged or returned.
LEMMA FinalStateIsTrue == IInv => Truth(verdict)
<1> SUFFICES ASSUME IInv PROVE Truth(verdict)
  OBVIOUS
<1> USE DEF IInv, TypeOK, PhaseInv, EffectInv
<1>1. verdict = "committed" => \A s \in Step : effect[s] = 1
  OBVIOUS
<1>2. ASSUME verdict \in {"compensated", "manual_intervention"}, NEW s \in Step
      PROVE  Settled(s)
  <2>1. Failed # {} /\ report[s] # "ForwardDone"
    BY <1>2 DEF BookInv
  <2>2. CASE s \in completed
    <3>1. report[s] \in {"Compensated", "CompensateFailed"}
      BY <2>1, <2>2 DEF BookInv
    <3>2. effect[s] <= 1
      BY ConstantsAssumption
    <3> QED
      BY <3>1, <3>2 DEF Settled
  <2>3. CASE s \notin completed
    <3>1. report[s] \in {"Pending", "ForwardFailed"}
      BY <2>3 DEF BookInv, StepStatus
    <3>2. ~AtForward(s) /\ verdict # "none"
      BY <1>2, <2>1 DEF AtForward
    <3> QED
      BY <2>3, <3>1, <3>2 DEF Settled
  <2> QED
    BY <2>2, <2>3
<1> QED
  BY <1>1, <1>2 DEF Truth

\* The log tells the truth, also after a crash (LogTellsTruth).
THEOREM LogIsTrue == Spec => []LogTellsTruth
<1>1. ASSUME IInv PROVE LogTellsTruth
  <2>1. Truth(log)
    BY <1>1, FinalStateIsTrue DEF IInv, PhaseInv, Truth, TxState
  <2>2. ASSUME log = "absent", NEW s \in Step PROVE effect[s] = 0
    <3>1. report[s] = "Pending" /\ s \notin completed
      BY <1>1, <2>2 DEF IInv, TypeOK, BookInv, PhaseInv, Failed, StepStatus
    <3>2. ~AtForward(s)
      BY <1>1, <2>2 DEF IInv, PhaseInv, AtForward
    <3> QED
      BY <1>1, <2>2, <3>1, <3>2 DEF IInv, EffectInv
  <2> QED
    BY <2>1, <2>2 DEF LogTellsTruth
<1> QED
  BY <1>1, InductiveInvariant, PTL

\* What is returned is the truth, and what is logged (VerdictTellsTruth).
THEOREM VerdictIsTrue == Spec => []VerdictTellsTruth
<1>1. IInv => VerdictTellsTruth
  BY FinalStateIsTrue DEF IInv, PhaseInv, VerdictTellsTruth
<1> QED
  BY <1>1, InductiveInvariant, PTL

\* Retries bounds how often a step is undone (UndosBounded).
THEOREM UndosAreBounded == Spec => []UndosBounded
<1>1. IInv => UndosBounded
  BY DEF IInv, EffectInv, UndosBounded
<1> QED
  BY <1>1, InductiveInvariant, PTL

\* No step is undone while a later one stands (UndoInReverse).
THEOREM UndosAreInReverse == Spec => UndoInReverse
<1> DEFINE Reverse == \A s, t \in Step : effect'[s] < effect[s] /\ s < t
                                            => report[t] # "ForwardDone"
<1>1. ASSUME IInv, [Next]_vars PROVE [Reverse]_vars
  <2> SUFFICES ASSUME NEW s \in Step, NEW t \in Step, Next,
                      effect'[s] < effect[s], s < t, report[t] = "ForwardDone"
               PROVE  FALSE
    BY <1>1
  <2> USE <1>1 DEF IInv, TypeOK
  <2>1. ASSUME AtCompensate(s) PROVE FALSE
    <3>1. Failed # {}
      BY <2>1 DEF AtCompensate, PhaseInv
    <3>2. t \in todo
      BY <3>1 DEF BookInv
    <3> QED
      BY <2>1, <3>2 DEF AtCompensate, Step
  <2>2. ASSUME NEW u \in Step, NEW e, effect' = [effect EXCEPT ![u] = e] PROVE u = s
    BY <2>2
  <2>3. ASSUME NEW u \in Step, Act(u) PROVE FALSE
    BY <2>3 DEF Act
  <2>4. CASE LateEffect
    BY <2>4 DEF LateEffect, AbandonedInv
  <2>5. ASSUME NEW u \in Step, CompensateOk(u) PROVE FALSE
    BY <2>1, <2>2, <2>5 DEF CompensateOk
  <2>6. ASSUME NEW u \in Step, CompensateErr(u) PROVE FALSE
    BY <2>1, <2>2, <2>6 DEF CompensateErr
  <2>7. CASE Crash
    BY <2>1, <2>2, <2>7 DEF Crash
  <2>8. effect' # effect
    OBVIOUS
  <2> QED
    BY <2>3, <2>4, <2>5, <2>6, <2>7, <2>8
    DEF Next, Save, ForwardOk, ForwardErr, ForwardTimeout, TurnBack, UpdateState, Answer
<1> QED
  BY <1>1, InductiveInvariant, PTL DEF Spec, UndoInReverse

\* A saga answered as compensated has been rolled back (CompensatedIsRolledBack)
\* when a forward action that fails leaves nothing behind, no timer cuts one short,
\* and every compensation can be repeated.  create_with_saga sets no timer, but two
\* of its steps leak and one restores twice: there TLC finds the property violated.
THEOREM SoundStepsRollBack ==
  ASSUME Leaky = {}, ~HasTimeout, Idempotent = Step
  PROVE  Spec => []CompensatedIsRolledBack
<1>1. ASSUME IInv PROVE CompensatedIsRolledBack
  <2> SUFFICES ASSUME verdict = "compensated", NEW s \in Step PROVE effect[s] = 0
    BY DEF CompensatedIsRolledBack
  <2>1. Settled(s) /\ Stuck = {}
    BY <1>1, FinalStateIsTrue DEF Truth
  <2>2. report[s] # "CompensateFailed"
    BY <2>1 DEF Stuck
  <2>3. s \notin Leaky /\ s \in Idempotent
    OBVIOUS
  <2> QED
    BY <2>1, <2>2, <2>3 DEF Settled
<1> QED
  BY <1>1, InductiveInvariant, PTL
--------------------------------------------------------------------------------
\* A proper subset of a finite set has fewer elements.
LEMMA FewerElements ==
  ASSUME NEW S, NEW T, IsFiniteSet(S), T \subseteq S
  PROVE  /\ Cardinality(S) \in Nat /\ Cardinality(T) \in Nat
         /\ Cardinality(T) <= Cardinality(S)
         /\ T # S => Cardinality(T) < Cardinality(S)
BY FS_Subset, FS_CardinalityType

\* One step fewer to compensate is Retries attempts fewer.
LEMMA AttemptsOf ==
  ASSUME NEW r \in Nat \ {0}, NEW m \in Nat, NEW n \in Nat, m < n
  PROVE  r * m + r <= r * n
<1>1. PICK k \in Nat : n = m + 1 + k
  <2>1. n - m - 1 \in Nat /\ n = m + 1 + (n - m - 1)
    OBVIOUS
  <2> QED
    BY <2>1
<1>2. r * n = r * m + r + r * k
  BY <1>1
<1>3. r * k \in Nat
  BY <1>1
<1> QED
  BY <1>2, <1>3

\* How much work there is at most of each kind.
LEMMA WorkCounted ==
  /\ IsFiniteSet(Idle) /\ Cardinality(Idle) \in 0..NSteps
  /\ IsFiniteSet(Step \ completed) /\ Cardinality(Step \ completed) \in 0..NSteps
  /\ IsFiniteSet(Unsettled) /\ Cardinality(Unsettled) \in 0..NSteps
<1>1. IsFiniteSet(Step) /\ Cardinality(Step) = NSteps
  BY FS_Interval, ConstantsAssumption DEF Step
<1>2. Idle \subseteq Step /\ Unsettled \subseteq Step /\ Step \ completed \subseteq Step
  BY DEF Idle, Unsettled
<1> QED
  BY <1>1, <1>2, FewerElements, FS_Subset, ConstantsAssumption

\* The attempt that is counted is one that is left.
LEMMA WorkBounded == IInv => Work \in 0..(4 + 2 * NSteps + Retries * NSteps)
<1> SUFFICES ASSUME IInv PROVE Work \in 0..(4 + 2 * NSteps + Retries * NSteps)
  OBVIOUS
<1> DEFINE n == Cardinality(Unsettled)
<1>1. n \in 0..NSteps /\ NSteps \in Nat /\ Retries \in Nat \ {0}
  BY WorkCounted, ConstantsAssumption
<1>2. attempt \in 0..(Retries - 1)
  BY DEF IInv, TypeOK
<1>3. attempt # 0 => n > 0
  <2> SUFFICES ASSUME attempt # 0 PROVE n # 0
    BY <1>1
  <2>1. PICK s \in Step : s \in todo
    BY DEF IInv, TypeOK, BookInv
  <2>2. s \in Unsettled
    BY <2>1 DEF IInv, TypeOK, BookInv, Unsettled
  <2> QED
    BY <2>2, WorkCounted, FS_EmptySet
<1>4. n > 0 => Retries * 0 + Retries <= Retries * n
  BY <1>1, AttemptsOf
<1>5. n < NSteps => Retries * n + Retries <= Retries * NSteps
  BY <1>1, AttemptsOf
<1>6. Retries * n \in Nat /\ Retries * NSteps \in Nat
  BY <1>1
<1>7. Retries * n - attempt \in 0..(Retries * NSteps)
  <2>1. Retries * n <= Retries * NSteps
    BY <1>1, <1>5, <1>6
  <2>2. attempt <= Retries * n
    BY <1>1, <1>2, <1>3, <1>4, <1>6
  <2> QED
    BY <1>2, <1>6, <2>1, <2>2
<1>8. PhasesLeft \in 0..4
  BY DEF PhasesLeft
<1> QED
  BY <1>1, <1>6, <1>7, <1>8, WorkCounted DEF Work

\* A step that takes something away, and adds nothing, takes from the work.
LEMMA LessWork ==
  ASSUME IInv, TypeOK', Idle' \subseteq Idle, completed \subseteq completed',
         PhasesLeft' <= PhasesLeft, Unsettled' \subseteq Unsettled,
         \/ Unsettled' = Unsettled /\ attempt' >= attempt
         \/ Unsettled' # Unsettled /\ attempt' = 0,
         \/ Idle' # Idle \/ ~(completed' \subseteq completed) \/ PhasesLeft' < PhasesLeft
         \/ attempt' > attempt \/ Unsettled' # Unsettled
  PROVE  Work' < Work
<1> DEFINE n == Cardinality(Unsettled)
           i == Cardinality(Idle)
           c == Cardinality(Step \ completed)
<1>1. /\ i \in Nat /\ i' \in Nat /\ i' <= i /\ (Idle' # Idle => i' < i)
  BY WorkCounted, FewerElements
<1>2. /\ c \in Nat /\ c' \in Nat /\ c' <= c
      /\ ~(completed' \subseteq completed) => c' < c
  <2>1. Step \ completed' \subseteq Step \ completed
    OBVIOUS
  <2>2. ~(completed' \subseteq completed) => Step \ completed' # Step \ completed
    BY DEF TypeOK
  <2>3. Cardinality(Step \ completed') = c'
    OBVIOUS
  <2> HIDE DEF c
  <2>4. c = Cardinality(Step \ completed)
    BY DEF c
  <2> QED
    BY <2>1, <2>2, <2>3, <2>4, WorkCounted, FewerElements
<1>3. /\ n \in Nat /\ n' \in Nat /\ (Unsettled' # Unsettled => n' < n)
      /\ Unsettled' = Unsettled => n' = n
  BY WorkCounted, FewerElements
<1>4. PhasesLeft \in Nat /\ PhasesLeft' \in Nat
  BY DEF PhasesLeft
<1>5. /\ Retries \in Nat \ {0} /\ attempt \in 0..(Retries - 1) /\ attempt' \in Nat
      /\ Retries * n \in Nat /\ Retries * n' \in Nat
  BY <1>3, ConstantsAssumption DEF IInv, TypeOK
<1>6. Unsettled' # Unsettled => Retries * n' - attempt' < Retries * n - attempt
  <2> SUFFICES ASSUME Unsettled' # Unsettled PROVE Retries * n' - attempt' < Retries * n - attempt
    OBVIOUS
  <2>1. n' < n
    BY <1>3
  <2>2. Retries * n' + Retries <= Retries * n
    BY <1>3, <1>5, <2>1, AttemptsOf
  <2> QED
    BY <1>5, <2>2
<1>7. /\ Retries * n' - attempt' <= Retries * n - attempt
      /\ attempt' > attempt => Retries * n' - attempt' < Retries * n - attempt
  BY <1>3, <1>5, <1>6
<1>8. /\ Work = PhasesLeft + i + c + (Retries * n - attempt)
      /\ Work' = PhasesLeft' + i' + c' + (Retries * n' - attempt')
  BY DEF Work
<1> HIDE DEF n, i, c
<1> QED
  BY <1>1, <1>2, <1>4, <1>5, <1>6, <1>7, <1>8

\* Every step uses up some of a bounded amount of work (WorkRunsOut).
THEOREM WorkDoesRunOut == Spec => WorkRunsOut
<1> DEFINE Shrinks == Work' < Work
<1>1. ASSUME IInv, [Next]_vars PROVE [Shrinks]_vars
  <2> SUFFICES ASSUME Next PROVE Shrinks
    BY <1>1
  <2>0. ASSUME Idle' \subseteq Idle, completed \subseteq completed',
               PhasesLeft' <= PhasesLeft, Unsettled' \subseteq Unsettled,
               \/ Unsettled' = Unsettled /\ attempt' >= attempt
               \/ Unsettled' # Unsettled /\ attempt' = 0,
               \/ Idle' # Idle \/ ~(completed' \subseteq completed) \/ PhasesLeft' < PhasesLeft
               \/ attempt' > attempt \/ Unsettled' # Unsettled
        PROVE  Shrinks
    BY <1>1, <2>0, TypeOKStep, LessWork DEF IInv
  <2>p. PhasesLeft \in Nat /\ PhasesLeft' \in Nat
    BY DEF PhasesLeft
  <2>q. attempt \in Nat /\ attempt' \in Nat
    BY <1>1, TypeOKStep, ConstantsAssumption DEF IInv, TypeOK
  <2> HIDE DEF Shrinks
  <2> USE <1>1, <2>p, <2>q DEF IInv, TypeOK
  <2>1. ASSUME UNCHANGED <<completed, report, effect, attempt>>, PhasesLeft' < PhasesLeft
        PROVE  Shrinks
    BY <2>0, <2>1 DEF Idle, Unsettled
  <2>2. CASE Save \/ UpdateState \/ Answer
    BY <2>1, <2>2 DEF Save, UpdateState, Answer, PhasesLeft
  <2>3. ASSUME NEW s \in Step, s \in Idle, effect' = [effect EXCEPT ![s] = 1],
               UNCHANGED <<pc, completed, report, attempt>>
        PROVE  Shrinks
    <3>1. Idle' \subseteq Idle /\ s \notin Idle' /\ UNCHANGED <<Unsettled, PhasesLeft>>
      BY <2>3 DEF Idle, Unsettled, PhasesLeft
    <3> QED
      BY <2>0, <2>3, <3>1
  <2>4. ASSUME NEW s \in Step, Act(s) PROVE Shrinks
    <3>1. s \in Idle
      BY <2>4 DEF Act, AtForward, BookInv, StepStatus, Idle
    <3> QED
      BY <2>3, <2>4, <3>1 DEF Act
  <2>5. CASE LateEffect
    <3>1. abandoned \in Step /\ abandoned \in Idle
      BY <2>5 DEF LateEffect, AbandonedInv, Idle
    <3> QED
      BY <2>3, <2>5, <3>1 DEF LateEffect
  <2>6. ASSUME NEW s \in Step, ForwardOk(s) PROVE Shrinks
    <3>1. report[s] \notin {"Compensated", "CompensateFailed"}
      BY <2>6 DEF ForwardOk, AtForward, BookInv
    <3>2. Idle' \subseteq Idle /\ Unsettled' = Unsettled /\ PhasesLeft' = PhasesLeft
      BY <2>6, <3>1 DEF ForwardOk, Idle, Unsettled, PhasesLeft
    <3>3. completed \subseteq completed' /\ ~(completed' \subseteq completed) /\ attempt' = attempt
      BY <2>6 DEF ForwardOk, AtForward
    <3> QED
      BY <2>0, <3>2, <3>3
  <2>7. ASSUME NEW s \in Step, AtForward(s), TurnBack(s) PROVE Shrinks
    <3>1. report[s] = "Pending"
      BY <2>7 DEF AtForward, BookInv, PhaseInv, StepStatus, Failed
    <3>2. Idle' \subseteq Idle /\ Unsettled' = Unsettled
      BY <2>7, <3>1 DEF TurnBack, Idle, Unsettled
    <3>3. PhasesLeft' < PhasesLeft
      BY <2>7 DEF TurnBack, AtForward, PhasesLeft
    <3> QED
      BY <2>0, <2>7, <3>2, <3>3 DEF TurnBack
  <2>8. ASSUME NEW s \in Step, NEW e, AtCompensate(s), effect' = [effect EXCEPT ![s] = e],
               UNCHANGED <<pc, completed>>,
               \/ attempt' > attempt /\ UNCHANGED report
               \/ \E status \in {"Compensated", "CompensateFailed"} : MoveOn(s, status)
        PROVE  Shrinks
    <3>1. report[s] = "ForwardDone"
      BY <2>8 DEF AtCompensate, BookInv, PhaseInv
    <3>2. Idle' \subseteq Idle /\ Unsettled' \subseteq Unsettled /\ PhasesLeft' = PhasesLeft
      BY <2>8, <3>1 DEF MoveOn, Idle, Unsettled, PhasesLeft
    <3>3. CASE attempt' > attempt /\ UNCHANGED report
      BY <2>0, <2>8, <3>2, <3>3 DEF Unsettled
    <3>4. ASSUME NEW status \in {"Compensated", "CompensateFailed"}, MoveOn(s, status)
          PROVE  Shrinks
      <4>1. s \in Unsettled /\ s \notin Unsettled' /\ attempt' = 0
        BY <3>1, <3>4 DEF MoveOn, Unsettled
      <4> QED
        BY <2>0, <2>8, <3>2, <4>1
    <3> QED
      BY <2>8, <3>3, <3>4
  <2>9. ASSUME NEW s \in Step, CompensateOk(s) PROVE Shrinks
    BY <2>8, <2>9 DEF CompensateOk
  <2>10. ASSUME NEW s \in Step, CompensateErr(s) PROVE Shrinks
    <3>1. PICK e \in {effect[s], Undone(s)} : effect' = [effect EXCEPT ![s] = e]
      BY <2>10 DEF CompensateErr
    <3>2. (attempt' > attempt /\ UNCHANGED report) \/ MoveOn(s, "CompensateFailed")
      BY <2>10, ConstantsAssumption DEF CompensateErr
    <3> QED
      BY <2>8, <2>10, <3>1, <3>2 DEF CompensateErr
  <2>11. CASE Crash
    <3>1. PhasesLeft' < PhasesLeft
      BY <2>11 DEF Crash, PhasesLeft
    <3>2. Unsettled' = Unsettled
      BY <2>11 DEF Crash, Unsettled
    <3>3. Idle' \subseteq Idle
      <4>1. CASE UNCHANGED effect
        BY <2>11, <4>1 DEF Crash, Idle
      <4>2. ASSUME NEW s \in Step, AtCompensate(s), effect' = [effect EXCEPT ![s] = Undone(s)]
            PROVE  Idle' \subseteq Idle
        <5>1. report[s] = "ForwardDone"
          BY <4>2 DEF AtCompensate, BookInv, PhaseInv
        <5> QED
          BY <2>11, <4>2, <5>1 DEF Crash, Idle
      <4> QED
        BY <2>11, <4>1, <4>2 DEF Crash
    <3> QED
      BY <2>0, <2>11, <3>1, <3>2, <3>3 DEF Crash
  <2> QED
    BY <2>2, <2>4, <2>5, <2>6, <2>7, <2>9, <2>10, <2>11 DEF Next, ForwardErr, ForwardTimeout
<1> QED
  BY <1>1, WorkBounded, InductiveInvariant, PTL DEF Spec, WorkRunsOut
================================================================================

---------------------------------- MODULE Saga ----------------------------------
(***************************************************************************)
(* One Saga transaction of sz-rust-distributed-tx: SagaOrchestrator        *)
(* (saga.rs) driven and logged the way create_with_saga of sz300 does      *)
(* (services/saga_order.rs), against participants that may answer late,    *)
(* fail after having acted, or never answer.                               *)
(*                                                                         *)
(* Payloads are left out.  What a participant keeps is the net effect of   *)
(* the calls it has carried out: +1 for the forward action, -1 for every   *)
(* compensation.  A call and its answer are separate steps, so a timeout   *)
(* or a crash can fall between them.                                       *)
(***************************************************************************)
EXTENDS Integers, FiniteSets

CONSTANTS
  NSteps,      \* the number of steps
  Retries,     \* SagaOrchestrator::compensate_retries
  HasTimeout,  \* is SagaOrchestrator::timeout set?
  Leaky,       \* steps whose forward action may fail and leave its effect behind
  Idempotent   \* steps whose compensation, repeated, does nothing more

Step == 1..NSteps

ASSUME ConstantsAssumption ==
  /\ NSteps \in Nat
  /\ Retries \in Nat \ {0}
  /\ HasTimeout \in BOOLEAN
  /\ Leaky \subseteq Step
  /\ Idempotent \subseteq Step

VARIABLES
  pc,         \* where create_with_saga stands
  completed,  \* completed_indices of execute_forward
  todo,       \* what the loop of execute_compensate has yet to visit
  attempt,    \* failed attempts at the compensation the loop is at
  report,     \* the last StepResult of each step
  effect,     \* the participants: the net effect of each step
  abandoned,  \* a forward call nobody waits for any more (0: none)
  log,        \* the state column of the transaction's row in sz_dtx_log
  verdict     \* what create_with_saga is going to return

vars == <<pc, completed, todo, attempt, report, effect, abandoned, log, verdict>>

Phase == {"begin", "forward", "compensate", "answer", "done", "refused", "crashed"}
StepStatus == {"Pending", "ForwardDone", "ForwardFailed", "Compensated", "CompensateFailed"}
TxState == {"committed", "compensated", "manual_intervention"}

TypeOK ==
  /\ pc \in Phase
  /\ completed \subseteq Step
  /\ todo \subseteq completed
  /\ attempt \in 0..(Retries - 1)
  /\ report \in [Step -> StepStatus]
  /\ effect \in [Step -> Int]
  /\ abandoned \in {0} \cup Step
  /\ log \in TxState \cup {"absent", "running"}
  /\ verdict \in TxState \cup {"none"}

Init ==
  /\ pc = "begin"
  /\ completed = {}
  /\ todo = {}
  /\ attempt = 0
  /\ report = [s \in Step |-> "Pending"]
  /\ effect = [s \in Step |-> 0]
  /\ abandoned = 0
  /\ log = "absent"
  /\ verdict = "none"

--------------------------------------------------------------------------------
\* Save: the row is written as running before anything is done.  A failed save
\* (`?`) ends the transaction, but the row may be there all the same.
Save ==
  /\ pc = "begin"
  /\ pc' \in {"forward", "refused"}
  /\ log' \in IF pc' = "forward" THEN {"running"} ELSE {"absent", "running"}
  /\ UNCHANGED <<completed, todo, attempt, report, effect, abandoned, verdict>>

\* The step execute_forward is at: the first one that has not been completed.
AtForward(s) ==
  /\ pc = "forward"
  /\ s \in Step \ completed
  /\ \A t \in Step : t < s => t \in completed

\* The participant of the current step acts; nothing has been answered yet.
Act(s) ==
  /\ AtForward(s)
  /\ effect[s] = 0
  /\ effect' = [effect EXCEPT ![s] = 1]
  /\ UNCHANGED <<pc, completed, todo, attempt, report, abandoned, log, verdict>>

\* The forward action answers Ok.
ForwardOk(s) ==
  /\ AtForward(s)
  /\ effect[s] = 1
  /\ completed' = completed \cup {s}
  /\ report' = [report EXCEPT ![s] = "ForwardDone"]
  /\ UNCHANGED <<pc, todo, attempt, effect, abandoned, log, verdict>>

\* Mutant: the step that failed counts as completed.
TurnBack_WithFailed(s) ==
  /\ report' = [report EXCEPT ![s] = "ForwardFailed"]
  /\ pc' = "compensate"
  /\ completed' = completed \cup {s}
  /\ todo' = completed \cup {s}
  /\ UNCHANGED <<attempt, effect, log, verdict>>

\* execute_forward returns the failed step, and the completed ones are undone.
TurnBack(s) ==
  /\ report' = [report EXCEPT ![s] = "ForwardFailed"]
  /\ pc' = "compensate"
  /\ todo' = completed
  /\ UNCHANGED <<completed, attempt, effect, log, verdict>>

\* The forward action answers Err.
ForwardErr(s) ==
  /\ AtForward(s)
  /\ effect[s] = 0 \/ s \in Leaky
  /\ TurnBack(s)
  /\ UNCHANGED abandoned

\* The timer of run_with_timeout fires and the call is dropped as it stands.
ForwardTimeout(s) ==
  /\ HasTimeout
  /\ AtForward(s)
  /\ TurnBack(s)
  /\ abandoned' = IF effect[s] = 0 THEN s ELSE 0

\* A call that was dropped on this side reaches its participant after all.
LateEffect ==
  /\ abandoned # 0
  /\ effect' = [effect EXCEPT ![abandoned] = 1]
  /\ abandoned' = 0
  /\ UNCHANGED <<pc, completed, todo, attempt, report, log, verdict>>

--------------------------------------------------------------------------------
\* Mutant: compensation in the order of the steps.
AtCompensate_Forwards(s) ==
  /\ pc = "compensate"
  /\ s \in todo
  /\ \A t \in todo : s <= t

\* The step execute_compensate is at: the last one left.
AtCompensate(s) ==
  /\ pc = "compensate"
  /\ s \in todo
  /\ \A t \in todo : t <= s

\* The net effect of step s after one more compensation.
Undone(s) == IF s \in Idempotent THEN 0 ELSE effect[s] - 1

\* Mutant: a compensation that cannot be done ends them all.
MoveOn_Aborts(s, status) ==
  /\ report' = [report EXCEPT ![s] = status]
  /\ todo' = IF status = "CompensateFailed" THEN {} ELSE todo \ {s}
  /\ attempt' = 0

\* Compensation of s is over, with this StepResult.
MoveOn(s, status) ==
  /\ report' = [report EXCEPT ![s] = status]
  /\ todo' = todo \ {s}
  /\ attempt' = 0

\* The compensation answers Ok.
CompensateOk(s) ==
  /\ AtCompensate(s)
  /\ effect' = [effect EXCEPT ![s] = Undone(s)]
  /\ MoveOn(s, "Compensated")
  /\ UNCHANGED <<pc, completed, abandoned, log, verdict>>

\* Mutant: the loop never gives up.
CompensateErr_Forever(s) ==
  /\ AtCompensate(s)
  /\ \E e \in {effect[s], Undone(s)} : effect' = [effect EXCEPT ![s] = e]
  /\ attempt' = (attempt + 1) % Retries
  /\ UNCHANGED <<report, todo, pc, completed, abandoned, log, verdict>>

\* Mutant: one attempt too many.
CompensateErr_OneMore(s) ==
  /\ AtCompensate(s)
  /\ \E e \in {effect[s], Undone(s)} : effect' = [effect EXCEPT ![s] = e]
  /\ \/ /\ attempt < Retries
        /\ attempt' = attempt + 1
        /\ UNCHANGED <<report, todo>>
     \/ /\ attempt = Retries
        /\ MoveOn(s, "CompensateFailed")
  /\ UNCHANGED <<pc, completed, abandoned, log, verdict>>

\* The compensation answers Err, having undone the step or not; after the last
\* attempt the loop gives the step up and goes on with the earlier ones.
CompensateErr(s) ==
  /\ AtCompensate(s)
  /\ \E e \in {effect[s], Undone(s)} : effect' = [effect EXCEPT ![s] = e]
  /\ \/ /\ attempt + 1 < Retries
        /\ attempt' = attempt + 1
        /\ UNCHANGED <<report, todo>>
     \/ /\ attempt + 1 = Retries
        /\ MoveOn(s, "CompensateFailed")
  /\ UNCHANGED <<pc, completed, abandoned, log, verdict>>

--------------------------------------------------------------------------------
Stuck == {s \in Step : report[s] = "CompensateFailed"}

\* Mutant: whatever did not succeed has been compensated.
FinalState_Optimistic == IF pc = "forward" THEN "committed" ELSE "compensated"

\* The final state, read off the step results.
FinalState ==
  IF pc = "forward" THEN "committed"
  ELSE IF Stuck = {} THEN "compensated" ELSE "manual_intervention"

\* The orchestrator returns and update_state writes the final state into the
\* running row; its failure is ignored (`let _ =`).
UpdateState ==
  /\ \/ pc = "forward" /\ completed = Step
     \/ pc = "compensate" /\ todo = {}
  /\ verdict' = FinalState
  /\ log' \in {log} \cup (IF log = "running" THEN {FinalState} ELSE {})
  /\ pc' = "answer"
  /\ UNCHANGED <<completed, todo, attempt, report, effect, abandoned>>

\* create_with_saga returns to its caller.
Answer ==
  /\ pc = "answer"
  /\ pc' = "done"
  /\ UNCHANGED <<completed, todo, attempt, report, effect, abandoned, log, verdict>>

\* The process dies.  The call in flight is carried out now, later or never; the
\* log is all that is left, and no code resumes what recover lists.
Crash ==
  /\ pc \in {"begin", "forward", "compensate", "answer"}
  /\ pc' = "crashed"
  /\ \/ \E s \in Step : AtForward(s) /\ effect[s] = 0 /\ abandoned' = s
     \/ UNCHANGED abandoned
  /\ \/ \E s \in Step : AtCompensate(s) /\ effect' = [effect EXCEPT ![s] = Undone(s)]
     \/ UNCHANGED effect
  /\ UNCHANGED <<completed, todo, attempt, report, log, verdict>>

Next ==
  \/ Save
  \/ \E s \in Step : Act(s)
  \/ \E s \in Step : ForwardOk(s)
  \/ \E s \in Step : ForwardErr(s)
  \/ \E s \in Step : ForwardTimeout(s)
  \/ LateEffect
  \/ \E s \in Step : CompensateOk(s)
  \/ \E s \in Step : CompensateErr(s)
  \/ UpdateState
  \/ Answer
  \/ Crash

Compensate == \E s \in Step : CompensateOk(s) \/ CompensateErr(s)

\* The task is scheduled, the store answers, the timer of a forward call fires.
\* A forward action need not answer; a compensation, which runs without a
\* timer, is assumed to.
Fairness ==
  /\ WF_vars(Save)
  /\ WF_vars(\E s \in Step : ForwardTimeout(s))
  /\ WF_vars(Compensate)
  /\ WF_vars(UpdateState)
  /\ WF_vars(Answer)

Spec == Init /\ [][Next]_vars
FairSpec == Spec /\ Fairness
--------------------------------------------------------------------------------
\* Properties.

\* A step that is over in a saga that failed.  A compensation reported Compensated
\* left nothing behind, a step reported CompensateFailed may still stand, the
\* failed step only if it leaks or its timer fired, and any other never acted.
Settled(s) ==
  \/ report[s] = "Compensated" /\ effect[s] <= 0 /\ (s \in Idempotent => effect[s] = 0)
  \/ report[s] = "CompensateFailed" /\ effect[s] <= 1
  \/ report[s] = "ForwardFailed" /\ effect[s] \in IF HasTimeout \/ s \in Leaky THEN {0, 1} ELSE {0}
  \/ report[s] = "Pending" /\ effect[s] = 0

\* What a final state says of the participants.
Truth(state) ==
  /\ state = "committed" => \A s \in Step : effect[s] = 1
  /\ state \in {"compensated", "manual_intervention"} => \A s \in Step : Settled(s)
  /\ state = "compensated" => Stuck = {}
  /\ state = "manual_intervention" => Stuck # {}

\* The log is enough to pick up the pieces (saga.rs, lines 155 to 156): whatever
\* happened, crashes and late calls included, no participant has acted without a
\* row in the log, and a row that is final tells the truth about all of them.
LogTellsTruth == Truth(log) /\ (log = "absent" => \A s \in Step : effect[s] = 0)

\* The caller is told the truth too (OrderCreateResult), and never the
\* opposite of what the log says.
VerdictTellsTruth == Truth(verdict) /\ (log \in TxState => log = verdict)

\* However often an answer was lost, a step is undone at most Retries times, and
\* it was done before it was undone.
UndosBounded == \A s \in Step : effect[s] \in (1 - Retries)..1

\* Compensation runs backwards (saga.rs, line 6): a step is not undone while a
\* later one still stands.
UndoInReverse ==
  [][\A s, t \in Step : effect'[s] < effect[s] /\ s < t => report[t] # "ForwardDone"]_vars

\* With a timer on the forward actions every saga ends, or its process does.
SagaEnds == pc = "forward" ~> pc \in {"done", "crashed"}

\* What OrderCreateResult::Compensated is documented to mean (saga_order.rs,
\* line 631: the order has been rolled back).
CompensatedIsRolledBack == verdict = "compensated" => \A s \in Step : effect[s] = 0

\* Participants that have not acted and still may, and steps yet to be compensated.
Idle == {s \in Step : report[s] \in {"Pending", "ForwardFailed"} /\ effect[s] = 0}
Unsettled == {s \in Step : report[s] \notin {"Compensated", "CompensateFailed"}}

PhasesLeft ==
  CASE pc = "begin" -> 4
    [] pc = "forward" -> 3
    [] pc = "compensate" -> 2
    [] pc = "answer" -> 1
    [] OTHER -> 0

Work ==
  PhasesLeft + Cardinality(Idle) + Cardinality(Step \ completed)
    + (Retries * Cardinality(Unsettled) - attempt)

\* compensate_retries bounds the whole saga: every step, answers that come late and a
\* crash included, uses up one of a number that is known before it begins.
WorkRunsOut ==
  /\ [](Work \in 0..(4 + 2 * NSteps + Retries * NSteps))
  /\ [][Work' < Work]_vars

--------------------------------------------------------------------------------
\* The inductive invariant (SagaProofs).

Failed == {s \in Step : report[s] = "ForwardFailed"}

\* The step results and the bookkeeping of the two loops agree.
BookInv ==
  /\ \A s \in Step :
       s \in completed <=> report[s] \in {"ForwardDone", "Compensated", "CompensateFailed"}
  /\ \A s \in completed, t \in Step : t < s => t \in completed
  /\ Failed = {} => todo = {} /\ \A s \in completed : report[s] = "ForwardDone"
  /\ Failed # {} => \A s \in Step : s \in todo <=> report[s] = "ForwardDone"
  /\ todo = {} => attempt = 0

\* What the net effect of a step can be, by what is reported of it.
EffectInv ==
  \A s \in Step :
    /\ effect[s] \in (1 - Retries)..1
    /\ s \in completed /\ Failed = {} => effect[s] = 1
    /\ s \notin completed => effect[s] \in {0, 1}
    /\ report[s] = "Pending" /\ effect[s] = 1
         => AtForward(s) \/ (pc = "crashed" /\ verdict = "none" /\ log = "running")
    /\ report[s] = "ForwardFailed" /\ effect[s] = 1 => HasTimeout \/ s \in Leaky
    /\ report[s] = "Compensated" => effect[s] <= 0 /\ (s \in Idempotent => effect[s] = 0)

\* While the compensation loop runs: only the step it is at has been touched,
\* at most once per attempt.
LoopInv ==
  pc # "crashed" =>
    \A s \in todo :
      /\ effect[s] >= 1 - attempt
      /\ (\E t \in todo : s < t) => effect[s] = 1

\* A call nobody waits for has not reached its participant yet.
AbandonedInv ==
  abandoned # 0 =>
    /\ effect[abandoned] = 0
    /\ \/ report[abandoned] = "ForwardFailed" /\ HasTimeout
       \/ /\ report[abandoned] = "Pending" /\ Failed = {}
          /\ pc = "crashed" /\ verdict = "none" /\ log = "running"

\* Where the saga stands, what is logged and what is about to be returned.
PhaseInv ==
  /\ pc \in {"begin", "refused"} => completed = {} /\ Failed = {} /\ verdict = "none"
  /\ pc = "begin" => log = "absent"
  /\ pc = "forward" => Failed = {} /\ log = "running" /\ verdict = "none"
  /\ pc = "compensate" => Failed # {} /\ log = "running" /\ verdict = "none"
  /\ log = "absent" => completed = {} /\ Failed = {} /\ verdict = "none"
  /\ log \in TxState => log = verdict
  /\ verdict = "committed" => Failed = {} /\ completed = Step
  /\ verdict \in {"compensated", "manual_intervention"} => Failed # {} /\ todo = {}
  /\ verdict = "compensated" => Stuck = {}
  /\ verdict = "manual_intervention" => Stuck # {}

IInv == TypeOK /\ BookInv /\ EffectInv /\ LoopInv /\ AbandonedInv /\ PhaseInv
================================================================================

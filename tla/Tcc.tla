----------------------------------- MODULE Tcc -----------------------------------
(***************************************************************************)
(* One transaction of TccOrchestrator (sz-rust-distributed-tx, tcc.rs):    *)
(* try in order, confirm if all reserved, cancel in reverse otherwise,     *)
(* against participants that may answer late, fail after having acted, or  *)
(* never answer.                                                           *)
(*                                                                         *)
(* Payloads are left out.  Of a participant the model keeps the calls it   *)
(* has carried out.  A call and its answer are separate steps, so a timer  *)
(* or a crash can fall between them.  Unlike the saga, nothing is logged.  *)
(***************************************************************************)
EXTENDS Integers, FiniteSets

CONSTANTS
  NParticipants,  \* the number of participants
  HasTimeout,     \* is TccOrchestrator::timeout set?
  Leaky           \* participants that may answer Err after having acted

Participant == 1..NParticipants

ASSUME ConstantsAssumption ==
  /\ NParticipants \in Nat \ {0}
  /\ HasTimeout \in BOOLEAN
  /\ Leaky \subseteq Participant

VARIABLES
  phase,    \* the TccPhase, or Crashed
  answers,  \* what each call of each participant has come to (ParticipantResult)
  todo,     \* what the loop of execute_cancel has yet to visit
  did,      \* the participants: the calls each has carried out
  late      \* calls nobody waits for any more that may still arrive

vars == <<phase, answers, todo, did, late>>

Call == {"try", "confirm", "cancel"}
Phase == {"Trying", "Confirming", "Cancelling", "Completed", "Cancelled", "Failed", "Crashed"}
Answer == {"none", "ok", "err", "timeout"}

\* The phases and answers are those of TccPhase and ParticipantResult, and each call is
\* about a participant of this transaction.
TypeOK ==
  /\ phase \in Phase
  /\ answers \in [Participant -> [Call -> Answer]]
  /\ todo \subseteq Participant
  /\ did \in [Participant -> SUBSET Call]
  /\ late \subseteq Participant \X Call

Init ==
  /\ phase = "Trying"
  /\ answers = [p \in Participant |-> [c \in Call |-> "none"]]
  /\ todo = {}
  /\ did = [p \in Participant |-> {}]
  /\ late = {}

--------------------------------------------------------------------------------
\* The call the orchestrator waits for: tries and confirms go in the order of
\* the participants, cancels in reverse.
At(p, c) ==
  \/ c = "try" /\ phase = "Trying" /\ answers[p].try = "none"
     /\ \A q \in Participant : q < p => answers[q].try = "ok"
  \/ c = "confirm" /\ phase = "Confirming" /\ answers[p].confirm = "none"
     /\ \A q \in Participant : q < p => answers[q].confirm = "ok"
  \/ c = "cancel" /\ phase = "Cancelling" /\ p \in todo /\ \A q \in todo : q <= p

\* The participant carries the call out; nothing has been answered yet.
Act(p, c) ==
  /\ At(p, c)
  /\ c \notin did[p]
  /\ did' = [did EXCEPT ![p] = @ \cup {c}]
  /\ UNCHANGED <<phase, answers, todo, late>>

\* After the last try the confirms begin.
NextPhase(p, c) == IF c = "try" /\ p = NParticipants THEN "Confirming" ELSE phase

\* The participant answers Ok.
AnswerOk(p, c) ==
  /\ At(p, c)
  /\ c \in did[p]
  /\ answers' = [answers EXCEPT ![p][c] = "ok"]
  /\ phase' = NextPhase(p, c)
  /\ todo' = todo \ {p}
  /\ UNCHANGED <<did, late>>

\* Mutant: the participants confirmed so far are cancelled as well.
ToCancel_All == {q \in Participant : answers[q].try = "ok"}

\* What has reserved and not confirmed is cancelled; the failed try is not.
ToCancel == {q \in Participant : answers[q].try = "ok" /\ answers[q].confirm # "ok"}

\* Mutant: the first cancel that fails ends the loop.
TurnBack_GivesUp(p, c, answer) ==
  /\ answers' = [answers EXCEPT ![p][c] = answer]
  /\ phase' = "Cancelling"
  /\ todo' = IF c = "cancel" THEN {} ELSE ToCancel

\* The call has failed: a try or a confirm turns the transaction round, a cancel
\* is not tried again.
TurnBack(p, c, answer) ==
  /\ answers' = [answers EXCEPT ![p][c] = answer]
  /\ phase' = "Cancelling"
  /\ todo' = IF c = "cancel" THEN todo \ {p} ELSE ToCancel

\* The participant answers Err.
AnswerErr(p, c) ==
  /\ At(p, c)
  /\ c \notin did[p] \/ p \in Leaky
  /\ TurnBack(p, c, "err")
  /\ UNCHANGED <<did, late>>

\* Mutant: cancels run without a timer.
Timeout_NotForCancel(p, c) ==
  /\ HasTimeout
  /\ At(p, c)
  /\ c # "cancel"
  /\ TurnBack(p, c, "timeout")
  /\ late' = late \cup (IF c \in did[p] THEN {} ELSE {<<p, c>>})
  /\ UNCHANGED did

\* The timer of run_with_timeout fires and the call is dropped as it stands.
Timeout(p, c) ==
  /\ HasTimeout
  /\ At(p, c)
  /\ TurnBack(p, c, "timeout")
  /\ late' = late \cup (IF c \in did[p] THEN {} ELSE {<<p, c>>})
  /\ UNCHANGED did

\* A call that was dropped on this side reaches its participant after all.
LateAct(p, c) ==
  /\ <<p, c>> \in late
  /\ did' = [did EXCEPT ![p] = @ \cup {c}]
  /\ late' = late \ {<<p, c>>}
  /\ UNCHANGED <<phase, answers, todo>>

--------------------------------------------------------------------------------
Confirmed == {p \in Participant : answers[p].confirm = "ok"}
Uncancelled == {p \in Participant : answers[p].cancel \in {"err", "timeout"}}

\* Mutant: only the cancels decide, as execute_cancel alone would have it.
FinalPhase_CancelsOnly ==
  IF Confirmed = Participant THEN "Completed"
  ELSE IF Uncancelled = {} THEN "Cancelled" ELSE "Failed"

\* Mutant: a state the enum does not have.
FinalPhase_Misspelt ==
  IF Confirmed = Participant THEN "Completed"
  ELSE IF Uncancelled = {} /\ Confirmed = {} THEN "Canceled" ELSE "Failed"

\* The phase the result carries: Failed if a cancel failed or a participant had
\* been confirmed before the transaction turned round.
FinalPhase ==
  IF Confirmed = Participant THEN "Completed"
  ELSE IF Uncancelled = {} /\ Confirmed = {} THEN "Cancelled" ELSE "Failed"

\* The orchestrator returns its TccResult.
Return ==
  /\ \/ phase = "Confirming" /\ Confirmed = Participant
     \/ phase = "Cancelling" /\ todo = {}
  /\ phase' = FinalPhase
  /\ UNCHANGED <<answers, todo, did, late>>

\* The process dies; the call it was waiting for is carried out or not.
Crash ==
  /\ phase \in {"Trying", "Confirming", "Cancelling"}
  /\ phase' = "Crashed"
  /\ late' = late \cup {pc \in Participant \X Call : At(pc[1], pc[2]) /\ pc[2] \notin did[pc[1]]}
  /\ UNCHANGED <<answers, todo, did>>

Next ==
  \/ \E p \in Participant, c \in Call :
       \/ Act(p, c)
       \/ AnswerOk(p, c)
       \/ AnswerErr(p, c)
       \/ Timeout(p, c)
       \/ LateAct(p, c)
  \/ Return
  \/ Crash

\* The timer fires and the task is scheduled; participants need not answer.
Fairness ==
  /\ WF_vars(\E p \in Participant, c \in Call : Timeout(p, c))
  /\ WF_vars(Return)

Spec == Init /\ [][Next]_vars
FairSpec == Spec /\ Fairness
--------------------------------------------------------------------------------
\* Properties.

\* What the calls of p have done is known: none timed out, and no Err came from
\* a participant that may fail having acted.
Certain(p) ==
  \A c \in Call : answers[p][c] # "timeout" /\ (answers[p][c] = "err" => p \notin Leaky)

\* The result tells the truth (TccPhase, lines 55 to 61).  Completed: everyone
\* has confirmed and nobody has cancelled.  Cancelled: all but one participant,
\* the one whose call failed, are untouched or reserved and released, and so is
\* that one unless its answer left doubt.  Failed: somebody has confirmed or a
\* cancel has failed, so there is something left for a human to do.
OutcomeTellsTruth ==
  /\ phase = "Completed" => \A p \in Participant : did[p] = {"try", "confirm"}
  /\ phase = "Cancelled" =>
       \E p \in Participant : \A q \in Participant :
         q # p \/ Certain(q) => did[q] \in {{}, {"try", "cancel"}}
  /\ phase = "Failed" => Confirmed # {} \/ Uncancelled # {}

\* Nobody commits before everyone has reserved, even when calls arrive late, and
\* what is known to be committed is never cancelled (tcc.rs, lines 195 to 196).
OnlyAgreedCommits ==
  \A p \in Participant :
    /\ "confirm" \in did[p] => \A q \in Participant : "try" \in did[q]
    /\ answers[p].confirm = "ok" => "cancel" \notin did[p]

\* What the comment on lines 195 and 196 is after: what a participant has committed is
\* not rolled back.  A confirm whose timer fired may have been carried out, or be so
\* later; it does not count as confirmed and its participant is cancelled.
CommittedStays == \A p \in Participant : ~({"confirm", "cancel"} \subseteq did[p])

\* Reservations are released backwards: none while that of a later participant
\* has yet to be dealt with.
CancelInReverse ==
  [][\A p, q \in Participant :
       /\ "cancel" \in did'[p] \ did[p] /\ <<p, "cancel">> \notin late
       /\ p < q /\ answers[q].try = "ok"
       => answers[q].cancel # "none"]_vars

\* With a timer every transaction ends, or its process does.
TccEnds == phase = "Trying" ~> phase \in {"Completed", "Cancelled", "Failed", "Crashed"}

\* The calls without an answer, and those that have not been carried out.
Open == {pc \in Participant \X Call : answers[pc[1]][pc[2]] = "none"}
Unmade == {pc \in Participant \X Call : pc[2] \notin did[pc[1]]}

Work ==
  Cardinality(Open) + Cardinality(Unmade)
    + IF phase \in {"Trying", "Confirming", "Cancelling"} THEN 1 ELSE 0

\* Nothing is tried twice and nothing comes round again (tcc.rs has no retry): every
\* step, late calls included, uses up one of the 6 * NParticipants + 1 there are.
WorkRunsOut == [](Work \in 0..(6 * NParticipants + 1)) /\ [][Work' < Work]_vars

Ended == phase \in {"Completed", "Cancelled", "Failed"}
Committed == {p \in Participant : did[p] = {"try", "confirm"}}
Reserved == {p \in Participant : did[p] = {"try"}}
Free == {p \in Participant : did[p] \in {{}, {"try", "cancel"}}}

\* When no answer has left doubt, the phase of the result says exactly what there is.
\* All or nothing is lost in one way only, when a confirm fails after others (lines 206
\* to 210) or a cancel fails, and this is Failed: the committed are then the first in
\* order, a reservation that is left is one whose cancel failed, and everybody else is
\* free.
AtomicUnlessFailed ==
  Ended /\ (\A p \in Participant : Certain(p)) =>
    /\ Participant = Committed \cup Reserved \cup Free
    /\ phase = "Completed" <=> Committed = Participant
    /\ phase = "Cancelled" <=> Free = Participant
    /\ \A p \in Committed, q \in Participant : q < p => q \in Committed
    /\ \A p \in Reserved : answers[p].try = "ok" /\ answers[p].cancel = "err"

--------------------------------------------------------------------------------
\* The inductive invariant (TccProofs).

Bad == {"err", "timeout"}

\* Tries and confirms have been answered in order, and a confirm only after all
\* the tries.
OrderInv ==
  \A p, q \in Participant :
    /\ q < p /\ answers[p].try # "none" => answers[q].try = "ok"
    /\ q < p /\ answers[p].confirm # "none" => answers[q].confirm = "ok"
    /\ answers[p].confirm # "none" => answers[q].try = "ok"

\* Which answers there are in which phase.
PhaseInv ==
  /\ phase \in {"Trying", "Confirming"} =>
       /\ todo = {}
       /\ \A p \in Participant :
            answers[p].try \notin Bad /\ answers[p].confirm \notin Bad /\ answers[p].cancel = "none"
  /\ phase = "Trying" => \E p \in Participant : answers[p].try = "none"
  /\ phase = "Confirming" => \A p \in Participant : answers[p].try = "ok"
  /\ phase \in {"Cancelling", "Cancelled", "Failed"} =>
       \E p \in Participant : answers[p].try \in Bad \/ answers[p].confirm \in Bad
  /\ phase = "Completed" => Confirmed = Participant /\ todo = {}
  /\ phase \in {"Cancelled", "Failed"} => todo = {}
  /\ phase = "Cancelled" => Confirmed = {} /\ Uncancelled = {}
  /\ phase = "Failed" => Confirmed # {} \/ Uncancelled # {}

\* The loop of execute_cancel: what it has visited, and in which order.
LoopInv ==
  /\ todo \subseteq ToCancel
  /\ \A p \in Participant :
       /\ answers[p].cancel # "none" => p \in ToCancel
       /\ phase \in {"Cancelling", "Cancelled", "Failed"} =>
            (p \in todo <=> p \in ToCancel /\ answers[p].cancel = "none")
       /\ answers[p].cancel # "none" => \A q \in todo : q < p

\* What the participants have done and may still do, by what they have answered.
DidInv ==
  \A p \in Participant, c \in Call :
    /\ answers[p][c] = "ok" => c \in did[p]
    /\ answers[p][c] = "err" /\ c \in did[p] => p \in Leaky
    /\ answers[p][c] = "none" /\ c \in did[p] => At(p, c) \/ phase = "Crashed"
    /\ <<p, c>> \in late => answers[p][c] = "timeout" \/ (answers[p][c] = "none" /\ phase = "Crashed")
    /\ c \in did[p] \/ <<p, c>> \in late =>
         /\ c = "confirm" => \A q \in Participant : answers[q].try = "ok"
         /\ c = "cancel" => p \in ToCancel

IInv == TypeOK /\ OrderInv /\ PhaseInv /\ LoopInv /\ DidInv
================================================================================

------------------------------- MODULE TccProofs -------------------------------
(***************************************************************************)
(* Theorems about Tcc, for any number of participants, with and without a  *)
(* timer, whichever participants leak: the type invariant, that the result *)
(* tells the truth, that only what everyone has reserved is committed,     *)
(* that reservations are released in reverse, and that every step leaves   *)
(* less to do.  And when the answers of the participants are certain, that *)
(* the phase of the result says exactly who has committed and what is left.*)
(***************************************************************************)
EXTENDS Tcc, FiniteSetTheorems, TLAPS

\* The inductive invariant holds at the start.
LEMMA InitIInv == Init => IInv
BY ConstantsAssumption
DEF Init, IInv, TypeOK, OrderInv, PhaseInv, LoopInv, DidInv, Participant, Call, Phase,
    Answer, Bad, ToCancel

\* Every step keeps the variables in their types.
LEMMA TypeOKStep == TypeOK /\ [Next]_vars => TypeOK'
<1> SUFFICES ASSUME TypeOK, [Next]_vars PROVE TypeOK'
  OBVIOUS
<1> USE DEF TypeOK, Call, Phase, Answer
<1>1. ASSUME NEW p \in Participant, NEW c \in Call, Act(p, c) PROVE TypeOK'
  BY <1>1 DEF Act
<1>2. ASSUME NEW p \in Participant, NEW c \in Call, AnswerOk(p, c) PROVE TypeOK'
  BY <1>2 DEF AnswerOk, NextPhase
<1>3. ASSUME NEW p \in Participant, NEW c \in Call, AnswerErr(p, c) PROVE TypeOK'
  BY <1>3 DEF AnswerErr, TurnBack, ToCancel
<1>4. ASSUME NEW p \in Participant, NEW c \in Call, Timeout(p, c) PROVE TypeOK'
  BY <1>4 DEF Timeout, TurnBack, ToCancel
<1>5. ASSUME NEW p \in Participant, NEW c \in Call, LateAct(p, c) PROVE TypeOK'
  BY <1>5 DEF LateAct
<1>6. CASE Return
  BY <1>6 DEF Return, FinalPhase
<1>7. CASE Crash
  BY <1>7 DEF Crash
<1>8. CASE UNCHANGED vars
  BY <1>8 DEF vars
<1> QED
  BY <1>1, <1>2, <1>3, <1>4, <1>5, <1>6, <1>7, <1>8 DEF Next

\* The books of a transaction that is answered Ok.
LEMMA OkStep ==
  ASSUME IInv, NEW p \in Participant, NEW c \in Call, AnswerOk(p, c)
  PROVE  OrderInv' /\ PhaseInv' /\ LoopInv'
<1>0. /\ answers' = [answers EXCEPT ![p][c] = "ok"] /\ phase' = NextPhase(p, c)
      /\ todo' = todo \ {p} /\ At(p, c)
  BY DEF AnswerOk
<1>1. \A q \in Participant, d \in Call :
        answers'[q][d] = IF q = p /\ d = c THEN "ok" ELSE answers[q][d]
  BY <1>0 DEF IInv, TypeOK
<1> USE ConstantsAssumption DEF IInv, TypeOK, Participant, Call, Bad
<1>2. CASE c = "try"
  <2>1. /\ phase = "Trying" /\ answers[p].try = "none"
        /\ \A q \in Participant : q < p => answers[q].try = "ok"
        /\ todo = {} /\ todo' = {}
    BY <1>0, <1>2 DEF At, PhaseInv
  <2>2. \A q \in Participant :
          /\ answers'[q].try = IF q = p THEN "ok" ELSE answers[q].try
          /\ answers'[q].confirm = answers[q].confirm
          /\ answers'[q].cancel = answers[q].cancel
    BY <1>1, <1>2
  <2>3. \A q \in Participant : answers[q].confirm = "none" /\ answers[q].cancel = "none"
    BY <2>1 DEF PhaseInv, OrderInv
  <2>4. \A q \in Participant : p < q => answers[q].try = "none"
    BY <2>1 DEF OrderInv
  <2>5. OrderInv'
    BY <2>1, <2>2, <2>3, <2>4 DEF OrderInv
  <2>6. PhaseInv'
    <3>1. CASE p = NParticipants
      <4>1. phase' = "Confirming"
        BY <1>0, <1>2, <3>1 DEF NextPhase
      <4>2. \A q \in Participant : answers'[q].try = "ok"
        BY <2>1, <2>2, <3>1
      <4> QED
        BY <4>1, <4>2, <2>1, <2>2, <2>3 DEF PhaseInv
    <3>2. CASE p # NParticipants
      <4>1. phase' = "Trying"
        BY <1>0, <2>1, <3>2 DEF NextPhase
      <4>2. p + 1 \in Participant /\ answers'[p + 1].try = "none"
        BY <2>2, <2>4, <3>2
      <4>3. \A q \in Participant : answers'[q].try \notin Bad
        BY <2>1, <2>2 DEF PhaseInv
      <4> QED
        BY <4>1, <4>2, <4>3, <2>1, <2>2, <2>3 DEF PhaseInv
    <3> QED
      BY <3>1, <3>2
  <2>7. LoopInv'
    <3>1. phase' \in {"Trying", "Confirming"}
      BY <1>0, <2>1 DEF NextPhase
    <3> QED
      BY <3>1, <2>1, <2>2, <2>3 DEF LoopInv
  <2> QED
    BY <2>5, <2>6, <2>7
<1>3. CASE c = "confirm"
  <2>1. /\ phase = "Confirming" /\ answers[p].confirm = "none"
        /\ \A q \in Participant : q < p => answers[q].confirm = "ok"
        /\ todo = {} /\ todo' = {} /\ phase' = "Confirming"
    BY <1>0, <1>3 DEF At, PhaseInv, NextPhase
  <2>2. \A q \in Participant :
          /\ answers'[q].try = answers[q].try
          /\ answers'[q].confirm = IF q = p THEN "ok" ELSE answers[q].confirm
          /\ answers'[q].cancel = answers[q].cancel
    BY <1>1, <1>3
  <2>3. \A q \in Participant : answers[q].try = "ok" /\ answers[q].cancel = "none"
    BY <2>1 DEF PhaseInv
  <2>4. OrderInv'
    BY <2>1, <2>2, <2>3 DEF OrderInv
  <2>5. PhaseInv'
    BY <2>1, <2>2, <2>3 DEF PhaseInv
  <2>6. LoopInv'
    BY <2>1, <2>2, <2>3 DEF LoopInv
  <2> QED
    BY <2>4, <2>5, <2>6
<1>4. CASE c = "cancel"
  <2>1. /\ phase = "Cancelling" /\ phase' = "Cancelling"
        /\ p \in todo /\ \A q \in todo : q <= p
    BY <1>0, <1>4 DEF At, NextPhase
  <2>2. \A q \in Participant :
          /\ answers'[q].try = answers[q].try
          /\ answers'[q].confirm = answers[q].confirm
          /\ answers'[q].cancel = IF q = p THEN "ok" ELSE answers[q].cancel
    BY <1>1, <1>4
  <2>3. ToCancel' = ToCancel
    BY <2>2 DEF ToCancel
  <2>4. OrderInv'
    BY <2>2 DEF OrderInv
  <2>5. PhaseInv'
    BY <2>1, <2>2 DEF PhaseInv
  <2>6. LoopInv'
    <3>1. p \in ToCancel /\ todo' = todo \ {p}
      BY <1>0, <2>1 DEF LoopInv
    <3>2. \A q \in todo' : q < p
      <4>1. p \in Int /\ \A q \in todo : q \in Int
        OBVIOUS
      <4> QED
        BY <2>1, <3>1, <4>1
    <3>3. \A q \in Participant : answers'[q].cancel # "none" => \A r \in todo' : r < q
      BY <2>2, <3>1, <3>2 DEF LoopInv
    <3> QED
      BY <2>1, <2>2, <2>3, <3>1, <3>3 DEF LoopInv
  <2> QED
    BY <2>4, <2>5, <2>6
<1> QED
  BY <1>2, <1>3, <1>4

\* The books of a transaction one of whose calls has failed.
LEMMA TurnBackStep ==
  ASSUME IInv, NEW p \in Participant, NEW c \in Call, NEW a \in Bad,
         At(p, c), TurnBack(p, c, a)
  PROVE  OrderInv' /\ PhaseInv' /\ LoopInv'
<1>0. /\ answers' = [answers EXCEPT ![p][c] = a] /\ phase' = "Cancelling"
      /\ todo' = IF c = "cancel" THEN todo \ {p} ELSE ToCancel
  BY DEF TurnBack
<1>1. \A q \in Participant, d \in Call :
        answers'[q][d] = IF q = p /\ d = c THEN a ELSE answers[q][d]
  BY <1>0 DEF IInv, TypeOK
<1> USE ConstantsAssumption DEF IInv, TypeOK, Participant, Call, Bad
<1>2. CASE c = "try"
  <2>1. /\ phase = "Trying" /\ answers[p].try = "none"
        /\ \A q \in Participant : q < p => answers[q].try = "ok"
    BY <1>2 DEF At
  <2>2. \A q \in Participant :
          /\ answers'[q].try = IF q = p THEN a ELSE answers[q].try
          /\ answers'[q].confirm = answers[q].confirm
          /\ answers'[q].cancel = answers[q].cancel
    BY <1>1, <1>2
  <2>3. \A q \in Participant : answers[q].confirm = "none" /\ answers[q].cancel = "none"
    BY <2>1 DEF PhaseInv, OrderInv
  <2>4. ToCancel' = ToCancel /\ todo' = ToCancel
    BY <1>0, <1>2, <2>1, <2>2 DEF ToCancel
  <2>5. OrderInv'
    BY <2>1, <2>2, <2>3 DEF OrderInv
  <2>6. PhaseInv'
    BY <1>0, <2>2 DEF PhaseInv
  <2>7. LoopInv'
    BY <1>0, <2>2, <2>3, <2>4 DEF LoopInv
  <2> QED
    BY <2>5, <2>6, <2>7
<1>3. CASE c = "confirm"
  <2>1. /\ phase = "Confirming" /\ answers[p].confirm = "none"
        /\ \A q \in Participant : q < p => answers[q].confirm = "ok"
    BY <1>3 DEF At
  <2>2. \A q \in Participant :
          /\ answers'[q].try = answers[q].try
          /\ answers'[q].confirm = IF q = p THEN a ELSE answers[q].confirm
          /\ answers'[q].cancel = answers[q].cancel
    BY <1>1, <1>3
  <2>3. \A q \in Participant : answers[q].try = "ok" /\ answers[q].cancel = "none"
    BY <2>1 DEF PhaseInv
  <2>4. ToCancel' = ToCancel /\ todo' = ToCancel
    BY <1>0, <1>3, <2>1, <2>2 DEF ToCancel
  <2>5. OrderInv'
    BY <2>1, <2>2, <2>3 DEF OrderInv
  <2>6. PhaseInv'
    BY <1>0, <2>2 DEF PhaseInv
  <2>7. LoopInv'
    BY <1>0, <2>2, <2>3, <2>4 DEF LoopInv
  <2> QED
    BY <2>5, <2>6, <2>7
<1>4. CASE c = "cancel"
  <2>1. phase = "Cancelling" /\ p \in todo /\ \A q \in todo : q <= p
    BY <1>4 DEF At
  <2>2. \A q \in Participant :
          /\ answers'[q].try = answers[q].try
          /\ answers'[q].confirm = answers[q].confirm
          /\ answers'[q].cancel = IF q = p THEN a ELSE answers[q].cancel
    BY <1>1, <1>4
  <2>3. ToCancel' = ToCancel
    BY <2>2 DEF ToCancel
  <2>4. OrderInv'
    BY <2>2 DEF OrderInv
  <2>5. PhaseInv'
    BY <1>0, <2>1, <2>2 DEF PhaseInv
  <2>6. LoopInv'
    <3>1. p \in ToCancel /\ todo' = todo \ {p}
      BY <1>0, <1>4, <2>1 DEF LoopInv
    <3>2. \A q \in todo' : q < p
      <4>1. p \in Int /\ \A q \in todo : q \in Int
        OBVIOUS
      <4> QED
        BY <2>1, <3>1, <4>1
    <3>3. \A q \in Participant : answers'[q].cancel # "none" => \A r \in todo' : r < q
      BY <2>2, <3>1, <3>2 DEF LoopInv
    <3> QED
      BY <2>1, <2>2, <2>3, <3>1, <3>3 DEF LoopInv
  <2> QED
    BY <2>4, <2>5, <2>6
<1> QED
  BY <1>2, <1>3, <1>4

\* Every step keeps the order of the answers, the phases and the cancel loop.
LEMMA BookStep == IInv /\ [Next]_vars => OrderInv' /\ PhaseInv' /\ LoopInv'
<1> SUFFICES ASSUME IInv, [Next]_vars PROVE OrderInv' /\ PhaseInv' /\ LoopInv'
  OBVIOUS
<1>1. ASSUME UNCHANGED <<phase, answers, todo>> PROVE OrderInv' /\ PhaseInv' /\ LoopInv'
  BY <1>1 DEF IInv, OrderInv, PhaseInv, LoopInv, ToCancel, Confirmed, Uncancelled
<1>2. ASSUME NEW p \in Participant, NEW c \in Call, AnswerErr(p, c) \/ Timeout(p, c)
      PROVE  OrderInv' /\ PhaseInv' /\ LoopInv'
  BY <1>2, TurnBackStep DEF AnswerErr, Timeout, Bad
<1>3. CASE Return
  <2>1. /\ UNCHANGED <<answers, todo>> /\ phase' \in {"Completed", "Cancelled", "Failed"}
        /\ OrderInv' /\ ToCancel' = ToCancel /\ todo = {}
    BY <1>3 DEF Return, FinalPhase, IInv, OrderInv, PhaseInv, ToCancel
  <2>2. PhaseInv'
    <3>1. phase = "Confirming" => Confirmed = Participant
      BY <1>3 DEF Return
    <3>2. phase = "Cancelling" =>
            \E p \in Participant : answers[p].try \in Bad \/ answers[p].confirm \in Bad
      BY DEF IInv, PhaseInv
    <3>3. phase = "Cancelling" => Confirmed # Participant
      <4> SUFFICES ASSUME phase = "Cancelling", Confirmed = Participant PROVE FALSE
        OBVIOUS
      <4>1. PICK p \in Participant : answers[p].try \in Bad \/ answers[p].confirm \in Bad
        BY <3>2
      <4>2. answers[p].confirm = "ok"
        BY DEF Confirmed
      <4>3. answers[p].try = "ok"
        BY <4>2 DEF IInv, OrderInv
      <4> QED
        BY <4>1, <4>2, <4>3 DEF Bad
    <3> QED
      BY <1>3, <2>1, <3>1, <3>2, <3>3
      DEF Return, FinalPhase, PhaseInv, Confirmed, Uncancelled
  <2>3. LoopInv'
    BY <1>3, <2>1 DEF Return, FinalPhase, IInv, LoopInv, PhaseInv, Confirmed, ToCancel
  <2> QED
    BY <2>1, <2>2, <2>3
<1>4. CASE Crash
  BY <1>4 DEF Crash, IInv, OrderInv, PhaseInv, LoopInv, ToCancel
<1> QED
  BY <1>1, <1>2, <1>3, <1>4, OkStep DEF Next, Act, LateAct, vars

\* The orchestrator waits for one call at a time, and for one without an answer.
LEMMA OneCall ==
  ASSUME IInv, NEW p \in Participant, NEW c \in Call, At(p, c)
  PROVE  /\ answers[p][c] = "none"
         /\ \A q \in Participant, d \in Call : At(q, d) => q = p /\ d = c
         /\ c = "confirm" => \A q \in Participant : answers[q].try = "ok"
         /\ c = "cancel" => p \in ToCancel
<1> USE ConstantsAssumption DEF IInv, TypeOK, Participant, Call
<1>1. CASE c = "try"
  <2>1. \A q \in Participant, d \in Call : At(q, d) => d = "try" /\ ~(q < p) /\ ~(p < q)
    BY <1>1 DEF At
  <2> QED
    BY <1>1, <2>1 DEF At
<1>2. CASE c = "confirm"
  <2>1. \A q \in Participant, d \in Call : At(q, d) => d = "confirm" /\ ~(q < p) /\ ~(p < q)
    BY <1>2 DEF At
  <2>2. \A q \in Participant : answers[q].try = "ok"
    BY <1>2 DEF At, PhaseInv
  <2> QED
    BY <1>2, <2>1, <2>2 DEF At
<1>3. CASE c = "cancel"
  <2>1. \A q \in Participant, d \in Call : At(q, d) => d = "cancel" /\ q <= p /\ p <= q
    BY <1>3 DEF At
  <2>2. p \in ToCancel /\ answers[p].cancel = "none"
    BY <1>3 DEF At, LoopInv
  <2> QED
    BY <1>3, <2>1, <2>2
<1> QED
  BY <1>1, <1>2, <1>3

\* An answer to the call that is waited for leaves the other answers alone, and
\* no call without an answer has been carried out afterwards.
LEMMA AnswerStep ==
  ASSUME IInv, NEW p \in Participant, NEW c \in Call, At(p, c), NEW a \in {"ok", "err", "timeout"},
         answers' = [answers EXCEPT ![p][c] = a], phase # "Crashed",
         UNCHANGED did,
         a = "ok" => c \in did[p],
         a = "err" /\ c \in did[p] => p \in Leaky,
         \/ UNCHANGED late
         \/ a = "timeout" /\ late' \subseteq late \cup {<<p, c>>}
  PROVE  DidInv'
<1>1. \A q \in Participant, d \in Call :
        answers'[q][d] = IF q = p /\ d = c THEN a ELSE answers[q][d]
  BY DEF IInv, TypeOK
<1>2. /\ answers[p][c] = "none"
      /\ \A q \in Participant, d \in Call : At(q, d) => q = p /\ d = c
      /\ c = "confirm" => \A q \in Participant : answers[q].try = "ok"
      /\ c = "cancel" => p \in ToCancel
  BY OneCall
<1> SUFFICES ASSUME NEW q \in Participant, NEW d \in Call
             PROVE  /\ answers'[q][d] = "ok" => d \in did'[q]
                    /\ answers'[q][d] = "err" /\ d \in did'[q] => q \in Leaky
                    /\ answers'[q][d] = "none" /\ d \in did'[q] => At(q, d)' \/ phase' = "Crashed"
                    /\ <<q, d>> \in late' => \/ answers'[q][d] = "timeout"
                                             \/ answers'[q][d] = "none" /\ phase' = "Crashed"
                    /\ d \in did'[q] \/ <<q, d>> \in late' =>
                         /\ d = "confirm" => \A r \in Participant : answers'[r].try = "ok"
                         /\ d = "cancel" => q \in ToCancel'
  BY DEF DidInv
<1>3. /\ answers[q][d] = "ok" => d \in did[q]
      /\ answers[q][d] = "err" /\ d \in did[q] => q \in Leaky
      /\ answers[q][d] = "none" /\ d \in did[q] => At(q, d)
      /\ <<q, d>> \in late => answers[q][d] = "timeout"
      /\ d \in did[q] \/ <<q, d>> \in late =>
           /\ d = "confirm" => \A r \in Participant : answers[r].try = "ok"
           /\ d = "cancel" => q \in ToCancel
  BY DEF IInv, DidInv
<1>4. <<q, d>> \in late' => <<q, d>> \in late \/ (q = p /\ d = c /\ a = "timeout")
  OBVIOUS
<1>5. d \in did[q] \/ <<q, d>> \in late' =>
        /\ d = "confirm" => \A r \in Participant : answers[r].try = "ok"
        /\ d = "cancel" => q \in ToCancel
  BY <1>2, <1>3, <1>4
<1>6. ASSUME NEW r \in Participant, answers[r].try = "ok" PROVE answers'[r].try = "ok"
  BY <1>1, <1>2, <1>6 DEF Call
<1>7. ASSUME d = "cancel", d \in did[q] \/ <<q, d>> \in late' PROVE q \in ToCancel'
  <2>1. answers[q].try = "ok" /\ answers[q].confirm # "ok" /\ answers'[q].try = "ok"
    BY <1>5, <1>6, <1>7 DEF ToCancel
  <2>2. ASSUME c = "confirm" PROVE FALSE
    <3>1. phase = "Confirming"
      BY <2>2 DEF At
    <3>2. answers[q].cancel = "none"
      BY <3>1 DEF IInv, PhaseInv
    <3>3. d \in did[q] => At(q, d)
      BY <1>3, <1>7, <3>2
    <3>4. d \notin did[q] /\ <<q, d>> \notin late
      BY <1>2, <1>3, <1>7, <2>2, <3>2, <3>3
    <3> QED
      BY <1>4, <1>7, <2>2, <3>4
  <2>3. answers'[q].confirm = answers[q].confirm
    BY <1>1, <2>2 DEF Call
  <2> QED
    BY <2>1, <2>3 DEF ToCancel
<1> QED
  BY <1>1, <1>2, <1>3, <1>4, <1>5, <1>6, <1>7

\* Every step keeps what the participants have done in line with their answers.
LEMMA DidStep == IInv /\ [Next]_vars => DidInv'
<1> SUFFICES ASSUME IInv, [Next]_vars PROVE DidInv'
  OBVIOUS
<1>1. ASSUME NEW p \in Participant, NEW c \in Call, Act(p, c) PROVE DidInv'
  <2>1. /\ At(p, c) /\ UNCHANGED <<phase, answers, todo, late>>
        /\ did' = [did EXCEPT ![p] = @ \cup {c}]
    BY <1>1 DEF Act
  <2>2. ASSUME NEW q \in Participant, NEW d \in Call, d \in did'[q]
        PROVE  d \in did[q] \/ (q = p /\ d = c)
    BY <2>1, <2>2 DEF IInv, TypeOK
  <2>3. \A q \in Participant : did[q] \subseteq did'[q]
    BY <2>1 DEF IInv, TypeOK
  <2>4. \A q \in Participant, d \in Call : At(q, d)' = At(q, d)
    BY <2>1 DEF At
  <2>5. ToCancel' = ToCancel
    BY <2>1 DEF ToCancel
  <2>6. /\ answers[p][c] = "none"
        /\ c = "confirm" => \A q \in Participant : answers[q].try = "ok"
        /\ c = "cancel" => p \in ToCancel
    BY <2>1, OneCall
  <2> QED
    BY <2>1, <2>2, <2>3, <2>4, <2>5, <2>6 DEF IInv, DidInv
<1>2. ASSUME NEW p \in Participant, NEW c \in Call, AnswerOk(p, c) PROVE DidInv'
  BY <1>2, AnswerStep DEF AnswerOk, At
<1>3. ASSUME NEW p \in Participant, NEW c \in Call, AnswerErr(p, c) PROVE DidInv'
  BY <1>3, AnswerStep DEF AnswerErr, TurnBack, At
<1>4. ASSUME NEW p \in Participant, NEW c \in Call, Timeout(p, c) PROVE DidInv'
  BY <1>4, AnswerStep DEF Timeout, TurnBack, At
<1>5. ASSUME NEW p \in Participant, NEW c \in Call, LateAct(p, c) PROVE DidInv'
  <2>1. /\ <<p, c>> \in late /\ UNCHANGED <<phase, answers, todo>>
        /\ did' = [did EXCEPT ![p] = @ \cup {c}] /\ late' \subseteq late
    BY <1>5 DEF LateAct
  <2>2. ASSUME NEW q \in Participant, NEW d \in Call, d \in did'[q]
        PROVE  d \in did[q] \/ (q = p /\ d = c)
    BY <2>1, <2>2 DEF IInv, TypeOK
  <2>3. \A q \in Participant : did[q] \subseteq did'[q]
    BY <2>1 DEF IInv, TypeOK
  <2>4. \A q \in Participant, d \in Call : At(q, d)' = At(q, d)
    BY <2>1 DEF At
  <2>5. ToCancel' = ToCancel
    BY <2>1 DEF ToCancel
  <2>6. /\ answers[p][c] = "timeout" \/ (answers[p][c] = "none" /\ phase = "Crashed")
        /\ c = "confirm" => \A q \in Participant : answers[q].try = "ok"
        /\ c = "cancel" => p \in ToCancel
    BY <2>1 DEF IInv, DidInv
  <2> QED
    BY <2>1, <2>2, <2>3, <2>4, <2>5, <2>6 DEF IInv, DidInv
<1>6. CASE Return
  <2>1. UNCHANGED <<answers, todo, did, late>> /\ ToCancel' = ToCancel /\ phase # "Crashed"
    BY <1>6 DEF Return, ToCancel
  <2>2. \A p \in Participant, c \in Call : ~At(p, c)
    BY <1>6 DEF Return, At, Confirmed
  <2> QED
    BY <2>1, <2>2 DEF IInv, DidInv
<1>7. CASE Crash
  <2>1. /\ UNCHANGED <<answers, todo, did>> /\ ToCancel' = ToCancel /\ phase' = "Crashed"
        /\ phase # "Crashed"
    BY <1>7 DEF Crash, ToCancel
  <2>2. \A p \in Participant, c \in Call : <<p, c>> \in late' => <<p, c>> \in late \/ At(p, c)
    BY <1>7 DEF Crash
  <2>3. \A p \in Participant, c \in Call : At(p, c) =>
          /\ answers[p][c] = "none"
          /\ c = "confirm" => \A q \in Participant : answers[q].try = "ok"
          /\ c = "cancel" => p \in ToCancel
    BY OneCall
  <2> QED
    BY <2>1, <2>2, <2>3 DEF IInv, DidInv
<1>8. CASE UNCHANGED vars
  <2>1. UNCHANGED <<phase, answers, did, late>> /\ ToCancel' = ToCancel
    BY <1>8 DEF vars, ToCancel
  <2>2. \A p \in Participant, c \in Call : At(p, c)' = At(p, c)
    BY <1>8 DEF vars, At
  <2> QED
    BY <2>1, <2>2 DEF IInv, DidInv
<1> QED
  BY <1>1, <1>2, <1>3, <1>4, <1>5, <1>6, <1>7, <1>8 DEF Next

\* IInv is an invariant.
LEMMA InductiveInvariant == Spec => []IInv
<1>1. IInv /\ [Next]_vars => IInv'
  BY TypeOKStep, BookStep, DidStep DEF IInv
<1> QED
  BY InitIInv, <1>1, PTL DEF Spec

--------------------------------------------------------------------------------
\* The variables stay in their types (TypeOK).
THEOREM TypeCorrect == Spec => []TypeOK
<1>1. IInv => TypeOK
  BY DEF IInv
<1> QED
  BY <1>1, InductiveInvariant, PTL

\* Nobody commits before everyone has reserved, and what is known to be
\* committed is never cancelled (OnlyAgreedCommits).
THEOREM CommitsAreAgreed == Spec => []OnlyAgreedCommits
<1>1. ASSUME IInv, NEW p \in Participant
      PROVE  /\ "confirm" \in did[p] => \A q \in Participant : "try" \in did[q]
             /\ answers[p].confirm = "ok" => "cancel" \notin did[p]
  <2>1. "confirm" \in did[p] => \A q \in Participant : answers[q].try = "ok"
    BY <1>1 DEF IInv, DidInv, Call
  <2>2. \A q \in Participant : answers[q].try = "ok" => "try" \in did[q]
    BY <1>1 DEF IInv, DidInv, Call
  <2>3. "cancel" \in did[p] => p \in ToCancel
    BY <1>1 DEF IInv, DidInv, Call
  <2> QED
    BY <2>1, <2>2, <2>3 DEF ToCancel
<1>2. IInv => OnlyAgreedCommits
  BY <1>1 DEF OnlyAgreedCommits
<1> QED
  BY <1>2, InductiveInvariant, PTL

\* What a participant has done that is out of doubt, once the loops are over.
LEMMA Released ==
  ASSUME IInv, phase = "Cancelled", NEW q \in Participant,
         answers[q].try = "ok", answers[q].confirm \in {"none", "err"},
         answers[q].confirm = "err" => q \notin Leaky
  PROVE  did[q] = {"try", "cancel"}
<1>1. q \in ToCancel /\ todo = {}
  BY DEF ToCancel, IInv, PhaseInv
<1>2. answers[q].cancel # "none"
  BY <1>1 DEF IInv, LoopInv
<1>3. answers[q].cancel = "ok"
  BY <1>2 DEF IInv, TypeOK, PhaseInv, Uncancelled, Call, Answer
<1>4. "try" \in did[q] /\ "cancel" \in did[q]
  BY <1>3 DEF IInv, DidInv, Call
<1>5. "confirm" \notin did[q]
  BY DEF IInv, DidInv, Call, At
<1> QED
  BY <1>4, <1>5 DEF IInv, TypeOK, Call

\* A participant that was never reached has done nothing.
LEMMA Untouched ==
  ASSUME IInv, phase = "Cancelled", NEW q \in Participant,
         answers[q].try \in {"none", "err"},
         answers[q].try = "err" => q \notin Leaky
  PROVE  did[q] = {}
<1>1. "try" \notin did[q]
  BY DEF IInv, DidInv, Call, At
<1>2. "confirm" \notin did[q]
  BY DEF IInv, DidInv, Call
<1>3. "cancel" \notin did[q]
  BY DEF IInv, DidInv, Call, ToCancel
<1> QED
  BY <1>1, <1>2, <1>3 DEF IInv, TypeOK, Call

\* The result tells the truth about all participants (OutcomeTellsTruth).
THEOREM OutcomeIsTrue == Spec => []OutcomeTellsTruth
<1>1. ASSUME IInv, phase = "Completed", NEW p \in Participant PROVE did[p] = {"try", "confirm"}
  <2>1. answers[p].confirm = "ok" /\ answers[p].try = "ok"
    BY <1>1 DEF IInv, PhaseInv, OrderInv, Confirmed
  <2>2. "try" \in did[p] /\ "confirm" \in did[p]
    BY <1>1, <2>1 DEF IInv, DidInv, Call
  <2>3. "cancel" \notin did[p]
    BY <1>1, <2>1 DEF IInv, DidInv, Call, ToCancel
  <2> QED
    BY <1>1, <2>2, <2>3 DEF IInv, TypeOK, Call
<1>2. ASSUME IInv, phase = "Cancelled"
      PROVE  \E p \in Participant : \A q \in Participant :
               q # p \/ Certain(q) => did[q] \in {{}, {"try", "cancel"}}
  <2>1. PICK p \in Participant : answers[p].try \in Bad \/ answers[p].confirm \in Bad
    BY <1>2 DEF IInv, PhaseInv
  <2>2. \A q \in Participant : answers[q].confirm # "ok"
    BY <1>2 DEF IInv, PhaseInv, Confirmed
  <2>3. ASSUME NEW q \in Participant, q # p PROVE answers[q].try \in {"none", "ok"} /\ answers[q].confirm = "none"
    <3>1. q < p \/ p < q
      BY <2>3, ConstantsAssumption DEF Participant
    <3>2. /\ q < p /\ answers[p].try # "none" => answers[q].try = "ok"
          /\ p < q /\ answers[q].try # "none" => answers[p].try = "ok"
          /\ q < p /\ answers[p].confirm # "none" => answers[q].confirm = "ok"
          /\ p < q /\ answers[q].confirm # "none" => answers[p].confirm = "ok"
          /\ answers[p].confirm # "none" => answers[q].try = "ok" /\ answers[p].try = "ok"
          /\ answers[q].confirm # "none" => answers[p].try = "ok"
      BY <1>2 DEF IInv, OrderInv
    <3>3. answers[q].try \in Answer /\ answers[q].confirm \in Answer
      BY <1>2 DEF IInv, TypeOK, Call
    <3> QED
      BY <2>1, <2>2, <3>1, <3>2, <3>3 DEF Bad, Answer
  <2>4. ASSUME NEW q \in Participant, q # p \/ Certain(q) PROVE did[q] \in {{}, {"try", "cancel"}}
    <3>1. answers[q].try \in Answer /\ answers[q].confirm \in Answer
      BY <1>2 DEF IInv, TypeOK, Call
    <3>2. /\ answers[q].try \in {"none", "ok", "err"} /\ answers[q].confirm \in {"none", "err"}
          /\ answers[q].try = "err" \/ answers[q].confirm = "err" => q \notin Leaky
      BY <2>2, <2>3, <2>4, <3>1 DEF Certain, Answer, Call
    <3> QED
      BY <1>2, <3>2, Released, Untouched
  <2> QED
    BY <2>4
<1>3. IInv => OutcomeTellsTruth
  BY <1>1, <1>2 DEF OutcomeTellsTruth, IInv, PhaseInv
<1> QED
  BY <1>3, InductiveInvariant, PTL

\* Reservations are released in reverse (CancelInReverse).
THEOREM CancelsAreInReverse == Spec => CancelInReverse
<1> DEFINE Reverse ==
      \A p, q \in Participant :
        /\ "cancel" \in did'[p] \ did[p] /\ <<p, "cancel">> \notin late
        /\ p < q /\ answers[q].try = "ok"
        => answers[q].cancel # "none"
<1>1. ASSUME IInv, [Next]_vars PROVE [Reverse]_vars
  <2> SUFFICES ASSUME NEW p \in Participant, NEW q \in Participant, Next,
                      "cancel" \in did'[p], "cancel" \notin did[p], <<p, "cancel">> \notin late,
                      p < q, answers[q].try = "ok"
               PROVE  answers[q].cancel # "none"
    BY <1>1
  <2>1. At(p, "cancel")
    <3>1. ASSUME NEW r \in Participant, NEW c \in Call, did' = [did EXCEPT ![r] = @ \cup {c}]
          PROVE  r = p /\ c = "cancel"
      BY <1>1, <3>1 DEF IInv, TypeOK
    <3>2. did' # did
      OBVIOUS
    <3>3. ASSUME NEW r \in Participant, NEW c \in Call, Act(r, c) PROVE At(p, "cancel")
      BY <3>1, <3>3 DEF Act
    <3>4. ASSUME NEW r \in Participant, NEW c \in Call, LateAct(r, c) PROVE FALSE
      BY <3>1, <3>4 DEF LateAct
    <3> QED
      BY <3>2, <3>3, <3>4 DEF Next, AnswerOk, AnswerErr, Timeout, Return, Crash
  <2>2. phase = "Cancelling" /\ p \in todo /\ q \notin todo /\ p \in ToCancel
    BY <1>1, <2>1, ConstantsAssumption DEF At, IInv, LoopInv, Participant
  <2>3. answers[q].confirm # "ok"
    BY <1>1, <2>2 DEF IInv, OrderInv, ToCancel
  <2>4. q \in ToCancel
    BY <2>3 DEF ToCancel
  <2> QED
    BY <1>1, <2>2, <2>4 DEF IInv, LoopInv
<1> QED
  BY <1>1, InductiveInvariant, PTL DEF Spec, CancelInReverse

\* A participant whose answers leave no doubt has done, in the end, what it has answered
\* Ok to.
LEMMA DidIsAnswered ==
  ASSUME IInv, Ended, NEW p \in Participant, Certain(p), NEW c \in Call
  PROVE  c \in did[p] <=> answers[p][c] = "ok"
<1>1. answers[p][c] \in Answer
  BY DEF IInv, TypeOK
<1>2. ~At(p, c) /\ phase # "Crashed"
  BY DEF At, Ended
<1>3. answers[p][c] # "timeout" /\ (answers[p][c] = "err" => p \notin Leaky)
  BY DEF Certain
<1> QED
  BY <1>1, <1>2, <1>3 DEF IInv, DidInv, Answer

\* The answers an ended transaction can have from one participant: it confirmed, it was
\* cancelled or not, or it never reserved.
LEMMA EndAnswers ==
  ASSUME IInv, Ended, NEW p \in Participant, Certain(p)
  PROVE  \/ answers[p].try = "ok" /\ answers[p].confirm = "ok" /\ answers[p].cancel = "none"
         \/ answers[p].try = "ok" /\ answers[p].confirm # "ok" /\ answers[p].cancel \in {"ok", "err"}
         \/ answers[p].try # "ok" /\ answers[p].confirm # "ok" /\ answers[p].cancel = "none"
<1>1. answers[p].try \in Answer /\ answers[p].confirm \in Answer /\ answers[p].cancel \in Answer
  BY DEF IInv, TypeOK, Call
<1>2. todo = {}
  BY DEF Ended, IInv, PhaseInv
<1>3. answers[p].confirm # "none" => answers[p].try = "ok"
  BY DEF IInv, OrderInv
<1>4. answers[p].cancel # "none" => p \in ToCancel
  BY DEF IInv, LoopInv
<1>5. p \in ToCancel => answers[p].cancel # "none"
  <2>1. CASE phase = "Completed"
    BY <2>1 DEF IInv, PhaseInv, Confirmed, ToCancel
  <2>2. CASE phase \in {"Cancelled", "Failed"}
    BY <1>2, <2>2 DEF IInv, LoopInv
  <2> QED
    BY <2>1, <2>2 DEF Ended
<1> QED
  BY <1>1, <1>3, <1>4, <1>5 DEF Certain, ToCancel, Answer, Call

\* Which of the three kinds a participant is of, by its answers.
LEMMA EndKinds ==
  ASSUME IInv, Ended, NEW p \in Participant, Certain(p)
  PROVE  /\ p \in Committed <=> answers[p].confirm = "ok"
         /\ p \in Reserved <=> answers[p].cancel = "err"
         /\ p \in Free <=> answers[p].confirm # "ok" /\ answers[p].cancel # "err"
         /\ p \in Reserved => answers[p].try = "ok"
<1>1. did[p] \subseteq Call
  BY DEF IInv, TypeOK
<1>2. /\ "try" \in did[p] <=> answers[p].try = "ok"
      /\ "confirm" \in did[p] <=> answers[p].confirm = "ok"
      /\ "cancel" \in did[p] <=> answers[p].cancel = "ok"
  BY DidIsAnswered DEF Call
<1>3. /\ did[p] = {"try", "confirm"} <=>
           "try" \in did[p] /\ "confirm" \in did[p] /\ "cancel" \notin did[p]
      /\ did[p] = {"try"} <=>
           "try" \in did[p] /\ "confirm" \notin did[p] /\ "cancel" \notin did[p]
      /\ did[p] = {} <=>
           "try" \notin did[p] /\ "confirm" \notin did[p] /\ "cancel" \notin did[p]
      /\ did[p] = {"try", "cancel"} <=>
           "try" \in did[p] /\ "confirm" \notin did[p] /\ "cancel" \in did[p]
  BY <1>1 DEF Call
<1>4. \/ answers[p].try = "ok" /\ answers[p].confirm = "ok" /\ answers[p].cancel = "none"
      \/ answers[p].try = "ok" /\ answers[p].confirm # "ok" /\ answers[p].cancel \in {"ok", "err"}
      \/ answers[p].try # "ok" /\ answers[p].confirm # "ok" /\ answers[p].cancel = "none"
  BY EndAnswers
<1> QED
  BY <1>2, <1>3, <1>4 DEF Committed, Reserved, Free

\* Where nothing is left in doubt, the phase says exactly which participants have
\* committed and which are free, and what Failed leaves (AtomicUnlessFailed).
THEOREM CertainIsTold == Spec => []AtomicUnlessFailed
<1> DEFINE NoDoubt == \A p \in Participant : Certain(p)
<1>1. ASSUME IInv, NoDoubt, Ended
      PROVE  /\ Participant = Committed \cup Reserved \cup Free
             /\ phase = "Completed" <=> Committed = Participant
             /\ phase = "Cancelled" <=> Free = Participant
             /\ \A p \in Committed, q \in Participant : q < p => q \in Committed
             /\ \A p \in Reserved : answers[p].try = "ok" /\ answers[p].cancel = "err"
  <2>1. \A p \in Participant :
          /\ p \in Committed <=> answers[p].confirm = "ok"
          /\ p \in Reserved <=> answers[p].cancel = "err"
          /\ p \in Free <=> answers[p].confirm # "ok" /\ answers[p].cancel # "err"
          /\ p \in Reserved => answers[p].try = "ok"
    BY <1>1, EndKinds
  <2>2. Committed \subseteq Participant /\ Reserved \subseteq Participant /\ Free \subseteq Participant
    BY DEF Committed, Reserved, Free
  <2>3. phase = "Completed" <=> Committed = Participant
    <3>1. phase = "Completed" => Confirmed = Participant
      BY <1>1 DEF IInv, PhaseInv
    <3>2. ASSUME phase # "Completed" PROVE Committed # Participant
      <4>1. PICK p \in Participant : answers[p].try \in Bad \/ answers[p].confirm \in Bad
        BY <1>1, <3>2 DEF IInv, PhaseInv, Ended
      <4>2. answers[p].confirm # "ok"
        BY <1>1, <4>1 DEF IInv, OrderInv, Bad
      <4> QED
        BY <2>1, <4>2
    <3> QED
      BY <2>1, <2>2, <3>1, <3>2 DEF Confirmed
  <2>4. phase = "Cancelled" <=> Free = Participant
    <3>1. phase = "Cancelled" => Confirmed = {} /\ Uncancelled = {}
      BY <1>1 DEF IInv, PhaseInv
    <3>2. phase = "Cancelled" => \A p \in Participant : answers[p].confirm # "ok" /\ answers[p].cancel # "err"
      BY <3>1 DEF Confirmed, Uncancelled
    <3>3. ASSUME phase = "Failed" PROVE Free # Participant
      <4>1. PICK p \in Participant : answers[p].confirm = "ok" \/ answers[p].cancel \in {"err", "timeout"}
        BY <1>1, <3>3 DEF IInv, PhaseInv, Confirmed, Uncancelled
      <4>2. answers[p].cancel # "timeout"
        BY <1>1 DEF Certain, Call
      <4> QED
        BY <2>1, <4>1, <4>2
    <3>4. ASSUME phase = "Completed" PROVE Free # Participant
      <4>1. 1 \in Participant
        BY ConstantsAssumption DEF Participant
      <4> QED
        BY <2>1, <2>3, <3>4, <4>1
    <3> QED
      BY <1>1, <2>1, <2>2, <3>2, <3>3, <3>4 DEF Ended
  <2>5. ASSUME NEW p \in Committed, NEW q \in Participant, q < p PROVE q \in Committed
    BY <1>1, <2>1, <2>2, <2>5 DEF IInv, OrderInv
  <2>6. \A p \in Participant : p \in Committed \cup Reserved \cup Free
    BY <2>1
  <2>7. Participant = Committed \cup Reserved \cup Free
    BY <2>2, <2>6
  <2>8. \A p \in Reserved : answers[p].try = "ok" /\ answers[p].cancel = "err"
    BY <2>1, <2>2
  <2> QED
    BY <2>3, <2>4, <2>5, <2>7, <2>8
<1>2. IInv => AtomicUnlessFailed
  BY <1>1 DEF AtomicUnlessFailed
<1> QED
  BY <1>2, InductiveInvariant, PTL

--------------------------------------------------------------------------------
\* A call that may still come late has not been carried out.
LateInv == \A p \in Participant, c \in Call : <<p, c>> \in late => c \notin did[p]

\* The orchestrator waits for a call only once.
LEMMA AtIsOpen ==
  ASSUME IInv, NEW p \in Participant, NEW c \in Call, At(p, c)
  PROVE  answers[p][c] = "none" /\ <<p, c>> \notin late
<1>1. answers[p][c] = "none"
  BY DEF IInv, At, LoopInv
<1>2. phase # "Crashed"
  BY DEF At
<1> QED
  BY <1>1, <1>2 DEF IInv, DidInv

\* LateInv is an invariant.
LEMMA LateIsUnmade == Spec => []LateInv
<1>1. Init => LateInv
  BY DEF Init, LateInv
<1>2. ASSUME IInv, LateInv, [Next]_vars PROVE LateInv'
  <2> USE <1>2 DEF IInv, TypeOK, LateInv
  <2>1. ASSUME NEW p \in Participant, NEW c \in Call, Act(p, c) PROVE LateInv'
    BY <2>1, AtIsOpen DEF Act
  <2>2. ASSUME NEW p \in Participant, NEW c \in Call, LateAct(p, c) PROVE LateInv'
    BY <2>2 DEF LateAct
  <2>3. ASSUME NEW p \in Participant, NEW c \in Call, Timeout(p, c) PROVE LateInv'
    BY <2>3 DEF Timeout
  <2>4. CASE Crash
    BY <2>4 DEF Crash
  <2>5. CASE UNCHANGED <<did, late>>
    BY <2>5
  <2> QED
    BY <2>1, <2>2, <2>3, <2>4, <2>5 DEF Next, AnswerOk, AnswerErr, Return, vars
<1> QED
  BY <1>1, <1>2, InductiveInvariant, PTL DEF Spec

\* There are three calls to a participant.
LEMMA CallsCounted ==
  /\ IsFiniteSet(Participant \X Call)
  /\ Cardinality(Participant \X Call) = 3 * NParticipants
<1>1. IsFiniteSet(Participant) /\ Cardinality(Participant) = NParticipants
  BY FS_Interval, ConstantsAssumption DEF Participant
<1>2. IsFiniteSet(Call) /\ Cardinality(Call) = 3
  <2>1. IsFiniteSet({"try"}) /\ Cardinality({"try"}) = 1
    BY FS_Singleton
  <2>2. IsFiniteSet({"try"} \cup {"confirm"}) /\ Cardinality({"try"} \cup {"confirm"}) = 2
    BY <2>1, FS_AddElement
  <2>3. /\ IsFiniteSet(({"try"} \cup {"confirm"}) \cup {"cancel"})
        /\ Cardinality(({"try"} \cup {"confirm"}) \cup {"cancel"}) = 3
    BY <2>2, FS_AddElement
  <2>4. ({"try"} \cup {"confirm"}) \cup {"cancel"} = Call
    BY DEF Call
  <2> QED
    BY <2>3, <2>4
<1> QED
  BY <1>1, <1>2, FS_Product, ConstantsAssumption

\* A proper subset of a finite set has fewer elements.
LEMMA FewerElements ==
  ASSUME NEW S, NEW T, IsFiniteSet(S), T \subseteq S
  PROVE  /\ Cardinality(S) \in Nat /\ Cardinality(T) \in Nat
         /\ Cardinality(T) <= Cardinality(S)
         /\ T # S => Cardinality(T) < Cardinality(S)
BY FS_Subset, FS_CardinalityType

\* Every step uses up some of a bounded amount of work (WorkRunsOut).
THEOREM WorkDoesRunOut == Spec => WorkRunsOut
<1> DEFINE Live == phase \in {"Trying", "Confirming", "Cancelling"}
           Shrinks == Work' < Work
<1>1. /\ IsFiniteSet(Open) /\ Cardinality(Open) \in 0..(3 * NParticipants)
      /\ IsFiniteSet(Unmade) /\ Cardinality(Unmade) \in 0..(3 * NParticipants)
  <2>1. Open \subseteq Participant \X Call /\ Unmade \subseteq Participant \X Call
    BY DEF Open, Unmade
  <2> QED
    BY <2>1, CallsCounted, FewerElements, FS_Subset, ConstantsAssumption
<1>2. Work \in 0..(6 * NParticipants + 1)
  BY <1>1, ConstantsAssumption DEF Work
<1>3. ASSUME Open' \subseteq Open, Unmade' \subseteq Unmade, Live' => Live,
             Open' # Open \/ Unmade' # Unmade \/ (Live /\ ~Live')
      PROVE  Shrinks
  <2>1. /\ Cardinality(Open) \in Nat /\ Cardinality(Open') \in Nat
        /\ Cardinality(Open') <= Cardinality(Open)
        /\ Open' # Open => Cardinality(Open') < Cardinality(Open)
    BY <1>1, <1>3, FewerElements
  <2>2. /\ Cardinality(Unmade) \in Nat /\ Cardinality(Unmade') \in Nat
        /\ Cardinality(Unmade') <= Cardinality(Unmade)
        /\ Unmade' # Unmade => Cardinality(Unmade') < Cardinality(Unmade)
    BY <1>1, <1>3, FewerElements
  <2> QED
    BY <1>3, <2>1, <2>2 DEF Work
<1>4. ASSUME IInv, LateInv, [Next]_vars PROVE [Shrinks]_vars
  <2> SUFFICES ASSUME Next PROVE Shrinks
    BY <1>4
  <2> HIDE DEF Shrinks
  <2> USE <1>4 DEF IInv, TypeOK
  <2>1. ASSUME NEW p \in Participant, NEW c \in Call, c \notin did[p],
               did' = [did EXCEPT ![p] = @ \cup {c}], UNCHANGED <<phase, answers>>
        PROVE  Shrinks
    <3>1. Open' = Open
      BY <2>1 DEF Open
    <3>2. Unmade' \subseteq Unmade
      BY <2>1 DEF Unmade
    <3>3. <<p, c>> \in Unmade /\ <<p, c>> \notin Unmade'
      BY <2>1 DEF Unmade
    <3> QED
      BY <1>3, <2>1, <3>1, <3>2, <3>3
  <2>2. ASSUME NEW p \in Participant, NEW c \in Call, At(p, c), NEW a \in Answer \ {"none"},
               answers' = [answers EXCEPT ![p][c] = a], UNCHANGED did,
               phase' \in {phase, "Confirming", "Cancelling"}
        PROVE  Shrinks
    <3>1. Unmade' = Unmade
      BY <2>2 DEF Unmade
    <3>2. \A q \in Participant, d \in Call :
            answers'[q][d] = IF q = p /\ d = c THEN a ELSE answers[q][d]
      BY <2>2
    <3>3. Open' \subseteq Open
      BY <2>2, <3>2 DEF Open
    <3>4. <<p, c>> \in Open /\ <<p, c>> \notin Open'
      BY <2>2, <3>2, AtIsOpen DEF Open
    <3>5. Live
      BY <2>2 DEF At
    <3> QED
      BY <1>3, <2>2, <3>1, <3>3, <3>4, <3>5
  <2>3. ASSUME Live, ~Live', UNCHANGED <<answers, did>> PROVE Shrinks
    BY <1>3, <2>3 DEF Open, Unmade
  <2>4. ASSUME NEW p \in Participant, NEW c \in Call, Act(p, c) \/ LateAct(p, c) PROVE Shrinks
    BY <2>1, <2>4 DEF Act, LateAct, LateInv
  <2>5. ASSUME NEW p \in Participant, NEW c \in Call,
               AnswerOk(p, c) \/ AnswerErr(p, c) \/ Timeout(p, c)
        PROVE  Shrinks
    BY <2>2, <2>5 DEF AnswerOk, NextPhase, AnswerErr, Timeout, TurnBack, Answer
  <2>6. CASE Return
    BY <2>3, <2>6 DEF Return, FinalPhase
  <2>7. CASE Crash
    BY <2>3, <2>7 DEF Crash
  <2> QED
    BY <2>4, <2>5, <2>6, <2>7 DEF Next
<1> QED
  BY <1>2, <1>4, InductiveInvariant, LateIsUnmade, PTL DEF Spec, WorkRunsOut
================================================================================

------------------------------ MODULE OutboxProofs ------------------------------
(***************************************************************************)
(* Theorems about Outbox, for any number of events, dispatchers, attempts  *)
(* and faults: the type invariant, that every arrival of an event is       *)
(* accounted for, and that the outbox implements Delivery.                 *)
(***************************************************************************)
EXTENDS Outbox, TLAPS

\* The inductive invariant holds at the start.
LEMMA InitIInv == Init => IInv
BY ConstantsAssumption
DEF Init, IInv, TypeOK, Exhausted, BatchInv, ArrivedInv, AnswerInv, LateInv, ArrivalsAreAccountedFor

\* Every step keeps the variables in their types.
LEMMA TypeOKStep == TypeOK /\ [Next]_vars => TypeOK'
<1> SUFFICES ASSUME TypeOK, [Next]_vars PROVE TypeOK'
  OBVIOUS
<1> USE DEF TypeOK, rows
<1>0. Claimed \subseteq Event /\ Exhausted \in Nat
  BY ConstantsAssumption DEF Claimed, Claimable, Exhausted
<1>1. ASSUME Lease PROVE attempts' \in [Event -> 0..Exhausted] /\ leased' \in [Event -> BOOLEAN]
  <2>1. \A n \in 0..Exhausted : Counted(n) \in 0..Exhausted
    BY <1>0 DEF Counted
  <2> QED
    BY <1>1, <2>1 DEF Lease
<1>2. ASSUME NEW d \in Dispatcher, Claim(d) PROVE TypeOK'
  <2>1. [e \in Event |-> IF e \in Claimed THEN attempts[e] ELSE 0] \in [Event -> 0..Exhausted]
    BY <1>0
  <2> QED
    BY <1>0, <1>1, <1>2, <2>1 DEF Claim, Lease
<1>3. ASSUME NEW d \in Dispatcher, ClaimLost(d) PROVE TypeOK'
  BY <1>1, <1>3, ConstantsAssumption DEF ClaimLost, Lease
<1>4. ASSUME NEW d \in Dispatcher, NEW e \in Event, Deliver(d, e) PROVE TypeOK'
  <2>1. arrived' \in [Event -> 0..2]
    BY <1>4 DEF Deliver, DeliverOk, DeliverErr, DeliverUnheard, Arrive
  <2>2. answer' \in [Dispatcher -> {"none", "ok", "err"}] /\ excused' \subseteq Event /\ late' \subseteq Event
    BY <1>4 DEF Deliver, DeliverOk, DeliverErr, DeliverUnheard
  <2> QED
    BY <1>4, <2>1, <2>2 DEF Deliver, DeliverOk, DeliverErr, DeliverUnheard
<1>5. ASSUME NEW d \in Dispatcher, NEW e \in Event, Write(d, e)
      PROVE  /\ status' \in [Event -> {"pending", "delivered", "dead"}]
             /\ attempts' = attempts
             /\ leased' \in [Event -> BOOLEAN] /\ waiting' \in [Event -> BOOLEAN]
  BY <1>5 DEF Write, MarkDelivered, MarkFailed
<1>6. ASSUME NEW d \in Dispatcher, NEW e \in Event, Mark(d, e) PROVE TypeOK'
  <2>1. seen' \in [Dispatcher -> [Event -> 0..Exhausted]]
    BY <1>0, <1>6 DEF Mark
  <2> QED
    BY <1>5, <1>6, <2>1 DEF Mark
<1>7. ASSUME NEW d \in Dispatcher, Drop(d)
      PROVE  /\ batch' \in [Dispatcher -> SUBSET Event]
             /\ seen' \in [Dispatcher -> [Event -> 0..Exhausted]]
             /\ answer' \in [Dispatcher -> {"none", "ok", "err"}]
             /\ arrived' = arrived /\ late' = late /\ excused' \subseteq Event /\ faults' \in 0..MaxFaults
  BY <1>0, <1>7, ConstantsAssumption DEF Drop
<1>8. ASSUME NEW d \in Dispatcher, Crash(d) PROVE TypeOK'
  BY <1>7, <1>8 DEF Crash
<1>9. ASSUME NEW d \in Dispatcher, NEW e \in Event, MarkLost(d, e) PROVE TypeOK'
  BY <1>5, <1>7, <1>9 DEF MarkLost
<1>10. ASSUME NEW e \in Event, ArriveLate(e) \/ Lapse(e) \/ Wake(e) PROVE TypeOK'
  <2>1. CASE ArriveLate(e)
    <3>1. arrived' \in [Event -> 0..2]
      BY <2>1 DEF ArriveLate, Arrive
    <3> QED
      BY <2>1, <3>1 DEF ArriveLate
  <2>2. CASE Lapse(e)
    BY <2>2 DEF Lapse
  <2>3. CASE Wake(e)
    BY <2>3 DEF Wake
  <2> QED
    BY <1>10, <2>1, <2>2, <2>3
<1>11. CASE UNCHANGED vars
  BY <1>11 DEF vars
<1> QED
  BY <1>2, <1>3, <1>4, <1>6, <1>8, <1>9, <1>10, <1>11 DEF Next, Fault, DispatchOnce

--------------------------------------------------------------------------------
\* There is one event in hand.
LEMMA OneInHand ==
  ASSUME NEW d \in Dispatcher, NEW e \in Event, NEW f \in Event, TypeOK,
         InHand(d, e), InHand(d, f)
  PROVE  e = f
BY ConstantsAssumption DEF InHand, Event

\* A claimed event nothing has gone wrong with is in no batch and has not arrived.
LEMMA ClaimedIsFresh ==
  ASSUME IInv, NEW e \in Claimed, e \notin excused
  PROVE  /\ e \in Event /\ status[e] = "pending" /\ arrived[e] = 0
         /\ \A d \in Dispatcher : e \notin batch[d]
<1>1. e \in Event /\ status[e] = "pending" /\ ~leased[e]
  BY DEF Claimed, Claimable
<1>2. \A d \in Dispatcher : e \notin batch[d]
  BY <1>1 DEF IInv, BatchInv
<1> QED
  BY <1>1, <1>2 DEF IInv, ArrivedInv, InHand

\* An event in hand that nothing has gone wrong with has not arrived before its
\* dispatcher has an answer.
LEMMA InHandIsFresh ==
  ASSUME IInv, NEW d \in Dispatcher, NEW e \in Event, InHand(d, e), e \notin excused,
         answer[d] # "ok"
  PROVE  arrived[e] = 0
<1>1. e \in batch[d] /\ status[e] = "pending"
  BY DEF InHand, IInv, BatchInv
<1>2. \A other \in Dispatcher : InHand(other, e) => other = d
  BY <1>1 DEF InHand, IInv, BatchInv
<1> QED
  BY <1>1, <1>2 DEF IInv, ArrivedInv

\* A mark of an event in hand.
LEMMA WriteFacts ==
  ASSUME TypeOK, NEW d \in Dispatcher, NEW e \in Event, Write(d, e)
  PROVE  /\ \A f \in Event : f # e => status'[f] = status[f] /\ leased'[f] = leased[f]
         /\ answer[d] = "ok" => status'[e] = "delivered"
         /\ answer[d] = "err" => status'[e] # "delivered"
BY DEF Write, MarkDelivered, MarkFailed, TypeOK

\* As long as nothing goes wrong with an event one dispatcher has it.
LEMMA BatchStep == IInv /\ [Next]_vars => BatchInv'
<1> SUFFICES ASSUME IInv, [Next]_vars PROVE BatchInv'
  OBVIOUS
<1> USE DEF IInv, TypeOK, BatchInv
<1>1. ASSUME NEW d \in Dispatcher, Claim(d) PROVE BatchInv'
  <2>1. /\ batch' = [batch EXCEPT ![d] = Claimed] /\ Claimed \subseteq Event
        /\ UNCHANGED <<status, excused>>
        /\ \A e \in Event : leased'[e] = (leased[e] \/ e \in Claimed)
    BY <1>1 DEF Claim, Lease, Claimed, Claimable
  <2>2. \A e \in Claimed : e \notin excused =>
          status[e] = "pending" /\ \A other \in Dispatcher : e \notin batch[other]
    BY ClaimedIsFresh
  <2> QED
    BY <2>1, <2>2
<1>2. ASSUME NEW d \in Dispatcher, ClaimLost(d) PROVE BatchInv'
  BY <1>2 DEF ClaimLost, Lease
<1>3. ASSUME NEW d \in Dispatcher, NEW e \in Event, Deliver(d, e) PROVE BatchInv'
  BY <1>3 DEF Deliver, DeliverOk, DeliverErr, DeliverUnheard, rows
<1>4. ASSUME NEW d \in Dispatcher, NEW e \in Event, Mark(d, e) PROVE BatchInv'
  <2>1. /\ e \in batch[d] /\ batch' = [batch EXCEPT ![d] = @ \ {e}] /\ excused' = excused
    BY <1>4 DEF Mark, InHand
  <2>2. \A f \in Event : f # e => status'[f] = status[f] /\ leased'[f] = leased[f]
    BY <1>4, WriteFacts DEF Mark
  <2> QED
    BY <2>1, <2>2
<1>5. ASSUME NEW d \in Dispatcher, Crash(d) PROVE BatchInv'
  BY <1>5 DEF Crash, Drop, rows
<1>6. ASSUME NEW d \in Dispatcher, NEW e \in Event, MarkLost(d, e) PROVE BatchInv'
  <2>1. /\ e \in excused' /\ excused \subseteq excused' /\ batch' = [batch EXCEPT ![d] = {}]
    BY <1>6 DEF MarkLost, Drop, InHand
  <2>2. \A f \in Event : f # e => status'[f] = status[f] /\ leased'[f] = leased[f]
    BY <1>6, WriteFacts DEF MarkLost
  <2> QED
    BY <2>1, <2>2
<1>7. ASSUME NEW e \in Event, Lapse(e) PROVE BatchInv'
  BY <1>7 DEF Lapse
<1>8. ASSUME NEW e \in Event, ArriveLate(e) \/ Wake(e) PROVE BatchInv'
  BY <1>8 DEF ArriveLate, Wake, rows
<1>9. CASE UNCHANGED vars
  BY <1>9 DEF vars, rows
<1> QED
  BY <1>1, <1>2, <1>3, <1>4, <1>5, <1>6, <1>7, <1>8, <1>9 DEF Next, Fault, DispatchOnce

--------------------------------------------------------------------------------
\* What an arrival does.
LEMMA ArriveFacts ==
  ASSUME TypeOK, NEW e \in Event, Arrive(e)
  PROVE  /\ \A f \in Event : f # e => arrived'[f] = arrived[f]
         /\ arrived'[e] > 0
         /\ arrived[e] = 0 => arrived'[e] = 1
BY DEF Arrive, TypeOK

\* An event that has arrived once and nothing has gone wrong with is marked, or in
\* hand and about to be.
LEMMA ArrivedStep == IInv /\ [Next]_vars => ArrivedInv'
<1> SUFFICES ASSUME IInv, [Next]_vars, NEW e \in Event, e \notin excused', arrived'[e] # 0
             PROVE  /\ arrived'[e] = 1
                    /\ \/ status'[e] = "delivered"
                       \/ \E d \in Dispatcher : InHand(d, e)' /\ answer'[d] = "ok"
  BY DEF ArrivedInv
<1> DEFINE Good == /\ arrived'[e] = 1
                   /\ \/ status'[e] = "delivered"
                      \/ \E d \in Dispatcher : InHand(d, e)' /\ answer'[d] = "ok"
<1> USE DEF IInv, TypeOK
<1>1. ASSUME NEW d \in Dispatcher, NEW f \in Event, Deliver(d, f) PROVE Good
  <2>1. batch' = batch /\ status' = status /\ excused \subseteq excused' /\ answer[d] = "none"
    BY <1>1 DEF Deliver, DeliverOk, DeliverErr, DeliverUnheard, rows
  <2>2. CASE f = e
    <3>1. DeliverOk(d, e)
      <4>1. ~DeliverUnheard(d, e)
        BY DEF DeliverUnheard
      <4>2. ~DeliverErr(d, e)
        BY <2>1, InHandIsFresh DEF DeliverErr
      <4> QED
        BY <1>1, <2>2, <4>1, <4>2 DEF Deliver
    <3>2. arrived'[e] = 1
      BY <2>1, <3>1, InHandIsFresh, ArriveFacts DEF DeliverOk
    <3>3. InHand(d, e)' /\ answer'[d] = "ok"
      BY <3>1, <2>1 DEF DeliverOk, InHand
    <3> QED
      BY <3>2, <3>3
  <2>3. CASE f # e
    <3>1. arrived'[e] = arrived[e]
      BY <1>1, <2>3, ArriveFacts DEF Deliver, DeliverOk, DeliverErr, DeliverUnheard
    <3>2. ~InHand(d, e)
      BY <1>1, <2>3, OneInHand DEF Deliver, DeliverOk, DeliverErr, DeliverUnheard
    <3>3. \A other \in Dispatcher : other # d => answer'[other] = answer[other]
      BY <1>1 DEF Deliver, DeliverOk, DeliverErr, DeliverUnheard
    <3> QED
      BY <2>1, <3>1, <3>2, <3>3 DEF ArrivedInv, InHand
  <2> QED
    BY <2>2, <2>3
<1>2. ASSUME arrived' = arrived, excused \subseteq excused',
             \A d \in Dispatcher : InHand(d, e) /\ answer[d] = "ok" =>
               status'[e] = "delivered" \/ (InHand(d, e)' /\ answer'[d] = "ok"),
             status[e] = "delivered" => status'[e] = "delivered"
      PROVE  Good
  BY <1>2 DEF ArrivedInv
<1>3. ASSUME NEW d \in Dispatcher, Claim(d) PROVE Good
  <2>1. /\ batch[d] = {} /\ batch' = [batch EXCEPT ![d] = Claimed]
        /\ UNCHANGED <<status, answer, arrived, excused>>
    BY <1>3 DEF Claim, Lease
  <2>2. \A other \in Dispatcher : InHand(other, e) => other # d /\ batch'[other] = batch[other]
    BY <2>1 DEF InHand
  <2>3. \A other \in Dispatcher : InHand(other, e) => InHand(other, e)'
    BY <2>2 DEF InHand
  <2> QED
    BY <1>2, <2>1, <2>3
<1>4. ASSUME NEW d \in Dispatcher, ClaimLost(d) PROVE Good
  BY <1>2, <1>4 DEF ClaimLost, Lease, InHand
<1>5. ASSUME NEW d \in Dispatcher, NEW f \in Event, Mark(d, f) PROVE Good
  <2>1. /\ arrived' = arrived /\ excused' = excused /\ InHand(d, f) /\ Write(d, f)
        /\ batch' = [batch EXCEPT ![d] = @ \ {f}] /\ answer' = [answer EXCEPT ![d] = "none"]
    BY <1>5 DEF Mark
  <2>2. CASE f = e
    <3>1. answer[d] = "ok"
      BY <2>1, <2>2, InHandIsFresh
    <3>2. status'[e] = "delivered"
      BY <2>1, <2>2, <3>1, WriteFacts
    <3>3. arrived'[e] = 1
      BY <2>1 DEF ArrivedInv
    <3> QED
      BY <3>2, <3>3
  <2>3. CASE f # e
    <3>1. status'[e] = status[e]
      BY <2>1, <2>3, WriteFacts
    <3>2. \A other \in Dispatcher : InHand(other, e) => other # d
      BY <2>1, <2>3, OneInHand
    <3>3. \A other \in Dispatcher : other # d =>
            batch'[other] = batch[other] /\ answer'[other] = answer[other]
      BY <2>1
    <3>4. \A other \in Dispatcher : InHand(other, e) => InHand(other, e)'
      BY <3>2, <3>3 DEF InHand
    <3> QED
      BY <1>2, <2>1, <3>1, <3>2, <3>3, <3>4
  <2> QED
    BY <2>2, <2>3
<1>6. ASSUME NEW d \in Dispatcher, Drop(d), status'[e] = status[e] PROVE Good
  <2>1. /\ arrived' = arrived /\ excused' = excused \cup batch[d]
        /\ batch' = [batch EXCEPT ![d] = {}] /\ answer' = [answer EXCEPT ![d] = "none"]
    BY <1>6 DEF Drop
  <2>2. \A other \in Dispatcher : InHand(other, e) => other # d
    BY <2>1 DEF InHand
  <2>3. \A other \in Dispatcher : other # d =>
          batch'[other] = batch[other] /\ answer'[other] = answer[other]
    BY <2>1
  <2>4. \A other \in Dispatcher : InHand(other, e) => InHand(other, e)'
    BY <2>2, <2>3 DEF InHand
  <2> QED
    BY <1>2, <1>6, <2>1, <2>2, <2>3, <2>4
<1>7. ASSUME NEW d \in Dispatcher, Crash(d) PROVE Good
  BY <1>6, <1>7 DEF Crash, rows
<1>8. ASSUME NEW d \in Dispatcher, NEW f \in Event, MarkLost(d, f) PROVE Good
  <2>1. f \in batch[d] /\ batch[d] \subseteq excused'
    BY <1>8 DEF MarkLost, Drop, InHand
  <2>2. status'[e] = status[e]
    BY <1>8, <2>1, WriteFacts DEF MarkLost
  <2> QED
    BY <1>6, <1>8, <2>1, <2>2 DEF MarkLost
<1>9. ASSUME NEW f \in Event, Lapse(f) \/ Wake(f) PROVE Good
  <2>1. UNCHANGED <<status, batch, answer, arrived>> /\ excused \subseteq excused'
    BY <1>9 DEF Lapse, Wake
  <2> QED
    BY <1>2, <2>1 DEF InHand
<1>10. ASSUME NEW f \in Event, ArriveLate(f) PROVE Good
  <2>1. UNCHANGED <<status, batch, answer, excused>> /\ f # e
    BY <1>10 DEF ArriveLate, LateInv, rows
  <2>2. arrived'[e] = arrived[e]
    BY <1>10, <2>1, ArriveFacts DEF ArriveLate
  <2> QED
    BY <2>1, <2>2 DEF ArrivedInv, InHand
<1>11. CASE UNCHANGED vars
  BY <1>2, <1>11 DEF vars, rows, InHand
<1> QED
  BY <1>1, <1>3, <1>4, <1>5, <1>7, <1>8, <1>9, <1>10, <1>11 DEF Next, Fault, DispatchOnce

\* An answer is about the event in hand, and "ok" says that it has arrived.
LEMMA AnswerStep == IInv /\ [Next]_vars => AnswerInv'
<1> SUFFICES ASSUME IInv, [Next]_vars PROVE AnswerInv'
  OBVIOUS
<1> USE DEF IInv, TypeOK, AnswerInv
<1>1. ASSUME NEW d \in Dispatcher, NEW f \in Event, Deliver(d, f) PROVE AnswerInv'
  <2>1. batch' = batch /\ InHand(d, f)
    BY <1>1 DEF Deliver, DeliverOk, DeliverErr, DeliverUnheard
  <2>2. \A e \in Event : arrived[e] > 0 => arrived'[e] > 0
    BY <1>1, ArriveFacts DEF Deliver, DeliverOk, DeliverErr, DeliverUnheard
  <2>3. answer'[d] = "ok" => arrived'[f] > 0
    BY <1>1, ArriveFacts DEF Deliver, DeliverOk, DeliverErr, DeliverUnheard
  <2>4. \A e \in Event : InHand(d, e) => e = f
    BY <2>1, OneInHand
  <2>5. \A other \in Dispatcher : other # d => answer'[other] = answer[other]
    BY <1>1 DEF Deliver, DeliverOk, DeliverErr, DeliverUnheard
  <2>6. batch[d] # {}
    BY <2>1 DEF InHand
  <2> QED
    BY <2>1, <2>2, <2>3, <2>4, <2>5, <2>6 DEF InHand
<1>2. ASSUME NEW d \in Dispatcher, arrived' = arrived, answer'[d] = "none",
             \A other \in Dispatcher : other # d =>
               batch'[other] = batch[other] /\ answer'[other] = answer[other]
      PROVE  AnswerInv'
  BY <1>2 DEF InHand
<1>3. ASSUME NEW d \in Dispatcher, Claim(d) PROVE AnswerInv'
  BY <1>2, <1>3 DEF Claim
<1>4. ASSUME NEW d \in Dispatcher, NEW f \in Event, Mark(d, f) PROVE AnswerInv'
  BY <1>2, <1>4 DEF Mark
<1>5. ASSUME NEW d \in Dispatcher, Drop(d) PROVE AnswerInv'
  BY <1>2, <1>5 DEF Drop
<1>6. CASE UNCHANGED <<batch, answer, arrived>>
  BY <1>6 DEF InHand
<1>7. ASSUME NEW d \in Dispatcher, ClaimLost(d) PROVE AnswerInv'
  BY <1>6, <1>7 DEF ClaimLost
<1>8. ASSUME NEW e \in Event, Lapse(e) \/ Wake(e) PROVE AnswerInv'
  BY <1>6, <1>8 DEF Lapse, Wake
<1>9. ASSUME NEW f \in Event, ArriveLate(f) PROVE AnswerInv'
  <2>1. UNCHANGED <<batch, answer>> /\ \A e \in Event : arrived[e] > 0 => arrived'[e] > 0
    BY <1>9, ArriveFacts DEF ArriveLate
  <2> QED
    BY <2>1 DEF InHand
<1> QED
  BY <1>1, <1>3, <1>4, <1>5, <1>6, <1>7, <1>8, <1>9
  DEF Next, Fault, DispatchOnce, Crash, MarkLost, vars

\* What may still arrive is in doubt, and doubt stays.
LEMMA LateStep == IInv /\ [Next]_vars => LateInv'
BY DEF IInv, LateInv, Next, Fault, DispatchOnce, Claim, ClaimLost, Deliver, DeliverOk, DeliverErr,
       DeliverUnheard, Mark, Crash, MarkLost, Drop, ArriveLate, Lapse, Wake, vars

\* The arrivals stay accounted for.
LEMMA ArrivalsStep == IInv /\ [Next]_vars /\ ArrivedInv' => ArrivalsAreAccountedFor'
<1> SUFFICES ASSUME IInv, [Next]_vars, ArrivedInv', NEW e \in Event
             PROVE  /\ status'[e] = "delivered" => arrived'[e] > 0
                    /\ arrived'[e] > 1 => e \in excused'
  BY DEF ArrivalsAreAccountedFor
<1> USE DEF IInv, TypeOK
<1>1. arrived'[e] > 1 => e \in excused'
  <2>1. arrived'[e] \in 0..2
    BY TypeOKStep
  <2> QED
    BY <2>1 DEF ArrivedInv
<1>2. arrived[e] > 0 => arrived'[e] > 0
  <2>1. ASSUME NEW d \in Dispatcher, NEW f \in Event, Deliver(d, f)
        PROVE  arrived[e] > 0 => arrived'[e] > 0
    BY <2>1, ArriveFacts DEF Deliver, DeliverOk, DeliverErr, DeliverUnheard
  <2>2. ASSUME NEW f \in Event, ArriveLate(f) PROVE arrived[e] > 0 => arrived'[e] > 0
    BY <2>2, ArriveFacts DEF ArriveLate
  <2> QED
    BY <2>1, <2>2
    DEF Next, Fault, DispatchOnce, Claim, ClaimLost, Mark, Crash, MarkLost, Drop, Lapse, Wake, vars
<1>3. ASSUME NEW d \in Dispatcher, NEW f \in Event, Write(d, f), InHand(d, f), answer[d] # "none"
      PROVE  status'[e] = "delivered" => status[e] = "delivered" \/ arrived[e] > 0
  <2>1. CASE f # e
    BY <1>3, <2>1, WriteFacts
  <2>2. CASE f = e
    BY <1>3, <2>2, WriteFacts DEF AnswerInv
  <2> QED
    BY <2>1, <2>2
<1>4. status'[e] = "delivered" => status[e] = "delivered" \/ arrived[e] > 0
  BY <1>3
  DEF Next, Fault, DispatchOnce, Claim, ClaimLost, Lease, Deliver, DeliverOk, DeliverErr,
      DeliverUnheard, Mark, Crash, MarkLost, ArriveLate, Lapse, Wake, rows, vars
<1> QED
  BY <1>1, <1>2, <1>4 DEF ArrivalsAreAccountedFor

LEMMA Inductive == IInv /\ [Next]_vars => IInv'
BY TypeOKStep, BatchStep, ArrivedStep, AnswerStep, LateStep, ArrivalsStep DEF IInv

LEMMA Always == Spec => []IInv
BY InitIInv, Inductive, PTL DEF Spec

--------------------------------------------------------------------------------
\* The refinement of Delivery.

Holders == [e \in Event |-> {d \in Dispatcher : e \in batch[d]}]

\* Who holds an event when a batch of one dispatcher changes.
LEMMA HoldersOf ==
  ASSUME TypeOK, NEW d \in Dispatcher, NEW S \in SUBSET Event, batch' = [batch EXCEPT ![d] = S]
  PROVE  \A e \in Event :
           Holders'[e] = IF e \in S THEN Holders[e] \cup {d} ELSE Holders[e] \ {d}
<1> SUFFICES ASSUME NEW e \in Event
             PROVE  Holders'[e] = IF e \in S THEN Holders[e] \cup {d} ELSE Holders[e] \ {d}
  OBVIOUS
<1>1. \A f \in Dispatcher : e \in batch'[f] <=> IF f = d THEN e \in S ELSE e \in batch[f]
  BY DEF TypeOK
<1> QED
  BY <1>1 DEF Holders

\* A mark is a verdict that the promise allows.
LEMMA WriteIsJudgement ==
  ASSUME IInv, NEW d \in Dispatcher, NEW e \in Event, InHand(d, e), answer[d] # "none", Write(d, e)
  PROVE  Promise!Judge(d, e)
<1> USE DEF IInv, TypeOK
<1>1. e \in batch[d] /\ d \in Holders[e]
  BY DEF InHand, Holders
<1>2. e \notin excused => status[e] = "pending" /\ Holders[e] = {d}
  BY <1>1 DEF BatchInv, Holders
<1>3. ASSUME answer[d] = "ok"
      PROVE  Promise!Verdict(d, e, "delivered")
  <2>1. arrived[e] > 0
    BY <1>3 DEF AnswerInv
  <2>2. e \notin excused => arrived[e] = 1
    BY <2>1 DEF ArrivedInv
  <2> QED
    BY <1>1, <1>2, <2>1, <2>2 DEF Promise!Verdict, Holders
<1>4. ASSUME answer[d] = "err", NEW v \in {"pending", "dead"}
      PROVE  Promise!Verdict(d, e, v)
  <2>1. e \notin excused => arrived[e] = 0
    BY <1>4, InHandIsFresh
  <2> QED
    BY <1>1, <1>2, <1>4, <2>1 DEF Promise!Verdict, Holders
<1>5. CASE answer[d] = "ok"
  BY <1>3, <1>5 DEF Write, MarkDelivered, Promise!Judge, Promise!Fate
<1>6. CASE answer[d] = "err"
  BY <1>4, <1>6 DEF Write, MarkFailed, Promise!Judge, Promise!Fate
<1> QED
  BY <1>5, <1>6

\* An arrival from the hand of a dispatcher is one that the promise allows.
LEMMA DeliverIsReach ==
  ASSUME IInv, NEW d \in Dispatcher, NEW e \in Event, Deliver(d, e)
  PROVE  [Promise!Next]_(Promise!vars)
<1> USE DEF IInv, TypeOK
<1>1. InHand(d, e) /\ answer[d] = "none" /\ UNCHANGED <<status, batch>>
  BY DEF Deliver, DeliverOk, DeliverErr, DeliverUnheard, rows
<1>2. Holders[e] # {} /\ UNCHANGED Holders
  BY <1>1 DEF InHand, Holders
<1>3. e \in excused \/ Promise!Fresh(e)
  BY <1>1, InHandIsFresh DEF Promise!Fresh, InHand, BatchInv
<1>4. CASE Arrive(e) /\ excused' \in {excused, excused \cup {e}}
  <2>1. Promise!Reach(e)
    BY <1>1, <1>2, <1>3, <1>4 DEF Promise!Reach, Arrive, Holders
  <2> QED
    BY <2>1 DEF Promise!Next
<1>5. CASE arrived' = arrived /\ excused' = excused \cup {e}
  <2>1. Promise!Doubt(e)
    BY <1>1, <1>2, <1>5 DEF Promise!Doubt, Holders
  <2> QED
    BY <2>1 DEF Promise!Next
<1>6. CASE UNCHANGED <<arrived, excused>>
  BY <1>1, <1>2, <1>6 DEF Promise!vars, Holders
<1> QED
  BY <1>4, <1>5, <1>6 DEF Deliver, DeliverOk, DeliverErr, DeliverUnheard

\* What a dispatcher leaves behind is in doubt.
LEMMA DropIsAbandon ==
  ASSUME IInv, NEW d \in Dispatcher, Drop(d),
         UNCHANGED status \/ \E e \in Event : Promise!Judge(d, e)
  PROVE  Promise!Abandon(d)
<1> USE DEF IInv, TypeOK
<1>1. /\ batch' = [batch EXCEPT ![d] = {}] /\ arrived' = arrived
      /\ excused' = excused \cup batch[d]
  BY DEF Drop
<1>2. Holders' = [e \in Event |-> Holders[e] \ {d}]
  BY <1>1, HoldersOf DEF Holders
<1>3. batch[d] = {e \in Event : d \in Holders[e]}
  BY DEF Holders
<1> QED
  BY <1>1, <1>2, <1>3 DEF Promise!Abandon, Holders

\* Every step of the outbox is one of the promise or a stutter.
LEMMA StepImplementsDelivery ==
  ASSUME IInv, [Next]_vars
  PROVE  [Promise!Next]_(Promise!vars)
<1> USE DEF IInv, TypeOK
<1>1. ASSUME NEW d \in Dispatcher, Claim(d) PROVE Promise!Next
  <2>1. /\ batch' = [batch EXCEPT ![d] = Claimed] /\ batch[d] = {} /\ Claimed \in SUBSET Event
        /\ UNCHANGED <<status, arrived, excused>>
    BY <1>1 DEF Claim, Lease, Claimed, Claimable
  <2>2. \A e \in Claimed : status[e] = "pending" /\ (e \in excused \/ Holders[e] = {})
    BY ClaimedIsFresh DEF Claimed, Claimable, Holders
  <2>3. \A e \in Event : Holders'[e] = IF e \in Claimed THEN Holders[e] \cup {d} ELSE Holders[e]
    BY <2>1, HoldersOf DEF Holders
  <2>4. PICK S \in SUBSET Event : S = Claimed
    BY <2>1
  <2>5. Promise!Claim(d, S)
    BY <2>1, <2>2, <2>3, <2>4 DEF Promise!Claim, Holders
  <2> QED
    BY <2>5 DEF Promise!Next
<1>2. CASE UNCHANGED <<status, batch, arrived, excused>>
  BY <1>2 DEF Promise!vars
<1>3. ASSUME NEW d \in Dispatcher, ClaimLost(d) PROVE [Promise!Next]_(Promise!vars)
  BY <1>2, <1>3 DEF ClaimLost, Lease
<1>4. ASSUME NEW d \in Dispatcher, NEW e \in Event, Mark(d, e) PROVE Promise!Next
  <2>1. /\ batch' = [batch EXCEPT ![d] = batch[d] \ {e}] /\ UNCHANGED <<arrived, excused>>
    BY <1>4 DEF Mark
  <2>2. Promise!Judge(d, e)
    BY <1>4, WriteIsJudgement DEF Mark
  <2>3. \A f \in Event : Holders'[f] = IF f = e THEN Holders[f] \ {d} ELSE Holders[f]
    BY <2>1, HoldersOf DEF Holders
  <2>4. Promise!Settle(d, e)
    BY <2>1, <2>2, <2>3 DEF Promise!Settle, Holders
  <2> QED
    BY <2>4 DEF Promise!Next
<1>5. ASSUME NEW d \in Dispatcher, Crash(d) PROVE Promise!Next
  BY <1>5, DropIsAbandon DEF Crash, rows, Promise!Next
<1>6. ASSUME NEW d \in Dispatcher, NEW e \in Event, MarkLost(d, e) PROVE Promise!Next
  BY <1>6, WriteIsJudgement, DropIsAbandon DEF MarkLost, Promise!Next
<1>7. ASSUME NEW e \in Event, ArriveLate(e) PROVE Promise!Next
  <2>1. Promise!Reach(e)
    BY <1>7 DEF ArriveLate, Arrive, LateInv, rows, Promise!Reach
  <2> QED
    BY <2>1 DEF Promise!Next
<1>8. ASSUME NEW e \in Event, Lapse(e) PROVE [Promise!Next]_(Promise!vars)
  <2>1. CASE \E d \in Dispatcher : e \in batch[d]
    <3>1. Promise!Doubt(e)
      BY <1>8, <2>1 DEF Lapse, Promise!Doubt
    <3> QED
      BY <3>1 DEF Promise!Next
  <2> QED
    BY <1>2, <1>8, <2>1 DEF Lapse
<1>9. ASSUME NEW e \in Event, Wake(e) PROVE [Promise!Next]_(Promise!vars)
  BY <1>2, <1>9 DEF Wake
<1> QED
  BY <1>1, <1>2, <1>3, <1>4, <1>5, <1>6, <1>7, <1>8, <1>9, DeliverIsReach
  DEF Next, Fault, DispatchOnce, vars, rows

--------------------------------------------------------------------------------
\* The types: attempts never pass the point from which they are all the same.
THEOREM TypeCorrect == Spec => []TypeOK
<1>1. IInv => TypeOK
  BY DEF IInv
<1> QED
  BY <1>1, Always, PTL

\* A delivered event has arrived, and more than once only if something went wrong.
THEOREM ArrivalsAccounted == Spec => []ArrivalsAreAccountedFor
<1>1. IInv => ArrivalsAreAccountedFor
  BY DEF IInv
<1> QED
  BY <1>1, Always, PTL

\* The outbox keeps the promise of Delivery, with any number of dispatchers: one arrival and
\* one verdict for every event that is not in doubt.
THEOREM OutboxImplementsDelivery == Spec => ImplementsDelivery
<1>1. Init => Promise!Init
  BY DEF Init, Promise!Init
<1>2. IInv /\ [Next]_vars => [Promise!Next]_(Promise!vars)
  BY StepImplementsDelivery
<1> QED
  BY <1>1, <1>2, Always, PTL DEF Spec, ImplementsDelivery, Promise!Spec
================================================================================

----------------------------- MODULE JobQueueProofs -----------------------------
(***************************************************************************)
(* Theorems about JobQueue, for any number of jobs and workers, any batch  *)
(* size and any timing: the type invariant; for a configuration that is    *)
(* WellSized, exclusive claims, the budget of attempts, and that the queue *)
(* implements JobLifecycle; and what is left for workers of any speed.     *)
(***************************************************************************)
EXTENDS JobQueue, FiniteSetTheorems, TLAPS

\* A backoff is a delay.
LEMMA BackoffType ==
  ASSUME NEW n, NEW d \in Backoff(n)
  PROVE  d \in Nat
BY ConstantsAssumption DEF Backoff

\* Every step keeps the variables in their types.
LEMMA TypeOKStep == TypeOK /\ [Next]_vars => TypeOK'
<1> SUFFICES ASSUME TypeOK, [Next]_vars PROVE TypeOK'
  OBVIOUS
<1> USE ConstantsAssumption DEF TypeOK, Status, Phase, Outcome, NotLocked,
        rows, loops, history
<1>1. ASSUME NEW j \in Job, NEW d \in 0..MaxDelay, Push(j, d) PROVE TypeOK'
  BY <1>1 DEF Push
<1>2. ASSUME NEW j \in Job, RetryDead(j) PROVE TypeOK'
  BY <1>2 DEF RetryDead, Settle
<1>3. ASSUME NEW w \in Worker, ReclaimStale(w) PROVE TypeOK'
  BY <1>3 DEF ReclaimStale
<1>4. ASSUME NEW w \in Worker, Pop(w) PROVE TypeOK'
  BY <1>4 DEF Pop, MarkRunning, ClaimedAttempts
<1>12. ASSUME NEW w \in Worker, LosePop(w) PROVE TypeOK'
  BY <1>12 DEF LosePop, MarkRunning, ClaimedAttempts
<1>5. ASSUME NEW w \in Worker, NEW j \in Job, NEW o \in Outcome, Handle(w, j, o)
      PROVE  TypeOK'
  BY <1>5 DEF Handle
<1>6. ASSUME NEW w \in Worker, NEW j \in Job, Ack(w, j) PROVE TypeOK'
  BY <1>6 DEF Ack, Settle, NextJob
<1>7. ASSUME NEW w \in Worker, NEW j \in Job, Fail(w, j) PROVE TypeOK'
  <2>1. delay' \in [Job -> Nat]
    BY <1>7, BackoffType DEF Fail
  <2>2. status' \in [Job -> Status]
    BY <1>7 DEF Fail, Settle, Verdict
  <2> QED
    BY <1>7, <2>1, <2>2 DEF Fail, Settle, NextJob
<1>8. ASSUME NEW w \in Worker, Exit(w) PROVE TypeOK'
  BY <1>8 DEF Exit
<1>9. ASSUME NEW w \in Worker, Restart(w) PROVE TypeOK'
  BY <1>9 DEF Restart
<1>10. CASE Tick
  BY <1>10 DEF Tick
<1>11. CASE UNCHANGED vars
  BY <1>11 DEF vars
<1> QED
  BY <1>1, <1>2, <1>3, <1>4, <1>5, <1>6, <1>7, <1>8, <1>9, <1>10, <1>11,
     <1>12
  DEF Next, Report

\* The variables keep their types, whatever the constants are.
THEOREM TypeCorrect == Spec => []TypeOK
<1>1. Init => TypeOK
  BY DEF Init, TypeOK, Status, Phase, Outcome, NotLocked
<1> QED
  BY <1>1, TypeOKStep, PTL DEF Spec

--------------------------------------------------------------------------------
\* Facts about batches.

\* What a worker holds is finite, and taking a job out of it makes it one smaller.
LEMMA HeldSize ==
  ASSUME NEW w \in Worker
  PROVE  /\ IsFiniteSet(Held(w))
         /\ Cardinality(Held(w)) \in Nat
         /\ \A j \in Held(w) : /\ Cardinality(Held(w)) >= 1
                               /\ Cardinality(Held(w) \ {j}) = Cardinality(Held(w)) - 1
<1>1. IsFiniteSet(Job)
  BY ConstantsAssumption, FS_Interval DEF Job
<1>2. IsFiniteSet(Held(w))
  BY <1>1, FS_Subset DEF Held
<1>3. Cardinality(Held(w)) \in Nat
  BY <1>2, FS_CardinalityType
<1>4. ASSUME NEW j \in Held(w)
      PROVE  /\ Cardinality(Held(w)) >= 1
             /\ Cardinality(Held(w) \ {j}) = Cardinality(Held(w)) - 1
  <2>1. Cardinality(Held(w) \ {j}) = Cardinality(Held(w)) - 1
    BY <1>2, <1>4, FS_RemoveElement
  <2>2. Cardinality(Held(w) \ {j}) \in Nat
    BY <1>2, FS_RemoveElement, FS_CardinalityType
  <2> QED
    BY <1>3, <2>1, <2>2
<1> QED
  BY <1>2, <1>3, <1>4

\* A larger count of timeouts takes longer.
LEMMA TimesMonotone ==
  ASSUME NEW m \in Nat, NEW n \in Nat, NEW t \in Nat, m <= n
  PROVE  m * t <= n * t
OBVIOUS

\* In a WellSized configuration no lease of a held job runs out.
LEMMA HeldNotReclaimable ==
  ASSUME WellSized, IInv, NEW w \in Worker, NEW j \in Held(w)
  PROVE  ~Reclaimable(j)
<1> USE ConstantsAssumption
<1> DEFINE n == Cardinality(Held(w))
<1>1. n \in Nat /\ n >= 1
  BY HeldSize
<1>2. 1 * HandlerTimeout <= n * HandlerTimeout
  BY <1>1, TimesMonotone
<1>3. /\ j \in Job /\ lockAge[j] \in Nat /\ elapsed[w] \in Nat
      /\ elapsed[w] <= HandlerTimeout
      /\ lockAge[j] + n * HandlerTimeout <= BatchSize * HandlerTimeout + elapsed[w]
  BY DEF IInv, HeldInTime, LeasedIffRunning, TypeOK, NotLocked, Held
<1>4. BatchSize * HandlerTimeout <= 2 * Lease
  BY DEF WellSized
<1>5. n * HandlerTimeout \in Nat /\ BatchSize * HandlerTimeout \in Nat
  BY <1>1
<1> HIDE DEF n
<1>6. lockAge[j] <= 2 * Lease
  BY <1>2, <1>3, <1>4, <1>5
<1> QED
  BY <1>3, <1>6 DEF Reclaimable

\* A worker has one current job.
LEMMA CurrentUnique ==
  ASSUME NEW w \in Worker, NEW j, NEW k, Current(w, j), Current(w, k)
  PROVE  j = k
BY ConstantsAssumption DEF Current, Held, Job

--------------------------------------------------------------------------------
\* Each action keeps the inductive invariant.

\* The producers' and the operator's actions touch rows that nobody holds.
LEMMA PushKeepsIInv ==
  ASSUME IInv, TypeOK', NEW i \in Job, NEW d \in 0..MaxDelay, Push(i, d)
  PROVE  IInv'
<1> USE ConstantsAssumption
<1>1. /\ \A w \in Worker : Held(w)' = Held(w)
      /\ \A w \in Worker, j \in Job : Unacked(w, j)' = Unacked(w, j)
      /\ \A j \in Job : Unheld(j)' = Unheld(j)
  BY DEF Push, loops, history, Held, Unacked, Current, Unheld
<1>2. LeasedIffRunning'
  BY DEF IInv, TypeOK, LeasedIffRunning, Push
<1>3. ExclusiveClaims'
  BY <1>1 DEF IInv, ExclusiveClaims
<1>4. HeldInTime'
  BY <1>1 DEF IInv, TypeOK, HeldInTime, Push, loops, Held
<1>5. AttemptsBudget' /\ AttemptsLeft'
  BY <1>1 DEF IInv, TypeOK, AttemptsBudget, AttemptsLeft, Push, history
<1>6. RepeatsOnlyAfterLosses' /\ RepeatsLeft'
  BY <1>1 DEF IInv, TypeOK, RepeatsOnlyAfterLosses, RepeatsLeft, Push, history
<1> QED
  BY <1>2, <1>3, <1>4, <1>5, <1>6 DEF IInv

LEMMA RetryDeadKeepsIInv ==
  ASSUME IInv, TypeOK', NEW i \in Job, RetryDead(i)
  PROVE  IInv'
<1> USE ConstantsAssumption
<1>1. /\ \A w \in Worker : Held(w)' = Held(w)
      /\ \A w \in Worker, j \in Job : Unacked(w, j)' = Unacked(w, j)
      /\ \A j \in Job : Unheld(j)' = Unheld(j)
  BY DEF RetryDead, loops, Held, Unacked, Current, Unheld
<1>2. LeasedIffRunning'
  BY DEF IInv, TypeOK, LeasedIffRunning, RetryDead, Settle, NotLocked
<1>3. ExclusiveClaims'
  BY <1>1 DEF IInv, ExclusiveClaims
<1>4. HeldInTime'
  BY <1>1 DEF IInv, TypeOK, HeldInTime, RetryDead, Settle, loops, Held
<1>5. AttemptsBudget' /\ AttemptsLeft'
  BY <1>1 DEF IInv, TypeOK, AttemptsBudget, AttemptsLeft, RetryDead, Settle
<1>6. RepeatsOnlyAfterLosses' /\ RepeatsLeft'
  BY <1>1 DEF IInv, TypeOK, RepeatsOnlyAfterLosses, RepeatsLeft, RetryDead, Settle
<1> QED
  BY <1>2, <1>3, <1>4, <1>5, <1>6 DEF IInv

\* Only rows that nobody holds are reclaimed.
LEMMA ReclaimStaleKeepsIInv ==
  ASSUME WellSized, IInv, TypeOK', NEW v \in Worker, ReclaimStale(v)
  PROVE  IInv'
<1> USE ConstantsAssumption
<1>1. \A w \in Worker : Held(w)' = Held(w)
  BY DEF ReclaimStale, Held
<1>2. \A j \in Job : Unheld(j)' = Unheld(j)
  BY DEF ReclaimStale, Unheld, Held
<1>3. \A w \in Worker, j \in Job : Unacked(w, j)' = Unacked(w, j)
  BY DEF IInv, TypeOK, ReclaimStale, Unacked, Current, Held
<1>4. \A j \in Job : Reclaimable(j) => status[j] = "running" /\ Unheld(j)
  BY HeldNotReclaimable DEF Reclaimable, Unheld
<1>5. LeasedIffRunning'
  BY DEF IInv, TypeOK, LeasedIffRunning, ReclaimStale, NotLocked
<1>6. ExclusiveClaims'
  BY <1>1 DEF IInv, ExclusiveClaims
<1>7. HeldInTime'
  <2>1. ASSUME NEW w \in Worker, NEW j \in Held(w)
        PROVE  /\ status'[j] = status[j] /\ lockAge'[j] = lockAge[j]
               /\ pc'[w] = pc[w] /\ j \in Job
    BY <1>4, <2>1 DEF IInv, TypeOK, HeldInTime, ReclaimStale, Held, Unheld
  <2>2. elapsed' = elapsed /\ claim' = claim /\ attempts' = attempts
    BY DEF ReclaimStale
  <2>3. HeldInTime
    BY DEF IInv
  <2> QED
    BY <1>1, <2>1, <2>2, <2>3 DEF HeldInTime
<1>8. AttemptsBudget' /\ AttemptsLeft'
  BY <1>2, <1>4 DEF IInv, TypeOK, AttemptsBudget, AttemptsLeft, ReclaimStale, history
<1>9. RepeatsOnlyAfterLosses' /\ RepeatsLeft'
  BY <1>3, <1>4 DEF IInv, TypeOK, RepeatsOnlyAfterLosses, RepeatsLeft, ReclaimStale, history
<1> QED
  BY <1>5, <1>6, <1>7, <1>8, <1>9 DEF IInv

\* A batch is claimed from pending rows, which nobody holds.
LEMMA PopKeepsIInv ==
  ASSUME IInv, TypeOK', NEW v \in Worker, Pop(v)
  PROVE  IInv'
<1> USE ConstantsAssumption
<1>1. PICK S \in SUBSET Eligible :
        /\ Batch(S)
        /\ status' = [j \in Job |-> IF j \in S THEN "running" ELSE status[j]]
        /\ lockAge' = [j \in Job |-> IF j \in S THEN 0 ELSE lockAge[j]]
        /\ attempts' = [j \in Job |-> IF j \in S THEN attempts[j] + 1 ELSE attempts[j]]
        /\ claim' = [claim EXCEPT ![v] =
                       [j \in Job |-> IF j \in S THEN attempts[j] + 1 ELSE 0]]
        /\ pc' = [pc EXCEPT ![v] = IF S = {} THEN "poll" ELSE "work"]
        /\ elapsed' = [elapsed EXCEPT ![v] = 0]
  BY DEF Pop, MarkRunning, ClaimedAttempts
<1>2. pc[v] = "pop" /\ UNCHANGED <<delay, outcome, done, losses, revives>>
  BY DEF Pop, history
<1>3. S \subseteq Job /\ \A j \in S : status[j] = "pending" /\ Unheld(j)
  BY DEF Eligible, Unheld, IInv, HeldInTime
<1>4. Held(v)' = S /\ Held(v) = {}
  <2>1. \A j \in Job : claim'[v][j] = IF j \in S THEN attempts[j] + 1 ELSE 0
    BY <1>1 DEF IInv, TypeOK
  <2>2. Held(v)' = {j \in Job : claim'[v][j] # 0}
    BY DEF Held
  <2>3. \A j \in Job : attempts[j] + 1 # 0
    BY DEF IInv, TypeOK
  <2>4. Held(v)' = S
    BY <1>3, <2>1, <2>2, <2>3
  <2>5. Held(v) = {}
    BY <1>2 DEF IInv, HeldInTime
  <2> QED
    BY <2>4, <2>5
<1>5. \A w \in Worker \ {v} : Held(w)' = Held(w)
  BY <1>1 DEF Held, IInv, TypeOK
<1>6. \A w \in Worker, j \in Job : Unacked(w, j)' = Unacked(w, j)
  BY <1>1, <1>2, <1>4, <1>5 DEF Unacked, Current, IInv, TypeOK
<1>7. LeasedIffRunning'
  BY <1>1, <1>3 DEF IInv, TypeOK, LeasedIffRunning, NotLocked
<1>8. ExclusiveClaims'
  BY <1>3, <1>4, <1>5 DEF IInv, ExclusiveClaims, Unheld
<1>9. HeldInTime'
  <2>1. ASSUME NEW w \in Worker \ {v}
        PROVE  /\ elapsed'[w] = elapsed[w] /\ pc'[w] = pc[w] /\ claim'[w] = claim[w]
               /\ \A j \in Held(w) : /\ status'[j] = status[j] /\ lockAge'[j] = lockAge[j]
                                     /\ attempts'[j] = attempts[j]
    <3>1. \A j \in Held(w) : j \in Job /\ j \notin S
      BY <1>3, <2>1 DEF Unheld, Held
    <3> QED
      BY <1>1, <2>1, <3>1 DEF IInv, TypeOK
  <2>2. ASSUME NEW w \in Worker \ {v}, NEW j \in Held(w)
        PROVE  /\ pc[w] \in {"work", "report"} /\ status[j] = "running"
               /\ claim[w][j] = attempts[j]
               /\ lockAge[j] + Cardinality(Held(w)) * HandlerTimeout
                    <= BatchSize * HandlerTimeout + elapsed[w]
    BY <2>2 DEF IInv, HeldInTime
  <2>3. elapsed'[v] = 0 /\ \A w \in Worker : elapsed[w] <= HandlerTimeout
    BY <1>1 DEF IInv, TypeOK, HeldInTime
  <2>4. Cardinality(S) \in Nat /\ Cardinality(S) <= BatchSize
    <3>1. IsFiniteSet(Job)
      BY FS_Interval DEF Job
    <3> QED
      BY <1>1, <1>3, <3>1, FS_Subset, FS_CardinalityType DEF Batch
  <2>5. ASSUME NEW j \in S
        PROVE  /\ pc'[v] \in {"work", "report"} /\ status'[j] = "running"
               /\ claim'[v][j] = attempts'[j] /\ lockAge'[j] = 0
    BY <1>1, <1>3, <2>5 DEF IInv, TypeOK
  <2>6. Cardinality(S) * HandlerTimeout <= BatchSize * HandlerTimeout
    BY <2>4, TimesMonotone
  <2>7. ASSUME NEW j \in S
        PROVE  lockAge'[j] + Cardinality(S) * HandlerTimeout
                 <= BatchSize * HandlerTimeout + elapsed'[v]
    BY <2>3, <2>4, <2>5, <2>6, <2>7
  <2>8. ASSUME NEW w \in Worker \ {v}, NEW j \in Held(w)'
        PROVE  /\ pc'[w] \in {"work", "report"} /\ status'[j] = "running"
               /\ claim'[w][j] = attempts'[j]
               /\ lockAge'[j] + Cardinality(Held(w)') * HandlerTimeout
                    <= BatchSize * HandlerTimeout + elapsed'[w]
    BY <1>5, <2>1, <2>2, <2>8
  <2>9. ASSUME NEW w \in Worker PROVE elapsed'[w] <= HandlerTimeout
    BY <2>1, <2>3
  <2>10. ASSUME NEW w \in Worker, NEW j \in Held(w)'
        PROVE  /\ pc'[w] \in {"work", "report"} /\ status'[j] = "running"
               /\ claim'[w][j] = attempts'[j]
               /\ lockAge'[j] + Cardinality(Held(w)') * HandlerTimeout
                    <= BatchSize * HandlerTimeout + elapsed'[w]
    <3>1. CASE w = v
      BY <1>4, <2>5, <2>7, <2>10, <3>1
    <3> QED
      BY <2>8, <2>10, <3>1
  <2> QED
    BY <2>9, <2>10 DEF HeldInTime
<1>10. AttemptsBudget' /\ AttemptsLeft'
  <2>1. \A j \in S : ~Unheld(j)'
    BY <1>4 DEF Unheld
  <2>2. \A j \in Job \ S : Unheld(j)' <=> Unheld(j)
    BY <1>4, <1>5 DEF Unheld
  <2>3. \A j \in S : /\ attempts[j] <= MaxAttempts + losses + revives
                     /\ attempts'[j] = attempts[j] + 1 /\ status'[j] = "running"
    BY <1>1, <1>3 DEF IInv, AttemptsLeft
  <2>4. \A j \in Job \ S : attempts'[j] = attempts[j] /\ status'[j] = status[j]
    BY <1>1
  <2>5. \A j \in Job : attempts[j] \in Nat /\ attempts[j] <= MaxAttempts + 1 + losses + revives
    BY DEF IInv, TypeOK, AttemptsBudget
  <2>6. losses' = losses /\ revives' = revives /\ losses \in Nat /\ revives \in Nat
    BY <1>2 DEF IInv, TypeOK
  <2>7. AttemptsBudget'
    BY <2>3, <2>4, <2>5, <2>6 DEF AttemptsBudget
  <2>8. AttemptsLeft'
    BY <2>1, <2>2, <2>3, <2>4, <2>6 DEF AttemptsLeft, IInv
  <2> QED
    BY <2>7, <2>8
<1>11. RepeatsOnlyAfterLosses' /\ RepeatsLeft'
  BY <1>1, <1>2, <1>3, <1>6 DEF IInv, TypeOK, RepeatsOnlyAfterLosses, RepeatsLeft
<1> QED
  BY <1>7, <1>8, <1>9, <1>10, <1>11 DEF IInv

\* A batch that nobody gets is held by nobody: each of its rows has spent an attempt
\* and is owed one.
LEMMA LosePopKeepsIInv ==
  ASSUME IInv, TypeOK', NEW v \in Worker, LosePop(v)
  PROVE  IInv'
<1> USE ConstantsAssumption
<1>1. PICK S \in SUBSET Eligible : S # {} /\ MarkRunning(S)
  BY DEF LosePop
<1>2. pc[v] = "pop" /\ pc' = [pc EXCEPT ![v] = "poll"] /\ losses' = losses + 1
      /\ UNCHANGED <<delay, claim, outcome, elapsed, done, revives>>
  BY DEF LosePop
<1>3. S \subseteq Job /\ \A j \in S : status[j] = "pending" /\ Unheld(j)
  BY DEF Eligible, Unheld, IInv, HeldInTime
<1>4. /\ \A w \in Worker : Held(w)' = Held(w)
      /\ \A j \in Job : Unheld(j)' = Unheld(j)
      /\ \A w \in Worker, j \in Job : Unacked(w, j)' = Unacked(w, j)
  BY <1>2 DEF Held, Unheld, Unacked, Current, IInv, TypeOK
<1>5. LeasedIffRunning'
  BY <1>1, <1>3 DEF MarkRunning, IInv, TypeOK, LeasedIffRunning, NotLocked
<1>6. ExclusiveClaims'
  BY <1>4 DEF IInv, ExclusiveClaims
<1>7. HeldInTime'
  <2>1. ASSUME NEW w \in Worker, NEW j \in Held(w)
        PROVE  /\ j \in Job /\ w # v
               /\ status'[j] = status[j] /\ lockAge'[j] = lockAge[j]
               /\ attempts'[j] = attempts[j] /\ pc'[w] = pc[w]
    <3>1. j \in Job /\ j \notin S /\ w # v
      BY <1>2, <1>3, <2>1 DEF Unheld, Held, IInv, HeldInTime
    <3> QED
      BY <1>1, <1>2, <2>1, <3>1 DEF MarkRunning, IInv, TypeOK
  <2>2. elapsed' = elapsed /\ claim' = claim
    BY <1>2
  <2>3. HeldInTime
    BY DEF IInv
  <2> QED
    BY <1>4, <2>1, <2>2, <2>3 DEF HeldInTime
<1>8. AttemptsBudget' /\ AttemptsLeft'
  <2>1. \A j \in Job : attempts'[j] = IF j \in S THEN attempts[j] + 1 ELSE attempts[j]
    BY <1>1 DEF MarkRunning, ClaimedAttempts
  <2>2. \A j \in S : /\ attempts[j] <= MaxAttempts + losses + revives
                     /\ status'[j] = "running"
    BY <1>1, <1>3 DEF MarkRunning, IInv, AttemptsLeft
  <2>3. \A j \in Job \ S : status'[j] = status[j]
    BY <1>1 DEF MarkRunning
  <2>4. \A j \in Job : attempts[j] \in Nat /\ attempts[j] <= MaxAttempts + 1 + losses + revives
    BY DEF IInv, TypeOK, AttemptsBudget
  <2>5. losses' = losses + 1 /\ revives' = revives /\ losses \in Nat /\ revives \in Nat
    BY <1>2 DEF IInv, TypeOK
  <2>6. AttemptsBudget'
    BY <2>1, <2>2, <2>4, <2>5 DEF AttemptsBudget
  <2>7. AttemptsLeft'
    BY <1>4, <2>1, <2>2, <2>3, <2>4, <2>5 DEF IInv, AttemptsLeft
  <2> QED
    BY <2>6, <2>7
<1>9. RepeatsOnlyAfterLosses' /\ RepeatsLeft'
  BY <1>1, <1>2, <1>3, <1>4 DEF MarkRunning, IInv, TypeOK, RepeatsOnlyAfterLosses, RepeatsLeft
<1> QED
  BY <1>5, <1>6, <1>7, <1>8, <1>9 DEF IInv

\* The handler of a job runs under the only claim of that job.
LEMMA HandleKeepsIInv ==
  ASSUME IInv, TypeOK', NEW v \in Worker, NEW i \in Job, NEW o \in Outcome,
         Handle(v, i, o)
  PROVE  IInv'
<1> USE ConstantsAssumption
<1>1. /\ \A w \in Worker : Held(w)' = Held(w)
      /\ \A j \in Job : Unheld(j)' = Unheld(j)
  BY DEF Handle, Held, Unheld
<1>2. UNCHANGED <<status, attempts, delay, lockAge, claim, elapsed, losses, revives>>
  BY DEF Handle, rows
<1>3. pc' = [pc EXCEPT ![v] = "report"] /\ pc[v] = "work" /\ Current(v, i)
  BY DEF Handle
<1>4. LeasedIffRunning' /\ ExclusiveClaims'
  BY <1>1, <1>2 DEF IInv, LeasedIffRunning, ExclusiveClaims
<1>5. HeldInTime'
  BY <1>1, <1>2, <1>3 DEF IInv, TypeOK, HeldInTime
<1>6. AttemptsBudget' /\ AttemptsLeft'
  BY <1>1, <1>2 DEF IInv, AttemptsBudget, AttemptsLeft
<1>7. done[i] <= losses
  <2>1. status[i] = "running"
    BY <1>3 DEF IInv, HeldInTime, Current
  <2>2. \A w \in Worker : ~Unacked(w, i)
    BY <1>3 DEF IInv, ExclusiveClaims, Unacked, Current
  <2> QED
    BY <2>1, <2>2 DEF IInv, RepeatsLeft
<1>8. /\ \A j \in Job \ {i} : done'[j] = done[j]
      /\ done'[i] = IF o = "ok" THEN done[i] + 1 ELSE done[i]
  BY DEF Handle, IInv, TypeOK
<1>9. RepeatsOnlyAfterLosses'
  BY <1>2, <1>7, <1>8 DEF IInv, TypeOK, RepeatsOnlyAfterLosses
<1>10. RepeatsLeft'
  <2>1. ASSUME NEW j \in Job \ {i}, NEW w \in Worker, Unacked(w, j) PROVE Unacked(w, j)'
    <3>1. w # v
      BY <1>3, <2>1 DEF Unacked
    <3> QED
      BY <1>1, <2>1, <3>1 DEF Handle, Unacked, Current, IInv, TypeOK
  <2>2. o = "ok" => Unacked(v, i)'
    BY <1>1, <1>3 DEF Handle, Unacked, Current, IInv, TypeOK
  <2>3. ASSUME NEW j \in Job \ {i}, status'[j] # "succeeded",
               \A w \in Worker : ~Unacked(w, j)'
        PROVE  done'[j] <= losses'
    BY <1>2, <1>8, <2>1, <2>3 DEF IInv, RepeatsLeft
  <2>4. (\A w \in Worker : ~Unacked(w, i)') => done'[i] <= losses'
    BY <1>2, <1>7, <1>8, <2>2
  <2> QED
    BY <2>3, <2>4 DEF RepeatsLeft
<1> QED
  BY <1>4, <1>5, <1>6, <1>9, <1>10 DEF IInv

\* The end of an attempt, by ack or by fail, takes one job out of a batch.
LEMMA SettleKeepsIInv ==
  ASSUME IInv, TypeOK', NEW v \in Worker, NEW i \in Job,
         NEW s \in {"succeeded", "pending", "dead"},
         pc[v] = "report", Current(v, i), Settle(i, s), NextJob(v, i),
         UNCHANGED <<attempts, done, losses, revives>>,
         outcome[v] = "ok" => s = "succeeded",
         s = "pending" => attempts[i] <= MaxAttempts
  PROVE  IInv'
<1> USE ConstantsAssumption
<1>1. /\ Held(v)' = Held(v) \ {i} /\ i \in Held(v)
      /\ \A w \in Worker \ {v} : Held(w)' = Held(w)
  BY DEF NextJob, Held, Current, IInv, TypeOK
<1>2. /\ status'[i] = s /\ lockAge'[i] = NotLocked
      /\ \A j \in Job \ {i} : status'[j] = status[j] /\ lockAge'[j] = lockAge[j]
  BY DEF Settle, IInv, TypeOK
<1>3. \A w \in Worker \ {v} :
        pc'[w] = pc[w] /\ claim'[w] = claim[w] /\ elapsed'[w] = elapsed[w]
  BY DEF NextJob, IInv, TypeOK
<1>4. \A w \in Worker \ {v} : i \notin Held(w)
  BY <1>1 DEF IInv, ExclusiveClaims
<1>5. LeasedIffRunning'
  BY <1>2 DEF IInv, LeasedIffRunning
<1>6. ExclusiveClaims'
  BY <1>1 DEF IInv, ExclusiveClaims
<1>7. HeldInTime'
  <2> DEFINE n == Cardinality(Held(v))
  <2>1. ASSUME NEW w \in Worker \ {v}, NEW j \in Held(w)'
        PROVE  /\ pc'[w] \in {"work", "report"} /\ status'[j] = "running"
               /\ claim'[w][j] = attempts'[j]
               /\ lockAge'[j] + Cardinality(Held(w)') * HandlerTimeout
                    <= BatchSize * HandlerTimeout + elapsed'[w]
    <3>1. j \in Held(w) /\ j \in Job /\ j # i /\ attempts' = attempts
      BY <1>1, <1>4, <2>1 DEF Held
    <3>2. Held(w)' = Held(w)
      BY <1>1
    <3> QED
      BY <1>2, <1>3, <3>1, <3>2 DEF IInv, HeldInTime
  <2>2. ASSUME NEW j \in Held(v)'
        PROVE  /\ pc'[v] \in {"work", "report"} /\ status'[j] = "running"
               /\ claim'[v][j] = attempts'[j]
    <3>1. j \in Held(v) /\ j # i /\ j \in Job /\ Held(v) # {i}
      BY <1>1, <2>2 DEF Held
    <3> QED
      BY <1>2, <3>1 DEF NextJob, IInv, TypeOK, HeldInTime
  <2>3. ASSUME NEW j \in Held(v)'
        PROVE  lockAge'[j] + Cardinality(Held(v)') * HandlerTimeout
                 <= BatchSize * HandlerTimeout + elapsed'[v]
    <3>1. j \in Held(v) /\ j # i /\ j \in Job
      BY <1>1, <2>3 DEF Held
    <3>2. n \in Nat /\ n >= 1 /\ Cardinality(Held(v)') = n - 1
      BY <1>1, HeldSize
    <3>3. /\ lockAge[j] + n * HandlerTimeout <= BatchSize * HandlerTimeout + elapsed[v]
          /\ elapsed[v] <= HandlerTimeout /\ elapsed[v] \in Nat
      BY <3>1 DEF IInv, TypeOK, HeldInTime
    <3>4. elapsed'[v] = 0
      BY DEF NextJob, IInv, TypeOK
    <3>5. lockAge'[j] = lockAge[j] /\ lockAge[j] \in Int
      BY <1>2, <3>1 DEF IInv, TypeOK, NotLocked
    <3> HIDE DEF n
    <3>6. (n - 1) * HandlerTimeout = n * HandlerTimeout - HandlerTimeout
      BY <3>2
    <3>7. n * HandlerTimeout \in Int /\ BatchSize * HandlerTimeout \in Int
      BY <3>2
    <3> QED
      BY <3>2, <3>3, <3>4, <3>5, <3>6, <3>7
  <2>4. \A w \in Worker : elapsed'[w] <= HandlerTimeout
    BY <1>3 DEF NextJob, IInv, TypeOK, HeldInTime
  <2>5. ASSUME NEW w \in Worker, NEW j \in Held(w)'
        PROVE  /\ pc'[w] \in {"work", "report"} /\ status'[j] = "running"
               /\ claim'[w][j] = attempts'[j]
               /\ lockAge'[j] + Cardinality(Held(w)') * HandlerTimeout
                    <= BatchSize * HandlerTimeout + elapsed'[w]
    <3>1. CASE w = v
      BY <2>2, <2>3, <2>5, <3>1
    <3> QED
      BY <2>1, <2>5, <3>1
  <2> QED
    BY <2>4, <2>5 DEF HeldInTime
<1>8. AttemptsBudget' /\ AttemptsLeft'
  <2>1. \A j \in Job \ {i} : Unheld(j)' <=> Unheld(j)
    BY <1>1 DEF Unheld
  <2>2. AttemptsBudget'
    BY DEF IInv, AttemptsBudget
  <2>3. s = "pending" => attempts[i] <= MaxAttempts + losses + revives
    BY DEF IInv, TypeOK
  <2> QED
    BY <1>2, <2>1, <2>2, <2>3 DEF IInv, AttemptsLeft
<1>9. RepeatsOnlyAfterLosses' /\ RepeatsLeft'
  <2>1. ASSUME NEW j \in Job \ {i}, NEW w \in Worker, Unacked(w, j) PROVE Unacked(w, j)'
    <3>1. w # v
      BY <2>1, CurrentUnique DEF Unacked
    <3> QED
      BY <1>1, <1>3, <2>1, <3>1 DEF NextJob, Unacked, Current
  <2>2. s # "succeeded" => done[i] <= losses
    <3>1. s # "succeeded" => \A w \in Worker : ~Unacked(w, i)
      BY <1>4 DEF Unacked, Current
    <3>2. status[i] = "running"
      BY <1>1 DEF IInv, HeldInTime
    <3> QED
      BY <3>1, <3>2 DEF IInv, RepeatsLeft
  <2>3. ASSUME NEW j \in Job \ {i}, status'[j] # "succeeded",
               \A w \in Worker : ~Unacked(w, j)'
        PROVE  done'[j] <= losses'
    BY <1>2, <2>1, <2>3 DEF IInv, RepeatsLeft
  <2> QED
    BY <1>2, <2>2, <2>3 DEF IInv, RepeatsOnlyAfterLosses, RepeatsLeft
<1> QED
  BY <1>5, <1>6, <1>7, <1>8, <1>9 DEF IInv

LEMMA AckKeepsIInv ==
  ASSUME IInv, TypeOK', NEW v \in Worker, NEW i \in Job, Ack(v, i)
  PROVE  IInv'
BY SettleKeepsIInv DEF Ack, history

LEMMA FailKeepsIInv ==
  ASSUME IInv, TypeOK', NEW v \in Worker, NEW i \in Job, Fail(v, i)
  PROVE  IInv'
<1> DEFINE s == Verdict(outcome[v], claim[v][i])
<1>1. s \in {"succeeded", "pending", "dead"} /\ s # "succeeded"
  BY DEF Verdict
<1>2. Current(v, i) /\ claim[v][i] = attempts[i]
  BY DEF Fail, Current, IInv, HeldInTime
<1>3. s = "pending" => attempts[i] <= MaxAttempts
  BY <1>2 DEF Verdict
<1>4. Settle(i, s) /\ NextJob(v, i) /\ pc[v] = "report" /\ outcome[v] # "ok"
  BY DEF Fail
<1> HIDE DEF s
<1> QED
  BY <1>1, <1>2, <1>3, <1>4, SettleKeepsIInv DEF Fail, history

\* A worker that goes away leaves its rows running with nobody to hold them: each
\* has an attempt more to spare, and one more Ok that may be repeated.
LEMMA ExitKeepsIInv ==
  ASSUME IInv, TypeOK', NEW v \in Worker, Exit(v)
  PROVE  IInv'
<1> USE ConstantsAssumption
<1>1. Held(v)' = {} /\ \A w \in Worker \ {v} : Held(w)' = Held(w)
  BY DEF Exit, Held, IInv, TypeOK
<1>2. \A w \in Worker \ {v} :
        pc'[w] = pc[w] /\ claim'[w] = claim[w] /\ elapsed'[w] = elapsed[w]
  BY DEF Exit, IInv, TypeOK
<1>3. /\ UNCHANGED <<status, attempts, lockAge, outcome, done, revives>>
      /\ losses' = losses + 1
  BY DEF Exit, rows
<1>4. LeasedIffRunning' /\ ExclusiveClaims'
  BY <1>1, <1>3 DEF IInv, LeasedIffRunning, ExclusiveClaims
<1>5. HeldInTime'
  <2>1. elapsed'[v] = 0
    BY DEF Exit, IInv, TypeOK
  <2>2. ASSUME NEW w \in Worker \ {v}
        PROVE  /\ elapsed'[w] <= HandlerTimeout
               /\ \A j \in Held(w)' :
                    /\ pc'[w] \in {"work", "report"} /\ status'[j] = "running"
                    /\ claim'[w][j] = attempts'[j]
                    /\ lockAge'[j] + Cardinality(Held(w)') * HandlerTimeout
                         <= BatchSize * HandlerTimeout + elapsed'[w]
    <3>1. Held(w)' = Held(w)
      BY <1>1
    <3> QED
      BY <1>2, <1>3, <3>1 DEF IInv, HeldInTime
  <2> QED
    BY <1>1, <2>1, <2>2 DEF HeldInTime
<1>6. AttemptsBudget' /\ AttemptsLeft'
  BY <1>3 DEF IInv, TypeOK, AttemptsBudget, AttemptsLeft
<1>7. RepeatsOnlyAfterLosses' /\ RepeatsLeft'
  BY <1>3 DEF IInv, TypeOK, RepeatsOnlyAfterLosses, RepeatsLeft
<1> QED
  BY <1>4, <1>5, <1>6, <1>7 DEF IInv

LEMMA RestartKeepsIInv ==
  ASSUME IInv, TypeOK', NEW v \in Worker, Restart(v)
  PROVE  IInv'
<1> USE ConstantsAssumption
<1>1. /\ \A w \in Worker : Held(w)' = Held(w)
      /\ \A j \in Job : Unheld(j)' = Unheld(j)
      /\ Held(v) = {}
  BY DEF Restart, Held, Unheld, IInv, HeldInTime
<1>2. UNCHANGED <<status, attempts, lockAge, claim, outcome, elapsed, done, losses, revives>>
  BY DEF Restart, rows, history
<1>3. \A w \in Worker \ {v} : pc'[w] = pc[w]
  BY DEF Restart, IInv, TypeOK
<1>4. LeasedIffRunning' /\ ExclusiveClaims'
  BY <1>1, <1>2 DEF IInv, LeasedIffRunning, ExclusiveClaims
<1>5. HeldInTime'
  <2>1. ASSUME NEW w \in Worker, NEW j \in Held(w) PROVE w # v
    BY <1>1, <2>1
  <2> QED
    BY <1>1, <1>2, <1>3, <2>1 DEF IInv, HeldInTime
<1>6. AttemptsBudget' /\ AttemptsLeft'
  BY <1>1, <1>2 DEF IInv, AttemptsBudget, AttemptsLeft
<1>7. \A w \in Worker, j \in Job : Unacked(w, j) => Unacked(w, j)'
  BY <1>1, <1>2, <1>3 DEF Unacked, Current
<1>8. RepeatsOnlyAfterLosses' /\ RepeatsLeft'
  BY <1>2, <1>7 DEF IInv, RepeatsOnlyAfterLosses, RepeatsLeft
<1> QED
  BY <1>4, <1>5, <1>6, <1>8 DEF IInv

\* Time passes only while every handler that runs has time left, so a held lease
\* ages no faster than the handler before which it waits.
LEMMA TickKeepsIInv ==
  ASSUME WellSized, IInv, TypeOK', Tick
  PROVE  IInv'
<1> USE ConstantsAssumption
<1>1. /\ \A w \in Worker : Held(w)' = Held(w)
      /\ \A j \in Job : Unheld(j)' = Unheld(j)
      /\ \A w \in Worker, j \in Job : Unacked(w, j)' = Unacked(w, j)
  BY DEF Tick, Held, Unheld, Unacked, Current, history
<1>2. UNCHANGED <<status, attempts, pc, claim, outcome, done, losses, revives>>
  BY DEF Tick, history
<1>3. LeasedIffRunning'
  BY DEF Tick, IInv, TypeOK, LeasedIffRunning, NotLocked
<1>4. ExclusiveClaims'
  BY <1>1 DEF IInv, ExclusiveClaims
<1>5. HeldInTime'
  <2>1. \A w \in Worker : OnTime(w)
    BY DEF Tick, WellSized
  <2>2. \A w \in Worker : elapsed'[w] <= HandlerTimeout
    BY DEF Tick, IInv, TypeOK, HeldInTime
  <2>3. ASSUME NEW w \in Worker, NEW j \in Held(w)
        PROVE  elapsed'[w] = elapsed[w] + 1
    BY <2>1, <2>3 DEF Tick, OnTime, IInv, TypeOK, HeldInTime
  <2>4. \A j \in Job : lockAge'[j] <= lockAge[j] + 1 /\ lockAge[j] \in Int
                       /\ lockAge'[j] \in Int
    BY DEF Tick, IInv, TypeOK, NotLocked
  <2>5. ASSUME NEW w \in Worker, NEW j \in Held(w)
        PROVE  lockAge'[j] + Cardinality(Held(w)) * HandlerTimeout
                 <= BatchSize * HandlerTimeout + elapsed'[w]
    <3> DEFINE x == Cardinality(Held(w)) * HandlerTimeout
               b == BatchSize * HandlerTimeout
    <3>1. x \in Int /\ b \in Int
      BY HeldSize
    <3>2. lockAge[j] + x <= b + elapsed[w] /\ elapsed[w] \in Int
      BY <2>5 DEF IInv, TypeOK, HeldInTime
    <3>3. j \in Job
      BY <2>5 DEF Held
    <3> HIDE DEF x, b
    <3>4. lockAge'[j] + x <= b + elapsed'[w]
      BY <2>3, <2>4, <2>5, <3>1, <3>2, <3>3
    <3> QED
      BY <3>4 DEF x, b
  <2> QED
    BY <1>1, <1>2, <2>2, <2>5 DEF IInv, HeldInTime
<1>6. AttemptsBudget' /\ AttemptsLeft'
  BY <1>1, <1>2 DEF IInv, AttemptsBudget, AttemptsLeft
<1>7. RepeatsOnlyAfterLosses' /\ RepeatsLeft'
  BY <1>1, <1>2 DEF IInv, RepeatsOnlyAfterLosses, RepeatsLeft
<1> QED
  BY <1>3, <1>4, <1>5, <1>6, <1>7 DEF IInv

LEMMA StutterKeepsIInv ==
  ASSUME IInv, UNCHANGED vars
  PROVE  IInv'
<1>1. /\ \A w \in Worker : Held(w)' = Held(w)
      /\ \A j \in Job : Unheld(j)' = Unheld(j)
      /\ \A w \in Worker, j \in Job : Unacked(w, j)' = Unacked(w, j)
  BY DEF vars, Held, Unheld, Unacked, Current
<1>2. TypeOK' /\ LeasedIffRunning'
  BY DEF vars, IInv, TypeOK, LeasedIffRunning
<1>3. ExclusiveClaims' /\ HeldInTime'
  BY <1>1 DEF vars, IInv, ExclusiveClaims, HeldInTime
<1>4. AttemptsBudget' /\ AttemptsLeft'
  BY <1>1 DEF vars, IInv, AttemptsBudget, AttemptsLeft
<1>5. RepeatsOnlyAfterLosses' /\ RepeatsLeft'
  BY <1>1 DEF vars, IInv, RepeatsOnlyAfterLosses, RepeatsLeft
<1> QED
  BY <1>2, <1>3, <1>4, <1>5 DEF IInv

LEMMA NextKeepsIInv ==
  ASSUME WellSized, IInv, [Next]_vars
  PROVE  IInv'
<1>1. TypeOK'
  BY TypeOKStep DEF IInv
<1> QED
  BY <1>1, PushKeepsIInv, RetryDeadKeepsIInv, ReclaimStaleKeepsIInv, PopKeepsIInv,
     LosePopKeepsIInv, HandleKeepsIInv, AckKeepsIInv, FailKeepsIInv, ExitKeepsIInv, RestartKeepsIInv,
     TickKeepsIInv, StutterKeepsIInv
  DEF Next, Report

LEMMA InitIInv == Init => IInv
<1> SUFFICES ASSUME Init PROVE IInv
  OBVIOUS
<1> USE ConstantsAssumption
<1>1. TypeOK
  BY DEF Init, TypeOK, Status, Phase, Outcome, NotLocked
<1>2. \A w \in Worker : Held(w) = {}
  BY DEF Init, Held
<1> QED
  BY <1>1, <1>2 DEF Init, IInv, LeasedIffRunning, ExclusiveClaims, HeldInTime,
     AttemptsBudget, AttemptsLeft, RepeatsOnlyAfterLosses, RepeatsLeft, NotLocked

--------------------------------------------------------------------------------
\* The theorems.

\* The inductive invariant holds in every configuration that is WellSized.
LEMMA InductiveInvariant ==
  ASSUME WellSized
  PROVE  Spec => []IInv
<1>1. IInv /\ [Next]_vars => IInv'
  BY NextKeepsIInv
<1> QED
  BY <1>1, InitIInv, PTL DEF Spec

\* jobs.rs, line 13: with batch_size * handler_timeout at most two leases,
\* no two live workers ever hold the same job, whatever crashes.
THEOREM ClaimsAreExclusive ==
  ASSUME WellSized
  PROVE  Spec => []ExclusiveClaims
<1>1. IInv => ExclusiveClaims
  BY DEF IInv
<1> QED
  BY <1>1, InductiveInvariant, PTL

\* jobs.rs, line 243: attempts stay within max_attempts + 1, plus one for each
\* claim that lost its worker and each replay.
THEOREM AttemptsWithinBudget ==
  ASSUME WellSized
  PROVE  Spec => []AttemptsBudget
<1>1. IInv => AttemptsBudget
  BY DEF IInv
<1> QED
  BY <1>1, InductiveInvariant, PTL

\* A handler that returned Ok runs to Ok again only after a worker went away.
THEOREM RepeatsNeedLosses ==
  ASSUME WellSized
  PROVE  Spec => []RepeatsOnlyAfterLosses
<1>1. IInv => RepeatsOnlyAfterLosses
  BY DEF IInv
<1> QED
  BY <1>1, InductiveInvariant, PTL

--------------------------------------------------------------------------------
\* The queue implements the life cycle it promises.

\* A row's holders are the live workers that have it in their batch.
Holders == [j \in Job |-> {w \in Worker : j \in Held(w)}]

LEMMA StepImplementsLifecycle ==
  ASSUME WellSized, IInv, IInv', [Next]_vars
  PROVE  [Lifecycle!Next]_(Lifecycle!vars)
<1> USE ConstantsAssumption DEF Lifecycle!vars
<1>1. ASSUME NEW j \in Job, NEW d \in 0..MaxDelay, Push(j, d) PROVE Lifecycle!Submit(j)
  BY <1>1 DEF Push, loops, Lifecycle!Submit, Held
<1>2. ASSUME NEW j \in Job, RetryDead(j) PROVE Lifecycle!Revive(j)
  BY <1>2 DEF RetryDead, Settle, loops, Lifecycle!Revive, Held
<1>3. ASSUME NEW v \in Worker, ReclaimStale(v)
      PROVE  Lifecycle!Recover({j \in Job : Reclaimable(j)})
  <2>1. \A j \in Job : Reclaimable(j) => status[j] = "running" /\ Holders[j] = {}
    BY HeldNotReclaimable DEF Reclaimable, Holders
  <2>2. claim' = claim
    BY <1>3 DEF ReclaimStale
  <2>3. status' = [j \in Job |-> IF j \in {k \in Job : Reclaimable(k)}
                                 THEN "pending" ELSE status[j]]
    BY <1>3 DEF ReclaimStale
  <2> QED
    BY <2>1, <2>2, <2>3 DEF Lifecycle!Recover, Holders, Held
<1>4. ASSUME NEW v \in Worker, Pop(v)
      PROVE  \E S \in SUBSET Job : Lifecycle!Claim(v, S)
  <2>1. PICK S \in SUBSET Eligible :
          /\ status' = [j \in Job |-> IF j \in S THEN "running" ELSE status[j]]
          /\ claim' = [claim EXCEPT ![v] =
                         [j \in Job |-> IF j \in S THEN attempts[j] + 1 ELSE 0]]
    BY <1>4 DEF Pop, MarkRunning, ClaimedAttempts
  <2>2. S \in SUBSET Job /\ \A j \in S : status[j] = "pending" /\ Unheld(j)
    BY DEF Eligible, Unheld, IInv, HeldInTime
  <2>3. \A j \in Job : claim'[v][j] = IF j \in S THEN attempts[j] + 1 ELSE 0
    BY <2>1 DEF IInv, TypeOK
  <2>4. Held(v)' = S
    BY <2>2, <2>3 DEF Held, IInv, TypeOK
  <2>5. Held(v) = {} /\ \A w \in Worker \ {v} : Held(w)' = Held(w)
    BY <1>4, <2>1 DEF Pop, Held, IInv, TypeOK, HeldInTime
  <2>6. Holders' = [j \in Job |-> IF j \in S THEN {v} ELSE Holders[j]]
    BY <2>2, <2>4, <2>5 DEF Holders, Unheld
  <2>7. \A j \in S : Holders[j] = {}
    BY <2>2 DEF Holders, Unheld
  <2> QED
    BY <2>1, <2>2, <2>6, <2>7 DEF Lifecycle!Claim, Holders
<1>12. ASSUME NEW v \in Worker, LosePop(v)
      PROVE  \E S \in SUBSET Job : Lifecycle!Lose(S)
  <2>1. PICK S \in SUBSET Eligible :
          status' = [j \in Job |-> IF j \in S THEN "running" ELSE status[j]]
    BY <1>12 DEF LosePop, MarkRunning
  <2>2. S \in SUBSET Job /\ \A j \in S : status[j] = "pending" /\ Holders[j] = {}
    BY DEF Eligible, IInv, HeldInTime, Holders
  <2>3. Holders' = Holders
    BY <1>12 DEF LosePop, Holders, Held
  <2> QED
    BY <2>1, <2>2, <2>3 DEF Lifecycle!Lose, Holders
<1>5. ASSUME NEW v \in Worker, NEW i \in Job, NEW s \in {"succeeded", "dead", "pending"},
             Settle(i, s), NextJob(v, i), Current(v, i)
      PROVE  Lifecycle!Settle(v, i, s)
  <2>1. i \in Held(v) /\ Held(v)' = Held(v) \ {i}
    BY <1>5 DEF NextJob, Held, Current, IInv, TypeOK
  <2>2. \A w \in Worker \ {v} : Held(w)' = Held(w) /\ i \notin Held(w)
    BY <1>5, <2>1 DEF NextJob, Held, IInv, TypeOK, ExclusiveClaims
  <2>3. status[i] = "running"
    BY <2>1 DEF IInv, HeldInTime
  <2>4. Holders' = [Holders EXCEPT ![i] = {}]
    <3>1. {w \in Worker : i \in Held(w)'} = {}
      BY <2>1, <2>2
    <3>2. \A w \in Worker, j \in Job \ {i} : j \in Held(w)' <=> j \in Held(w)
      BY <2>1, <2>2
    <3>3. \A j \in Job \ {i} : {w \in Worker : j \in Held(w)'} = {w \in Worker : j \in Held(w)}
      BY <3>2
    <3> QED
      BY <3>1, <3>3 DEF Holders
  <2>5. Holders[i] = {v}
    BY <2>1, <2>2 DEF Holders
  <2> QED
    BY <1>5, <2>3, <2>4, <2>5 DEF Lifecycle!Settle, Settle, Holders
<1>6. ASSUME NEW v \in Worker, Exit(v) PROVE Lifecycle!Abandon(v)
  <2>1. Held(v)' = {} /\ \A w \in Worker \ {v} : Held(w)' = Held(w)
    BY <1>6 DEF Exit, Held, IInv, TypeOK
  <2>2. Holders' = [j \in Job |-> Holders[j] \ {v}]
    BY <2>1 DEF Holders
  <2> QED
    BY <1>6, <2>2 DEF Exit, rows, Lifecycle!Abandon, Holders
<1>7. ASSUME UNCHANGED <<status, claim>> PROVE UNCHANGED Lifecycle!vars
  BY <1>7 DEF Held
<1>8. ASSUME NEW v \in Worker, NEW i \in Job, Ack(v, i)
      PROVE  Lifecycle!Settle(v, i, "succeeded")
  BY <1>5, <1>8 DEF Ack
<1>9. ASSUME NEW v \in Worker, NEW i \in Job, Fail(v, i)
      PROVE  \E s \in Lifecycle!State : Lifecycle!Settle(v, i, s)
  <2>1. Verdict(outcome[v], claim[v][i]) \in {"dead", "pending"}
    BY DEF Verdict
  <2> QED
    BY <1>5, <1>9, <2>1 DEF Fail, Lifecycle!State
<1>10. CASE \E v \in Worker, i \in Job, o \in Outcome : Handle(v, i, o)
  BY <1>7, <1>10 DEF Handle, rows
<1>11. CASE (\E v \in Worker : Restart(v)) \/ Tick \/ UNCHANGED vars
  BY <1>7, <1>11 DEF Restart, rows, Tick, vars
<1> QED
  BY <1>1, <1>2, <1>3, <1>4, <1>6, <1>8, <1>9, <1>10, <1>11, <1>12
  DEF Next, Report, Lifecycle!Next, Lifecycle!State

\* With a WellSized configuration the leases, batches and timeouts implement the
\* exclusive life cycle of JobLifecycle: only its holder settles a job, it is taken
\* away from nobody who is alive, and a finished job stays finished.
THEOREM QueueImplementsLifecycle ==
  ASSUME WellSized
  PROVE  Spec => ImplementsLifecycle
<1>1. Init => Lifecycle!Init
  BY DEF Init, Lifecycle!Init, Held
<1>2. IInv /\ IInv' /\ [Next]_vars => [Lifecycle!Next]_(Lifecycle!vars)
  BY StepImplementsLifecycle
<1> QED
  BY <1>1, <1>2, InductiveInvariant, PTL
  DEF Spec, ImplementsLifecycle, Lifecycle!Spec

--------------------------------------------------------------------------------
(* What holds in every configuration, for workers and handlers of any speed:  *)
(* overtaken workers may overwrite each other's rows, but a success was earned, *)
(* a lease belongs to a running row, and the attempts that pop read back tell   *)
(* the holders of a job apart.                                                  *)

\* A row has a lease exactly while it is running, whoever writes it.
LEMMA LeaseStep == TypeOK /\ LeasedIffRunning /\ [Next]_vars => LeasedIffRunning'
<1> SUFFICES ASSUME TypeOK, LeasedIffRunning, [Next]_vars PROVE LeasedIffRunning'
  OBVIOUS
<1> USE DEF TypeOK, LeasedIffRunning, NotLocked, Status, rows
<1>1. ASSUME NEW j \in Job, NEW d \in 0..MaxDelay, Push(j, d) PROVE LeasedIffRunning'
  BY <1>1 DEF Push
<1>2. ASSUME NEW j \in Job, RetryDead(j) PROVE LeasedIffRunning'
  BY <1>2 DEF RetryDead, Settle
<1>3. ASSUME NEW w \in Worker, ReclaimStale(w) PROVE LeasedIffRunning'
  BY <1>3 DEF ReclaimStale
<1>4. ASSUME NEW S \in SUBSET Eligible, MarkRunning(S) PROVE LeasedIffRunning'
  BY <1>4 DEF MarkRunning
<1>5. ASSUME NEW w \in Worker, Pop(w) PROVE LeasedIffRunning'
  BY <1>4, <1>5 DEF Pop
<1>6. ASSUME NEW w \in Worker, LosePop(w) PROVE LeasedIffRunning'
  BY <1>4, <1>6 DEF LosePop
<1>7. ASSUME NEW w \in Worker, NEW j \in Job, NEW o \in Outcome, Handle(w, j, o)
      PROVE  LeasedIffRunning'
  BY <1>7 DEF Handle
<1>8. ASSUME NEW w \in Worker, NEW j \in Job, Ack(w, j) PROVE LeasedIffRunning'
  BY <1>8 DEF Ack, Settle
<1>9. ASSUME NEW w \in Worker, NEW j \in Job, Fail(w, j) PROVE LeasedIffRunning'
  BY <1>9 DEF Fail, Settle, Verdict
<1>10. ASSUME NEW w \in Worker, Exit(w) PROVE LeasedIffRunning'
  BY <1>10 DEF Exit
<1>11. ASSUME NEW w \in Worker, Restart(w) PROVE LeasedIffRunning'
  BY <1>11 DEF Restart
<1>12. CASE Tick
  BY <1>12, ConstantsAssumption DEF Tick
<1>13. CASE UNCHANGED vars
  BY <1>13 DEF vars
<1> QED
  BY <1>1, <1>2, <1>3, <1>5, <1>6, <1>7, <1>8, <1>9, <1>10, <1>11, <1>12, <1>13
  DEF Next, Report

\* Attempts only grow, and a claim is the highest number its job has had so far.
LEMMA FenceStep == TypeOK /\ AttemptsFence /\ [Next]_vars => AttemptsFence'
<1> SUFFICES ASSUME TypeOK, AttemptsFence, [Next]_vars PROVE AttemptsFence'
  OBVIOUS
<1> USE DEF TypeOK, AttemptsFence, Held, rows, loops
<1>1. CASE UNCHANGED <<attempts, claim>>
  BY <1>1
<1>2. ASSUME NEW w \in Worker, Pop(w) PROVE AttemptsFence'
  <2>1. PICK S \in SUBSET Eligible :
          /\ attempts' = [j \in Job |-> IF j \in S THEN attempts[j] + 1 ELSE attempts[j]]
          /\ claim' = [claim EXCEPT ![w] =
                         [j \in Job |-> IF j \in S THEN attempts[j] + 1 ELSE 0]]
    BY <1>2 DEF Pop, MarkRunning, ClaimedAttempts
  <2>2. ASSUME NEW j \in Job, NEW v \in Worker
        PROVE  claim'[v][j] = IF v = w THEN IF j \in S THEN attempts[j] + 1 ELSE 0
                              ELSE claim[v][j]
    BY <2>1
  <2> QED
    BY <2>1, <2>2
<1>3. ASSUME NEW w \in Worker, LosePop(w) PROVE AttemptsFence'
  <2>1. PICK S \in SUBSET Eligible :
          attempts' = [j \in Job |-> IF j \in S THEN attempts[j] + 1 ELSE attempts[j]]
    BY <1>3 DEF LosePop, MarkRunning, ClaimedAttempts
  <2>2. claim' = claim
    BY <1>3 DEF LosePop
  <2> QED
    BY <2>1, <2>2
<1>4. ASSUME NEW w \in Worker, NEW j \in Job, NextJob(w, j), attempts' = attempts
      PROVE  AttemptsFence'
  <2>1. \A v \in Worker, k \in Job :
          claim'[v][k] = IF v = w /\ k = j THEN 0 ELSE claim[v][k]
    BY <1>4 DEF NextJob
  <2> QED
    BY <1>4, <2>1
<1>5. ASSUME NEW w \in Worker, Exit(w) PROVE AttemptsFence'
  <2>1. \A v \in Worker, k \in Job : claim'[v][k] = IF v = w THEN 0 ELSE claim[v][k]
    BY <1>5 DEF Exit
  <2>2. attempts' = attempts
    BY <1>5 DEF Exit
  <2> QED
    BY <2>1, <2>2
<1>6. ASSUME NEW w \in Worker, Report(w) PROVE AttemptsFence'
  BY <1>4, <1>6 DEF Report, Ack, Fail
<1> QED
  BY <1>1, <1>2, <1>3, <1>5, <1>6
  DEF Next, Push, RetryDead, ReclaimStale, Handle, Restart, Tick, vars

\* A job is marked succeeded only by an ack that its handler's Ok has earned.
LEMMA EarnedStep ==
  TypeOK /\ SucceededHasRun /\ AckIsEarned /\ [Next]_vars
    => SucceededHasRun' /\ AckIsEarned'
<1> SUFFICES ASSUME TypeOK, SucceededHasRun, AckIsEarned, [Next]_vars
             PROVE  SucceededHasRun' /\ AckIsEarned'
  OBVIOUS
<1> USE DEF TypeOK, SucceededHasRun, AckIsEarned, Unacked, Current, Held
<1>1. ASSUME NEW j \in Job, NEW d \in 0..MaxDelay, Push(j, d)
      PROVE  SucceededHasRun' /\ AckIsEarned'
  BY <1>1 DEF Push, loops, history
<1>2. ASSUME NEW j \in Job, RetryDead(j) PROVE SucceededHasRun' /\ AckIsEarned'
  BY <1>2 DEF RetryDead, Settle, loops
<1>3. ASSUME NEW w \in Worker, ReclaimStale(w) PROVE SucceededHasRun' /\ AckIsEarned'
  <2>1. SucceededHasRun'
    BY <1>3 DEF ReclaimStale, history
  <2>2. AckIsEarned'
    BY <1>3 DEF ReclaimStale, history
  <2> QED
    BY <2>1, <2>2
<1>4. ASSUME NEW w \in Worker, Pop(w) PROVE SucceededHasRun' /\ AckIsEarned'
  <2>1. SucceededHasRun'
    BY <1>4 DEF Pop, MarkRunning, history
  <2>2. ASSUME NEW v \in Worker, pc'[v] = "report"
        PROVE  pc[v] = "report" /\ claim'[v] = claim[v]
    BY <1>4, <2>2 DEF Pop
  <2>3. outcome' = outcome /\ done' = done
    BY <1>4 DEF Pop, history
  <2> QED
    BY <2>1, <2>2, <2>3
<1>5. ASSUME NEW w \in Worker, LosePop(w) PROVE SucceededHasRun' /\ AckIsEarned'
  <2>1. SucceededHasRun'
    BY <1>5 DEF LosePop, MarkRunning
  <2>2. AckIsEarned'
    BY <1>5 DEF LosePop
  <2> QED
    BY <2>1, <2>2
<1>6. ASSUME NEW w \in Worker, NEW j \in Job, NEW o \in Outcome, Handle(w, j, o)
      PROVE  SucceededHasRun' /\ AckIsEarned'
  <2>1. \A k \in Job : done'[k] >= done[k] /\ (o = "ok" => done'[j] > 0)
    BY <1>6 DEF Handle
  <2>2. SucceededHasRun'
    BY <1>6, <2>1 DEF Handle, rows
  <2>3. ASSUME NEW v \in Worker, NEW k \in Job, Unacked(v, k)'
        PROVE  done'[k] > 0
    <3>1. CASE v = w
      <4>1. Current(w, k) /\ Current(w, j) /\ o = "ok"
        BY <1>6, <2>3, <3>1 DEF Handle
      <4> QED
        BY <2>1, <4>1, CurrentUnique
    <3>2. CASE v # w
      BY <1>6, <2>1, <2>3, <3>2 DEF Handle
    <3> QED
      BY <3>1, <3>2
  <2> QED
    BY <2>2, <2>3
<1>7. ASSUME NEW w \in Worker, NEW j \in Job, NextJob(w, j), done' = done
      PROVE  AckIsEarned'
  <2>1. ASSUME NEW v \in Worker, pc'[v] = "report"
        PROVE  pc[v] = "report" /\ claim'[v] = claim[v]
    BY <1>7, <2>1 DEF NextJob
  <2> QED
    BY <1>7, <2>1 DEF NextJob
<1>8. ASSUME NEW w \in Worker, NEW j \in Job, Ack(w, j)
      PROVE  SucceededHasRun' /\ AckIsEarned'
  <2>1. done[j] > 0 /\ done' = done
    BY <1>8 DEF Ack, history
  <2>2. SucceededHasRun'
    BY <1>8, <2>1 DEF Ack, Settle
  <2> QED
    BY <1>7, <1>8, <2>1, <2>2 DEF Ack
<1>9. ASSUME NEW w \in Worker, NEW j \in Job, Fail(w, j)
      PROVE  SucceededHasRun' /\ AckIsEarned'
  <2>1. done' = done
    BY <1>9 DEF Fail, history
  <2>2. SucceededHasRun'
    BY <1>9, <2>1 DEF Fail, Settle, Verdict
  <2> QED
    BY <1>7, <1>9, <2>1, <2>2 DEF Fail
<1>10. ASSUME NEW w \in Worker, Exit(w) \/ Restart(w)
       PROVE  SucceededHasRun' /\ AckIsEarned'
  <2>1. ASSUME NEW v \in Worker, pc'[v] = "report"
        PROVE  pc[v] = "report" /\ claim'[v] = claim[v]
    BY <1>10, <2>1 DEF Exit, Restart
  <2>2. status' = status /\ outcome' = outcome /\ done' = done
    BY <1>10 DEF Exit, Restart, rows, history
  <2> QED
    BY <2>1, <2>2
<1>11. CASE Tick
  BY <1>11 DEF Tick, history
<1>12. CASE UNCHANGED vars
  BY <1>12 DEF vars
<1> QED
  BY <1>1, <1>2, <1>3, <1>4, <1>5, <1>6, <1>8, <1>9, <1>10, <1>11, <1>12
  DEF Next, Report

\* The three together, with the types.
LEMMA StallInvariant == Spec => []StallInv
<1>1. Init => StallInv
  BY DEF Init, StallInv, TypeOK, Status, Phase, Outcome, NotLocked, LeasedIffRunning,
         AttemptsFence, Held, SucceededHasRun, AckIsEarned, Unacked
<1>2. StallInv /\ [Next]_vars => StallInv'
  BY TypeOKStep, LeaseStep, FenceStep, EarnedStep DEF StallInv
<1> QED
  BY <1>1, <1>2, PTL DEF Spec

--------------------------------------------------------------------------------
\* The theorems.

\* backend_db.rs, lines 136 to 179: although ack and fail write by id alone, a row
\* says succeeded only when its handler has returned Ok.
THEOREM SuccessIsEarned == Spec => []SucceededHasRun
<1>1. StallInv => SucceededHasRun
  BY DEF StallInv
<1> QED
  BY <1>1, StallInvariant, PTL

\* backend_db.rs, lines 228 to 244: reclaim_stale finds every row that is running, as
\* no row is running without a lease, and no other row.
THEOREM LeasesAreOfRunningRows == Spec => []LeasedIffRunning
<1>1. StallInv => LeasedIffRunning
  BY DEF StallInv
<1> QED
  BY <1>1, StallInvariant, PTL

\* backend_db.rs, line 113: the count of attempts tells apart any two workers that
\* hold the same job, however slow they are.
THEOREM AttemptsAreAFence == Spec => []AttemptsFence
<1>1. StallInv => AttemptsFence
  BY DEF StallInv
<1> QED
  BY <1>1, StallInvariant, PTL
================================================================================

-------------------------- MODULE CircuitBreakerProofs --------------------------
(***************************************************************************)
(* Theorems about CircuitBreaker, for any number of buckets, probes and    *)
(* requests, any threshold and any cooldown.                               *)
(***************************************************************************)
EXTENDS CircuitBreaker, FiniteSetTheorems, FunctionTheorems, TLAPS

\* The constants, one by one.
LEMMA ConstantsNat ==
  /\ Buckets \in Nat \ {0} /\ Cooldown \in Nat \ {0} /\ ProbeRequests \in Nat \ {0}
  /\ CountMax \in Nat \ {0} /\ MaxInFlight \in Nat \ {0}
BY ConstantsAssumption

\* The slot after the last one is the first.
LEMMA NextSlot ==
  ASSUME NEW s \in Slot
  PROVE  (s + 1) % Buckets = IF s = Buckets - 1 THEN 0 ELSE s + 1
BY ConstantsNat DEF Slot

\* Counting keeps within the bound and touches one counter.
LEMMA CountedType ==
  ASSUME NEW ok \in BOOLEAN, NEW bucket \in [age : 0..Stale, successes : Count, failures : Count]
  PROVE  /\ Counted(bucket, ok) \in [age : 0..Stale, successes : Count, failures : Count]
         /\ Counted(bucket, ok).age = bucket.age
         /\ Counted([successes |-> bucket.successes, failures |-> bucket.failures], ok)
              = [successes |-> Counted(bucket, ok).successes,
                 failures |-> Counted(bucket, ok).failures]
BY ConstantsNat DEF Counted, Plus1, Count

\* So does counting in the window of the history.
LEMMA CountedWindowType ==
  ASSUME NEW ok \in BOOLEAN, NEW counts \in [successes : Count, failures : Count]
  PROVE  Counted(counts, ok) \in [successes : Count, failures : Count]
BY ConstantsNat DEF Counted, Plus1, Count

\* What record makes of the ring: the bucket of the current epoch counts one more,
\* from nothing if it was left over from an earlier round.
LEMMA RecordEffect ==
  ASSUME TypeOK, NEW ok \in BOOLEAN
  PROVE  /\ Record(ok) \in [Slot -> [age : 0..Stale, successes : Count, failures : Count]]
         /\ Record(ok)[slot].age = 0
         /\ \A b \in Slot \ {slot} : Record(ok)[b] = ring[b]
         /\ Record(ok)[slot] =
              Counted(IF ring[slot].age = 0 THEN ring[slot]
                      ELSE [age |-> 0, successes |-> 0, failures |-> 0], ok)
<1> USE ConstantsNat
<1> DEFINE fresh == IF ring[slot].age = 0 THEN ring[slot]
                    ELSE [age |-> 0, successes |-> 0, failures |-> 0]
<1>1. fresh \in [age : 0..Stale, successes : Count, failures : Count] /\ fresh.age = 0
  BY DEF TypeOK, Count, Stale
<1>2. [Empty EXCEPT !.age = 0] = [age |-> 0, successes |-> 0, failures |-> 0]
  BY DEF Empty
<1>3. Record(ok) = [ring EXCEPT ![slot] = Counted(fresh, ok)]
  BY <1>2 DEF Record
<1>4. slot \in Slot /\ ring \in [Slot -> [age : 0..Stale, successes : Count, failures : Count]]
  BY DEF TypeOK
<1> HIDE DEF fresh
<1>5. /\ Record(ok) \in [Slot -> [age : 0..Stale, successes : Count, failures : Count]]
      /\ Record(ok)[slot].age = 0
      /\ \A b \in Slot \ {slot} : Record(ok)[b] = ring[b]
      /\ Record(ok)[slot] = Counted(fresh, ok)
  <2>1. Counted(fresh, ok) \in [age : 0..Stale, successes : Count, failures : Count]
    BY <1>1, CountedType
  <2>2. Counted(fresh, ok).age = 0
    BY <1>1, CountedType
  <2> QED
    BY <2>1, <2>2, <1>3, <1>4
<1> QED
  BY <1>5 DEF fresh

\* Every step keeps the variables in their types.
LEMMA TypeOKStep == TypeOK /\ [Next]_vars => TypeOK'
<1> SUFFICES ASSUME TypeOK, [Next]_vars PROVE TypeOK'
  OBVIOUS
<1> USE ConstantsNat
<1>1. CASE Admit
  BY <1>1 DEF Admit, TypeOK, State
<1>2. CASE Reject
  BY <1>2 DEF Reject, TypeOK, vars
<1>3. CASE RecordSuccess
  <2>1. ring' \in [Slot -> [age : 0..Stale, successes : Count, failures : Count]]
    <3>1. Empty \in [age : 0..Stale, successes : Count, failures : Count]
      BY DEF Empty, Stale, Count
    <3> QED
      BY <1>3, <3>1, RecordEffect DEF RecordSuccess, TypeOK
  <2>2. seen' \in [Slot -> [successes : Count, failures : Count]]
    <3>1. Nothing \in [successes : Count, failures : Count]
      BY DEF Nothing, Count
    <3>2. 0 \in Slot
      BY DEF Slot
    <3>3. Counted(seen[0], TRUE) \in [successes : Count, failures : Count]
      BY <3>2, CountedWindowType DEF TypeOK
    <3> QED
      BY <1>3, <3>1, <3>3 DEF RecordSuccess, TypeOK
  <2>3. state' \in State /\ openFor' \in 0..Cooldown /\ inFlight' \in 0..MaxInFlight
    <3>1. /\ state' = state \/ state' = "Closed"
          /\ openFor' = openFor \/ openFor' = 0
          /\ inFlight > 0 /\ inFlight' = inFlight - 1
      BY <1>3 DEF RecordSuccess
    <3> QED
      BY <3>1 DEF TypeOK, State
  <2>4. probes' \in 0..(ProbeRequests - 1)
    <3>1. \/ probes' = probes \/ probes' = 0
          \/ probes' = probes + 1 /\ ~(probes + 1 >= ProbeRequests)
      BY <1>3 DEF RecordSuccess, Enough
    <3> QED
      BY <3>1 DEF TypeOK
  <2>5. slot' \in Slot /\ admitted' \in 0..(ProbeRequests + 1)
    BY <1>3 DEF RecordSuccess, TypeOK
  <2> QED
    BY <2>1, <2>2, <2>3, <2>4, <2>5 DEF TypeOK
<1>4. CASE RecordFailure
  <2>1. ring' \in [Slot -> [age : 0..Stale, successes : Count, failures : Count]]
    BY <1>4, RecordEffect DEF RecordFailure, TypeOK
  <2>2. seen' \in [Slot -> [successes : Count, failures : Count]]
    <3>1. 0 \in Slot
      BY DEF Slot
    <3>2. Counted(seen[0], FALSE) \in [successes : Count, failures : Count]
      BY <3>1, CountedWindowType DEF TypeOK
    <3> QED
      BY <1>4, <3>2 DEF RecordFailure, TypeOK
  <2>3. state' \in State /\ openFor' \in 0..Cooldown /\ inFlight' \in 0..MaxInFlight
    <3>1. (Open \/ UNCHANGED <<state, openFor>>) /\ inFlight > 0 /\ inFlight' = inFlight - 1
      BY <1>4 DEF RecordFailure
    <3> QED
      BY <3>1 DEF Open, TypeOK, State
  <2>4. probes' \in 0..(ProbeRequests - 1)
    <3>1. probes' = probes \/ probes' = 0
      BY <1>4 DEF RecordFailure
    <3> QED
      BY <3>1 DEF TypeOK
  <2>5. slot' \in Slot /\ admitted' \in 0..(ProbeRequests + 1)
    BY <1>4 DEF RecordFailure, TypeOK
  <2> QED
    BY <2>1, <2>2, <2>3, <2>4, <2>5 DEF TypeOK
<1>5. CASE Cancel
  BY <1>5 DEF Cancel, breaker, TypeOK
<1>6. CASE Tick
  <2>1. slot' \in Slot
    BY <1>6, NextSlot DEF Tick, TypeOK, Slot
  <2>2. ring' \in [Slot -> [age : 0..Stale, successes : Count, failures : Count]]
    <3> DEFINE older(b) == [ring[b] EXCEPT !.age = IF @ < Stale THEN @ + 1 ELSE @]
    <3>1. ASSUME NEW b \in Slot
          PROVE  older(b) \in [age : 0..Stale, successes : Count, failures : Count]
      <4>1. ring[b] \in [age : 0..Stale, successes : Count, failures : Count]
        BY DEF TypeOK
      <4> QED
        BY <4>1 DEF Stale
    <3>2. ring' = [b \in Slot |-> older(b)]
      BY <1>6 DEF Tick
    <3> QED
      BY <3>1, <3>2
  <2>3. seen' \in [Slot -> [successes : Count, failures : Count]]
    <3>1. Nothing \in [successes : Count, failures : Count]
      BY DEF Nothing, Count
    <3>2. \A a \in Slot : a # 0 => a - 1 \in Slot
      BY DEF Slot
    <3>3. seen' = [a \in Slot |-> IF a = 0 THEN Nothing ELSE seen[a - 1]]
      BY <1>6 DEF Tick
    <3> QED
      BY <3>1, <3>2, <3>3 DEF TypeOK
  <2>4. openFor' \in 0..Cooldown
    BY <1>6 DEF Tick, TypeOK
  <2> QED
    BY <1>6, <2>1, <2>2, <2>3, <2>4 DEF Tick, TypeOK
<1>7. CASE UNCHANGED vars
  BY <1>7 DEF vars, TypeOK
<1> QED
  BY <1>1, <1>2, <1>3, <1>4, <1>5, <1>6, <1>7 DEF Next

--------------------------------------------------------------------------------
\* Where the buckets are.

\* Counting back round the ring stays in it.
LEMMA SlotBefore ==
  ASSUME NEW s \in Slot, NEW a \in Slot
  PROVE  (IF a <= s THEN s - a ELSE s + Buckets - a) \in Slot
BY ConstantsNat DEF Slot

\* The current bucket is the one of age 0, and no other age has it.
LEMMA BucketOfNow ==
  ASSUME TypeOK
  PROVE  /\ BucketOf(0) = slot
         /\ \A a \in Slot : BucketOf(a) \in Slot
         /\ \A a \in Slot \ {0} : BucketOf(a) # slot
BY ConstantsNat DEF TypeOK, BucketOf, Slot

\* A bucket width later every bucket is one older, and the oldest is the current one.
LEMMA BucketOfTick ==
  ASSUME TypeOK, Tick
  PROVE  /\ BucketOf(0)' = BucketOf(Buckets - 1)
         /\ \A a \in Slot \ {0} : BucketOf(a)' = BucketOf(a - 1)
<1>1. slot' = IF slot = Buckets - 1 THEN 0 ELSE slot + 1
  BY NextSlot DEF TypeOK, Tick
<1> QED
  BY <1>1, ConstantsNat DEF TypeOK, BucketOf, Slot

\* Recording a result keeps ring and window in step.
LEMMA RecordKeepsWindow ==
  ASSUME TypeOK, RingIsWindow, NEW ok \in BOOLEAN,
         slot' = slot, ring' = Record(ok), seen' = [seen EXCEPT ![0] = Counted(@, ok)]
  PROVE  RingIsWindow'
<1> USE ConstantsNat
<1>1. 0 \in Slot /\ Buckets # 0 /\ Stale = Buckets
  BY DEF Slot, Stale
<1>2. \A a \in Slot : BucketOf(a)' = BucketOf(a)
  BY DEF BucketOf
<1>3. ASSUME NEW a \in Slot \ {0}
      PROVE  seen'[a] = seen[a] /\ ring'[BucketOf(a)] = ring[BucketOf(a)]
  BY <1>3, BucketOfNow, RecordEffect DEF TypeOK
<1>4. seen'[0] = [successes |-> ring'[slot].successes, failures |-> ring'[slot].failures]
  <2>1. seen[0] = [successes |-> (IF ring[slot].age = 0 THEN ring[slot].successes ELSE 0),
                   failures |-> (IF ring[slot].age = 0 THEN ring[slot].failures ELSE 0)]
    BY <1>1, BucketOfNow DEF RingIsWindow, Nothing
  <2> DEFINE fresh == IF ring[slot].age = 0 THEN ring[slot]
                      ELSE [age |-> 0, successes |-> 0, failures |-> 0]
  <2>2. fresh \in [age : 0..Stale, successes : Count, failures : Count]
    BY DEF TypeOK, Stale, Count
  <2>3. seen[0] = [successes |-> fresh.successes, failures |-> fresh.failures]
    BY <2>1
  <2>4. ring'[slot] = Counted(fresh, ok)
    BY RecordEffect
  <2>5. seen'[0] = Counted(seen[0], ok)
    BY <1>1 DEF TypeOK
  <2> HIDE DEF fresh
  <2> QED
    BY <2>2, <2>3, <2>4, <2>5, CountedType
<1>5. ring'[slot].age = 0
  BY RecordEffect
<1> QED
  BY <1>1, <1>2, <1>3, <1>4, <1>5, BucketOfNow DEF RingIsWindow

\* An empty ring agrees with an empty window.
LEMMA EmptyKeepsWindow ==
  ASSUME TypeOK, slot' \in Slot, ring' = [b \in Slot |-> Empty],
         seen' = [a \in Slot |-> Nothing]
  PROVE  RingIsWindow'
<1> SUFFICES ASSUME NEW a \in Slot
             PROVE  ring'[BucketOf(a)'].age = Stale /\ seen'[a] = Nothing
  BY DEF RingIsWindow
<1>1. BucketOf(a)' \in Slot
  BY SlotBefore DEF BucketOf
<1> QED
  BY <1>1 DEF Empty

\* So does the passing of time.
LEMMA TickKeepsWindow == TypeOK /\ RingIsWindow /\ Tick => RingIsWindow'
<1> SUFFICES ASSUME TypeOK, RingIsWindow, Tick, NEW a \in Slot
             PROVE  \/ /\ ring'[BucketOf(a)'].age = a
                       /\ seen'[a] = [successes |-> ring'[BucketOf(a)'].successes,
                                      failures |-> ring'[BucketOf(a)'].failures]
                    \/ ring'[BucketOf(a)'].age = Stale /\ seen'[a] = Nothing
  BY DEF RingIsWindow
<1> USE ConstantsNat
<1>1. \A b \in Slot : /\ ring'[b].age = IF ring[b].age < Stale THEN ring[b].age + 1 ELSE ring[b].age
                      /\ ring'[b].successes = ring[b].successes
                      /\ ring'[b].failures = ring[b].failures
                      /\ ring[b].age \in 0..Stale
  BY DEF Tick, TypeOK
<1>2. seen'[a] = IF a = 0 THEN Nothing ELSE seen[a - 1]
  BY DEF Tick
<1>3. CASE a = 0
  <2>1. Buckets - 1 \in Slot /\ BucketOf(a)' = BucketOf(Buckets - 1)
    BY <1>3, BucketOfTick DEF Slot
  <2>2. ring[BucketOf(Buckets - 1)].age = Buckets - 1 \/ ring[BucketOf(Buckets - 1)].age = Stale
    BY <2>1 DEF RingIsWindow
  <2>3. BucketOf(Buckets - 1) \in Slot
    BY <2>1, BucketOfNow
  <2>4. ring'[BucketOf(Buckets - 1)].age = Stale
    BY <1>1, <2>2, <2>3 DEF Stale
  <2> QED
    BY <1>2, <1>3, <2>1, <2>4
<1>4. CASE a # 0
  <2>1. a - 1 \in Slot /\ a - 1 < Stale /\ BucketOf(a)' = BucketOf(a - 1)
    BY <1>4, BucketOfTick DEF Slot, Stale
  <2>2. BucketOf(a - 1) \in Slot
    BY <2>1, BucketOfNow
  <2>3. \/ /\ ring[BucketOf(a - 1)].age = a - 1
           /\ seen[a - 1] = [successes |-> ring[BucketOf(a - 1)].successes,
                             failures |-> ring[BucketOf(a - 1)].failures]
        \/ ring[BucketOf(a - 1)].age = Stale /\ seen[a - 1] = Nothing
    BY <2>1 DEF RingIsWindow
  <2> QED
    BY <1>1, <1>2, <1>4, <2>1, <2>2, <2>3 DEF Slot
<1> QED
  BY <1>3, <1>4

\* Every step keeps ring and window in step.
LEMMA RingIsWindowStep == TypeOK /\ RingIsWindow /\ [Next]_vars => RingIsWindow'
<1> SUFFICES ASSUME TypeOK, RingIsWindow, [Next]_vars PROVE RingIsWindow'
  OBVIOUS
<1>1. CASE UNCHANGED <<slot, ring, seen>>
  BY <1>1 DEF RingIsWindow, BucketOf
<1>2. CASE RecordSuccess
  <2>1. slot' = slot
    BY <1>2 DEF RecordSuccess
  <2>2. \/ ring' = Record(TRUE) /\ seen' = [seen EXCEPT ![0] = Counted(@, TRUE)]
        \/ ring' = [b \in Slot |-> Empty] /\ seen' = [a \in Slot |-> Nothing]
        \/ UNCHANGED <<ring, seen>>
    BY <1>2 DEF RecordSuccess
  <2> QED
    BY <1>1, <2>1, <2>2, RecordKeepsWindow, EmptyKeepsWindow DEF TypeOK
<1>3. CASE RecordFailure
  <2>1. slot' = slot
    BY <1>3 DEF RecordFailure
  <2>2. \/ ring' = Record(FALSE) /\ seen' = [seen EXCEPT ![0] = Counted(@, FALSE)]
        \/ UNCHANGED <<ring, seen>>
    BY <1>3 DEF RecordFailure
  <2> QED
    BY <1>1, <2>1, <2>2, RecordKeepsWindow
<1>4. CASE Tick
  BY <1>4, TickKeepsWindow
<1> QED
  BY <1>1, <1>2, <1>3, <1>4 DEF Next, Admit, Reject, Cancel, breaker, vars

--------------------------------------------------------------------------------
\* The statistics do not depend on where in the ring a bucket is.

\* Counting back round the ring twice gets back to where it began.
LEMMA BucketOfTwice ==
  ASSUME TypeOK, NEW a \in Slot
  PROVE  BucketOf(a) \in Slot /\ BucketOf(BucketOf(a)) = a
BY ConstantsNat DEF TypeOK, BucketOf, Slot

\* A sum over the slots is the same in the order of the ages.
LEMMA TotalByAge ==
  ASSUME TypeOK, NEW f \in [Slot -> Count], NEW g \in [Slot -> Count],
         \A a \in Slot : f[BucketOf(a)] = g[a]
  PROVE  Total(f) = Total(g)
<1> DEFINE A == {x \in Slot \X (1..CountMax) : x[2] <= f[x[1]]}
           B == {x \in Slot \X (1..CountMax) : x[2] <= g[x[1]]}
           h == [x \in A |-> <<BucketOf(x[1]), x[2]>>]
<1>1. IsFiniteSet(A)
  <2>1. IsFiniteSet(Slot) /\ IsFiniteSet(1..CountMax)
    BY ConstantsNat, FS_Interval DEF Slot
  <2>2. IsFiniteSet(Slot \X (1..CountMax))
    BY <2>1, FS_Product
  <2> QED
    BY <2>2, FS_Subset
<1>2. \A s \in Slot : BucketOf(s) \in Slot /\ BucketOf(BucketOf(s)) = s
  BY BucketOfTwice
<1>3. \A s \in Slot : g[BucketOf(s)] = f[s]
  BY <1>2
<1>4. h \in Bijection(A, B)
  <2>1. h \in [A -> B]
    BY <1>2, <1>3
  <2>2. ASSUME NEW x \in A, NEW y \in A, h[x] = h[y]
        PROVE  x = y
    <3>1. BucketOf(x[1]) = BucketOf(y[1]) /\ x[2] = y[2] /\ x[1] \in Slot /\ y[1] \in Slot
      BY <2>2
    <3>2. x[1] = y[1]
      BY <1>2, <3>1
    <3> QED
      BY <3>1, <3>2
  <2>3. ASSUME NEW y \in B PROVE \E x \in A : h[x] = y
    <3>1. y[1] \in Slot /\ y[2] \in 1..CountMax /\ y[2] <= g[y[1]] /\ y = <<y[1], y[2]>>
      OBVIOUS
    <3>2. <<BucketOf(y[1]), y[2]>> \in A
      BY <1>2, <3>1
    <3>3. h[<<BucketOf(y[1]), y[2]>>] = y
      BY <1>2, <3>1, <3>2
    <3> QED
      BY <3>2, <3>3
  <2> HIDE DEF A, B, h
  <2> QED
    BY <2>1, <2>2, <2>3, Fun_IsBij
<1>5. Cardinality(B) = Cardinality(A)
  <2>1. ExistsBijection(A, B)
    BY <1>4 DEF ExistsBijection
  <2> HIDE DEF A, B, h
  <2> QED
    BY <1>1, <2>1, FS_Bijection
<1> QED
  BY <1>5 DEF Total

\* The ring trips exactly when the window of the history does.
RingDecides ==
  LET failures == Total([a \in Slot |-> seen[a].failures])
      successes == Total([a \in Slot |-> seen[a].successes])
  IN  Trips(ring) = TooMany(failures, failures + successes)

\* Where the ring is the window, both give the same verdict.
LEMMA WindowDecides == TypeOK /\ RingIsWindow => RingDecides
<1> SUFFICES ASSUME TypeOK, RingIsWindow PROVE RingDecides
  OBVIOUS
<1> DEFINE failed == [b \in Slot |-> IF ring[b].age < Buckets THEN ring[b].failures ELSE 0]
           succeeded == [b \in Slot |-> IF ring[b].age < Buckets THEN ring[b].successes ELSE 0]
           failedAt == [a \in Slot |-> seen[a].failures]
           succeededAt == [a \in Slot |-> seen[a].successes]
<1>1. /\ failed \in [Slot -> Count] /\ succeeded \in [Slot -> Count]
      /\ failedAt \in [Slot -> Count] /\ succeededAt \in [Slot -> Count]
  BY ConstantsNat DEF TypeOK, Count
<1>2. ASSUME NEW a \in Slot
      PROVE  failed[BucketOf(a)] = failedAt[a] /\ succeeded[BucketOf(a)] = succeededAt[a]
  <2>1. BucketOf(a) \in Slot /\ a < Buckets
    BY ConstantsNat, BucketOfTwice DEF Slot
  <2>2. \/ /\ ring[BucketOf(a)].age = a
           /\ seen[a] = [successes |-> ring[BucketOf(a)].successes,
                         failures |-> ring[BucketOf(a)].failures]
        \/ ring[BucketOf(a)].age = Buckets /\ seen[a] = [successes |-> 0, failures |-> 0]
    BY DEF RingIsWindow, Nothing, Stale
  <2> QED
    BY <2>1, <2>2, ConstantsNat
<1>3. Trips(ring) = TooMany(Total(failed), Total(failed) + Total(succeeded))
  BY DEF Trips
<1> HIDE DEF failed, succeeded
<1>4. Total(failed) = Total(failedAt)
  BY <1>1, <1>2, TotalByAge
<1>5. Total(succeeded) = Total(succeededAt)
  BY <1>1, <1>2, TotalByAge
<1> QED
  BY <1>3, <1>4, <1>5 DEF RingDecides

--------------------------------------------------------------------------------
\* The theorems.

\* The variables keep their types, whatever the constants are.
THEOREM TypeCorrect == Spec => []TypeOK
<1>1. Init => TypeOK
  BY ConstantsNat DEF Init, TypeOK, State, Slot, Count, Empty, Nothing, Stale
<1> QED
  BY <1>1, TypeOKStep, PTL DEF Spec

\* Lines 120 to 148: the ring of buckets is the window of the last Buckets bucket
\* widths, with nothing lost and nothing counted again after a full turn.
THEOREM RingIsTheWindow == Spec => []RingIsWindow
<1>1. Init => RingIsWindow
  BY ConstantsNat DEF Init, RingIsWindow, BucketOf, Slot, Empty, Nothing
<1>2. TypeOK /\ RingIsWindow /\ [Next]_vars => RingIsWindow'
  BY RingIsWindowStep
<1> QED
  BY <1>1, <1>2, TypeCorrect, PTL DEF Spec

\* Lines 35 to 41 and 246 to 262: whatever order the results come in and however often the
\* ring has turned, a failure opens a closed breaker exactly when the results of the
\* statistics window are at the threshold.
THEOREM OpensOnRecentRate == Spec => TripsOnRecentRate
<1> DEFINE Decides ==
      state = "Closed" /\ RecordFailure =>
        LET failures == Total([a \in Slot |-> seen'[a].failures])
            successes == Total([a \in Slot |-> seen'[a].successes])
        IN  (state' = "Open") = TooMany(failures, failures + successes)
<1>1. TypeOK /\ RingIsWindow /\ [Next]_vars /\ RingDecides' => [Decides]_vars
  <2> SUFFICES ASSUME RingDecides', state = "Closed", RecordFailure
               PROVE  LET failures == Total([a \in Slot |-> seen'[a].failures])
                          successes == Total([a \in Slot |-> seen'[a].successes])
                      IN  (state' = "Open") = TooMany(failures, failures + successes)
    OBVIOUS
  <2>1. IF Trips(ring') THEN Open ELSE state' = state
    BY DEF RecordFailure
  <2>2. (state' = "Open") = Trips(ring')
    BY <2>1 DEF Open, Trips, TooMany
  <2> QED
    BY <2>2 DEF RingDecides
<1>2. TypeOK /\ RingIsWindow => RingDecides
  BY WindowDecides
<1> QED
  BY <1>1, <1>2, TypeCorrect, RingIsTheWindow, PTL DEF Spec, TripsOnRecentRate

\* Line 218: only a running cooldown turns a request away, never the count of probes.
THEOREM OnlyCoolingRejects == Spec => []RejectsOnlyWhileCooling
<1>1. TypeOK => RejectsOnlyWhileCooling
  BY ConstantsNat DEF TypeOK, RejectsOnlyWhileCooling, Allowed, State
<1> QED
  BY <1>1, TypeCorrect, PTL
================================================================================

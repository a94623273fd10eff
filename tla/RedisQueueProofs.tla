---------------------------- MODULE RedisQueueProofs ----------------------------
(***************************************************************************)
(* Theorems about RedisQueue, for any number of producers, workers,        *)
(* schedulers and jobs, any batch size and any number of lost processes:   *)
(* the type invariant, that no job vanishes between two commands, and that *)
(* none is in two places unless the answer of zrem or lrem was ignored.    *)
(***************************************************************************)
EXTENDS RedisQueue, SequenceTheorems, TLAPS

\* What is in a sequence after an element was put at its end.
LEMMA AppendElements ==
  ASSUME NEW S, NEW s \in Seq(S), NEW e \in S
  PROVE  /\ Append(s, e) \in Seq(S)
         /\ Append(s, e) # <<>>
         /\ Len(Append(s, e)) = Len(s) + 1
         /\ ToSet(Append(s, e)) = ToSet(s) \cup {e}
         /\ s # <<>> => Head(Append(s, e)) = Head(s)
<1>1. /\ Append(s, e) \in Seq(S) /\ Append(s, e) # <<>> /\ Len(Append(s, e)) = Len(s) + 1
      /\ \A i \in 1..Len(s) : Append(s, e)[i] = s[i]
      /\ Append(s, e)[Len(s) + 1] = e
  BY AppendProperties
<1>2. /\ DOMAIN s = 1..Len(s) /\ DOMAIN Append(s, e) = 1..(Len(s) + 1)
      /\ Len(s) \in Nat
  BY <1>1
<1>3. ToSet(Append(s, e)) \subseteq ToSet(s) \cup {e}
  BY <1>1, <1>2 DEF ToSet
<1>4. ToSet(s) \cup {e} \subseteq ToSet(Append(s, e))
  <2>1. ASSUME NEW i \in 1..Len(s) PROVE i \in DOMAIN Append(s, e) /\ s[i] = Append(s, e)[i]
    BY <1>1, <1>2
  <2>2. Len(s) + 1 \in DOMAIN Append(s, e)
    BY <1>2
  <2> QED
    BY <1>1, <1>2, <2>1, <2>2 DEF ToSet
<1>5. s # <<>> => Head(Append(s, e)) = Head(s)
  BY <1>1
<1> QED
  BY <1>1, <1>3, <1>4, <1>5

\* What is in a sequence before its head was taken off.
LEMMA TailElements ==
  ASSUME NEW S, NEW s \in Seq(S), s # <<>>
  PROVE  /\ Tail(s) \in Seq(S)
         /\ Head(s) \in S
         /\ Len(Tail(s)) = Len(s) - 1
         /\ ToSet(s) = ToSet(Tail(s)) \cup {Head(s)}
<1>1. /\ Head(s) \in S /\ Tail(s) \in Seq(S) /\ Len(Tail(s)) = Len(s) - 1
      /\ \A i \in 1..Len(Tail(s)) : Tail(s)[i] = s[i + 1]
  BY HeadTailProperties
<1>2. /\ DOMAIN s = 1..Len(s) /\ DOMAIN Tail(s) = 1..(Len(s) - 1)
      /\ Len(s) \in Nat /\ Len(s) > 0 /\ Head(s) = s[1]
  BY <1>1, EmptySeq
<1>3. ToSet(s) \subseteq ToSet(Tail(s)) \cup {Head(s)}
  <2>1. ASSUME NEW i \in DOMAIN s, i # 1 PROVE i - 1 \in DOMAIN Tail(s) /\ s[i] = Tail(s)[i - 1]
    BY <1>1, <1>2, <2>1
  <2> QED
    BY <1>2, <2>1 DEF ToSet
<1>4. ToSet(Tail(s)) \cup {Head(s)} \subseteq ToSet(s)
  <2>1. ASSUME NEW i \in DOMAIN Tail(s) PROVE i + 1 \in DOMAIN s /\ Tail(s)[i] = s[i + 1]
    BY <1>1, <1>2
  <2>2. 1 \in DOMAIN s
    BY <1>2
  <2> QED
    BY <1>2, <2>1, <2>2 DEF ToSet
<1> QED
  BY <1>1, <1>3, <1>4

\* The inductive invariant holds at the start.
LEMMA InitIInv == Init => IInv
<1> SUFFICES ASSUME Init PROVE IInv
  OBVIOUS
<1>1. TypeOK
  BY ConstantsAssumption, EmptySeq DEF Init, TypeOK, JobId
<1>2. HandInv /\ PushInv /\ ReplayInv /\ NothingVanishes
  BY DEF Init, HandInv, PushInv, ReplayInv, NothingVanishes, At
<1> QED
  BY <1>1, <1>2 DEF IInv

\* What the proofs use of the constants.
LEMMA JobIds ==
  /\ MaxJobs \in Nat /\ MaxAttempts \in Nat /\ BatchSize \in Nat \ {0}
  /\ 0 \in 0..BatchSize
  /\ JobId \subseteq Nat \ {0} /\ JobId \subseteq 0..MaxJobs
  /\ \A n \in 0..MaxJobs : n # 0 => n \in JobId
BY ConstantsAssumption DEF JobId

\* The part of TypeOK about the workers.
WorkerOK ==
  /\ worker \in [Worker -> [at : {"pop", "work", "handle", "bury", "set", "delay", "gone"},
                            hand : Seq(Popped), looked : 0..BatchSize]]
  /\ \A w \in Worker : Len(worker[w].hand) <= BatchSize

\* And the part about the producers.
ProducerOK == push \in [Producer -> [at : {"look", "store", "note", "enqueue", "done"},
                                     key : Key, id : 0..MaxJobs]]

\* Going on to the next job keeps the type of a worker, and the job in hand is a job.
LEMMA NextJobType ==
  ASSUME WorkerOK, NEW w \in Worker, worker[w].hand # <<>>
  PROVE  InHand(w) \in Popped /\ InHand(w).id \in JobId /\ (NextJob(w) => WorkerOK')
<1>1. /\ Tail(worker[w].hand) \in Seq(Popped) /\ Head(worker[w].hand) \in Popped
      /\ Len(Tail(worker[w].hand)) = Len(worker[w].hand) - 1
  BY TailElements DEF WorkerOK
<1>2. Len(worker[w].hand) \in Nat
  BY DEF WorkerOK
<1>3. ASSUME NextJob(w) PROVE WorkerOK'
  <2> DEFINE new == [at |-> IF Tail(worker[w].hand) = <<>> THEN "pop" ELSE "work",
                     hand |-> Tail(worker[w].hand), looked |-> 0]
  <2>1. /\ new \in [at : {"pop", "work", "handle", "bury", "set", "delay", "gone"},
                    hand : Seq(Popped), looked : 0..BatchSize]
        /\ new.hand = Tail(worker[w].hand)
    BY <1>1, JobIds
  <2>2. worker' = [worker EXCEPT ![w] = new]
    BY <1>3 DEF NextJob
  <2>3. Len(new.hand) <= BatchSize
    BY <1>1, <1>2, <2>1, JobIds DEF WorkerOK
  <2> QED
    BY <2>1, <2>2, <2>3 DEF WorkerOK
<1> QED
  BY <1>1, <1>3 DEF InHand, Popped

\* So does going to another place with the same jobs, or ending.
LEMMA GoesType ==
  ASSUME WorkerOK, NEW w \in Worker
  PROVE  /\ \A at \in {"pop", "work", "handle", "bury", "set", "delay", "gone"} :
              Goes(w, at) => WorkerOK'
         /\ Handle(w) \/ Empty(w) \/ Gone(w) => WorkerOK'
<1>1. ASSUME NEW at \in {"pop", "work", "handle", "bury", "set", "delay", "gone"}, Goes(w, at)
      PROVE  WorkerOK'
  BY <1>1 DEF WorkerOK, Goes
<1>2. ASSUME Gone(w) PROVE WorkerOK'
  BY <1>2, EmptySeq, JobIds DEF WorkerOK, Gone
<1>3. ASSUME Handle(w) PROVE WorkerOK'
  BY <1>3, JobIds DEF WorkerOK, Handle
<1>4. ASSUME Empty(w) PROVE WorkerOK'
  BY <1>4, JobIds DEF WorkerOK, Empty
<1> QED
  BY <1>1, <1>2, <1>3, <1>4

\* So does taking another batch in hand.
LEMMA HandType ==
  ASSUME WorkerOK, NEW w \in Worker, NEW h \in Seq(Popped), Len(h) <= BatchSize,
         NEW n \in 0..BatchSize, worker' = [worker EXCEPT ![w].hand = h, ![w].looked = n]
  PROVE  WorkerOK'
<1>1. worker[w] \in [at : {"pop", "work", "handle", "bury", "set", "delay", "gone"},
                    hand : Seq(Popped), looked : 0..BatchSize]
  BY DEF WorkerOK
<1> DEFINE new == [worker[w] EXCEPT !.hand = h, !.looked = n]
<1>2. /\ new \in [at : {"pop", "work", "handle", "bury", "set", "delay", "gone"},
                    hand : Seq(Popped), looked : 0..BatchSize]
      /\ new.hand = h
  BY <1>1
<1>3. worker' = [worker EXCEPT ![w] = new]
  OBVIOUS
<1> HIDE DEF new
<1> QED
  BY <1>2, <1>3 DEF WorkerOK

\* What pop makes of the id it took from the list is a job.
LEMMA PoppedJob ==
  ASSUME ready \in Seq(JobId), attempts \in [JobId -> 0..MaxAttempts], ready # <<>>
  PROVE  /\ Head(ready) \in JobId
         /\ [id |-> Head(ready), attempts |-> attempts[Head(ready)] + 1] \in Popped
<1>1. Head(ready) \in JobId
  BY TailElements
<1>2. attempts[Head(ready)] \in 0..MaxAttempts
  BY <1>1
<1>3. attempts[Head(ready)] + 1 \in 1..(MaxAttempts + 1)
  BY <1>2, JobIds
<1> QED
  BY <1>1, <1>3 DEF Popped

\* A batch never has more jobs than pop has looked at.
LEMMA RoomLeft ==
  ASSUME WorkerOK, HandInv, NEW w \in Worker, At(w, "pop"), worker[w].looked < BatchSize
  PROVE  /\ worker[w].hand \in Seq(Popped) /\ Len(worker[w].hand) \in Nat
         /\ worker[w].looked \in 0..BatchSize /\ worker[w].looked + 1 \in 0..BatchSize
         /\ Len(worker[w].hand) <= worker[w].looked
         /\ Len(worker[w].hand) + 1 <= BatchSize
<1>1. worker[w].hand \in Seq(Popped) /\ worker[w].looked \in 0..BatchSize
  BY DEF WorkerOK
<1>2. Len(worker[w].hand) \in Nat /\ worker[w].looked + 1 \in 0..BatchSize
  BY <1>1, JobIds
<1>3. Len(worker[w].hand) <= worker[w].looked
  BY DEF HandInv
<1> QED
  BY <1>1, <1>2, <1>3, JobIds

\* Every step keeps the variables in their types.
LEMMA TypeOKStep == TypeOK /\ HandInv /\ PushInv /\ ReplayInv /\ [Next]_vars => TypeOK'
<1> SUFFICES ASSUME TypeOK, HandInv, PushInv, ReplayInv, [Next]_vars PROVE TypeOK'
  OBVIOUS
<1> DEFINE Rest ==
      /\ counter \in 0..MaxJobs
      /\ stored \subseteq JobId
      /\ attempts \in [JobId -> 0..MaxAttempts]
      /\ ready \in Seq(JobId)
      /\ due \subseteq delayed /\ delayed \subseteq JobId
      /\ dead \in [JobId -> Nat]
      /\ dedupe \in [Key -> 0..MaxJobs]
      /\ stopping \subseteq Worker
      /\ found \in [Scheduler -> SUBSET JobId]
      /\ moving \in [Scheduler -> 0..MaxJobs]
      /\ replay \in [Operator -> [id : 0..MaxJobs, at : {"idle", "remove", "push", "copy"}]]
      /\ lost \subseteq JobId /\ ignored \subseteq JobId
      /\ faults \in 0..MaxFaults /\ replays \in 0..MaxReplays
<1> USE DEF jobs, lists, workers, schedulers, replaying, history, others
<1>a. (TypeOK <=> WorkerOK /\ ProducerOK /\ Rest) /\ (TypeOK' <=> WorkerOK' /\ ProducerOK' /\ Rest')
  BY DEF TypeOK, WorkerOK, ProducerOK
<1>b. WorkerOK /\ ProducerOK /\ Rest
  BY <1>a
<1>c. worker' = worker => WorkerOK'
  BY <1>b DEF WorkerOK
<1>d. /\ \A p \in Producer, at \in {"look", "store", "note", "enqueue", "done"} :
             PushGoes(p, at) => ProducerOK'
      /\ push' = push => ProducerOK'
  <2>1. ASSUME NEW p \in Producer, NEW at \in {"look", "store", "note", "enqueue", "done"},
               PushGoes(p, at)
        PROVE  ProducerOK'
    BY <1>b, <2>1 DEF PushGoes, ProducerOK
  <2> QED
    BY <1>b, <2>1 DEF ProducerOK
<1>0. \A w \in Worker : IdsOf(w) \subseteq JobId
  <2>1. ASSUME NEW w \in Worker
       PROVE \A i \in DOMAIN worker[w].hand : worker[w].hand[i] \in Popped
    <3>1. worker[w].hand \in Seq(Popped)
      BY <1>b DEF WorkerOK
    <3> QED
      BY <3>1
  <2> QED
    BY <2>1 DEF IdsOf, ToSet, Popped
<1>1. ASSUME NEW p \in Producer, Look(p) PROVE WorkerOK' /\ ProducerOK' /\ Rest'
  BY <1>1, <1>b, <1>c, <1>d DEF Look
<1>2. ASSUME NEW p \in Producer, Store(p) PROVE WorkerOK' /\ ProducerOK' /\ Rest'
  <2>1. counter + 1 \in JobId
    BY <1>2, <1>b, JobIds DEF Store, JobId
  <2>2. ProducerOK'
    <3> DEFINE at == IF push[p].key = NoKey THEN "enqueue" ELSE "note"
    <3>1. /\ at \in {"look", "store", "note", "enqueue", "done"}
          /\ counter' \in 0..MaxJobs
      BY <1>2, <2>1, JobIds DEF Store
    <3>2. push' = [push EXCEPT ![p].id = counter', ![p].at = at]
      BY <1>2 DEF Store
    <3> HIDE DEF at
    <3>3. PICK n \in 0..MaxJobs : n = counter'
      BY <3>1
    <3>4. push' = [push EXCEPT ![p] = [push[p] EXCEPT !.id = n, !.at = at]]
      BY <3>2, <3>3
    <3>5. [push[p] EXCEPT !.id = n, !.at = at]
            \in [at : {"look", "store", "note", "enqueue", "done"}, key : Key, id : 0..MaxJobs]
      <4>1. push[p] \in [at : {"look", "store", "note", "enqueue", "done"}, key : Key,
                          id : 0..MaxJobs]
        BY <1>b DEF ProducerOK
      <4>2. at \in {"look", "store", "note", "enqueue", "done"}
        BY <3>1
      <4> QED
        BY <4>1, <4>2
    <3> QED
      BY <1>b, <3>4, <3>5 DEF ProducerOK
  <2> QED
    BY <1>2, <1>b, <1>c, <2>1, <2>2, JobIds DEF Store
<1>3. ASSUME NEW p \in Producer, Note(p) PROVE WorkerOK' /\ ProducerOK' /\ Rest'
  <2>1. push[p].id \in JobId
    BY <1>3 DEF Note, PushInv
  <2> QED
    BY <1>3, <1>b, <1>c, <1>d, <2>1, JobIds DEF Note
<1>4. ASSUME NEW p \in Producer, Enqueue(p) PROVE WorkerOK' /\ ProducerOK' /\ Rest'
  <2>1. push[p].id \in JobId
    BY <1>4 DEF Enqueue, PushInv
  <2>2. Append(ready, push[p].id) \in Seq(JobId)
    BY <1>b, <2>1, AppendElements
  <2> QED
    BY <1>4, <1>b, <1>c, <1>d, <2>1, <2>2, JobIds DEF Enqueue
<1>5. ASSUME NEW p \in Producer, PushErr(p) PROVE WorkerOK' /\ ProducerOK' /\ Rest'
  <2>1. push[p].id \in JobId
    BY <1>5 DEF PushErr, PushInv
  <2>2. ProducerOK'
    BY <1>5, <1>d DEF PushErr
  <2> QED
    BY <1>5, <1>b, <1>c, <2>1, <2>2, ConstantsAssumption DEF PushErr, FaultLoses
<1>6. ASSUME NEW w \in Worker, Pop(w) PROVE WorkerOK' /\ ProducerOK' /\ Rest'
  <2> DEFINE job == [id |-> Head(ready), attempts |-> attempts[Head(ready)] + 1]
             h == IF Head(ready) \in stored THEN Append(worker[w].hand, job) ELSE worker[w].hand
             n == worker[w].looked + 1
  <2>1. ready # <<>> /\ Tail(ready) \in Seq(JobId)
    BY <1>6, <1>b, TailElements DEF Pop
  <2>2. job \in Popped
    BY <1>b, <2>1, PoppedJob
  <2>3. /\ worker[w].hand \in Seq(Popped) /\ Len(worker[w].hand) \in Nat /\ n \in 0..BatchSize
        /\ Len(worker[w].hand) + 1 <= BatchSize
    BY <1>6, <1>b, RoomLeft DEF Pop
  <2>4. /\ Append(worker[w].hand, job) \in Seq(Popped)
        /\ Len(Append(worker[w].hand, job)) = Len(worker[w].hand) + 1
    BY <2>2, <2>3, AppendElements
  <2>5. worker' = [worker EXCEPT ![w].hand = h, ![w].looked = n]
    BY <1>6 DEF Pop
  <2>6. h \in Seq(Popped) /\ Len(h) <= BatchSize
    BY <2>3, <2>4, JobIds
  <2>7. WorkerOK'
    <3> HIDE DEF h, n
    <3> QED
      BY <1>b, <2>3, <2>5, <2>6, HandType
  <2> QED
    BY <1>6, <1>b, <1>d, <2>1, <2>7 DEF Pop
<1>26. ASSUME NEW w \in Worker, Empty(w) PROVE WorkerOK' /\ ProducerOK' /\ Rest'
  <2>1. WorkerOK'
    BY <1>26, <1>b, GoesType
  <2> QED
    BY <1>26, <1>b, <1>d, <2>1 DEF Empty
<1>7. ASSUME NEW w \in Worker, Handle(w) PROVE WorkerOK' /\ ProducerOK' /\ Rest'
  <2>1. WorkerOK'
    BY <1>7, <1>b, GoesType
  <2> QED
    BY <1>7, <1>b, <1>d, <2>1 DEF Handle
<1>8. ASSUME NEW w \in Worker, Ack(w) PROVE WorkerOK' /\ ProducerOK' /\ Rest'
  <2>1. WorkerOK' /\ InHand(w).id \in JobId /\ InHand(w) \in Popped
    BY <1>8, <1>b, NextJobType, GoesType DEF Ack, HandInv, At
  <2> QED
    BY <1>8, <1>b, <1>d, <2>1, JobIds DEF Ack
<1>9. ASSUME NEW w \in Worker, Fail(w) PROVE WorkerOK' /\ ProducerOK' /\ Rest'
  <2>1. WorkerOK' /\ InHand(w).id \in JobId /\ InHand(w) \in Popped
    BY <1>9, <1>b, NextJobType, GoesType DEF Fail, HandInv, At
  <2> QED
    BY <1>9, <1>b, <1>d, <2>1, JobIds DEF Fail
<1>10. ASSUME NEW w \in Worker, Bury(w) PROVE WorkerOK' /\ ProducerOK' /\ Rest'
  <2>1. WorkerOK' /\ InHand(w).id \in JobId
    BY <1>10, <1>b, NextJobType DEF Bury, HandInv, At
  <2>2. dead' \in [JobId -> Nat]
    BY <1>10, <1>b, <2>1 DEF Bury
  <2> QED
    BY <1>10, <1>b, <1>d, <2>1, <2>2 DEF Bury
<1>11. ASSUME NEW w \in Worker, SetBack(w) PROVE WorkerOK' /\ ProducerOK' /\ Rest'
  <2>1. worker[w].hand # <<>>
    BY <1>11 DEF SetBack, HandInv, At
  <2>2. WorkerOK' /\ InHand(w).id \in JobId /\ InHand(w) \in Popped
    BY <1>11, <1>b, <2>1, NextJobType, GoesType DEF SetBack
  <2>3. InHand(w).attempts \in 0..MaxAttempts
    BY <1>11, <2>2, JobIds DEF SetBack, HandInv, Popped
  <2> QED
    BY <1>11, <1>b, <1>d, <2>2, <2>3 DEF SetBack, Attempted
<1>12. ASSUME NEW w \in Worker, Delay(w) PROVE WorkerOK' /\ ProducerOK' /\ Rest'
  <2>1. WorkerOK' /\ InHand(w).id \in JobId /\ InHand(w) \in Popped
    BY <1>12, <1>b, NextJobType, GoesType DEF Delay, HandInv, At
  <2>2. Append(ready, InHand(w).id) \in Seq(JobId)
    BY <1>b, <2>1, AppendElements
  <2> QED
    BY <1>12, <1>b, <1>d, <2>1, <2>2, JobIds DEF Delay, Delayed
<1>13. ASSUME NEW w \in Worker, Skip(w) PROVE WorkerOK' /\ ProducerOK' /\ Rest'
  <2>1. WorkerOK'
    BY <1>13, <1>b, GoesType DEF Skip
  <2> QED
    BY <1>13, <1>0, <1>b, <1>d, <2>1 DEF Skip
<1>14. ASSUME NEW w \in Worker, Crash(w) PROVE WorkerOK' /\ ProducerOK' /\ Rest'
  <2>1. WorkerOK'
    BY <1>14, <1>b, GoesType DEF Crash
  <2> QED
    BY <1>14, <1>0, <1>b, <1>d, <2>1, ConstantsAssumption DEF Crash, FaultLoses
<1>15. ASSUME NEW w \in Worker, PopErr(w) PROVE WorkerOK' /\ ProducerOK' /\ Rest'
  <2>1. ready # <<>> => Head(ready) \in JobId /\ Tail(ready) \in Seq(JobId)
    BY <1>b, TailElements
  <2> DEFINE h == <<>>
             n == 0
  <2>2. worker' = [worker EXCEPT ![w].hand = h, ![w].looked = n]
    BY <1>15 DEF PopErr
  <2>3. WorkerOK'
    <3>1. h \in Seq(Popped) /\ Len(h) <= BatchSize /\ n \in 0..BatchSize
      BY EmptySeq, JobIds
    <3> HIDE DEF h, n
    <3> QED
      BY <1>b, <2>2, <3>1, HandType
  <2>4. lost' \subseteq JobId /\ faults' \in 0..MaxFaults
    <3>1. /\ faults < MaxFaults /\ faults' = faults + 1
          /\ \/ lost' = lost \cup IdsOf(w)
             \/ ready # <<>> /\ lost' = lost \cup IdsOf(w) \cup {Head(ready)}
      BY <1>15 DEF PopErr, FaultLoses
    <3>2. faults \in 0..MaxFaults /\ lost \subseteq JobId
      BY <1>b
    <3> QED
      BY <1>0, <2>1, <3>1, <3>2, ConstantsAssumption
  <2>5. ready' \in Seq(JobId)
    BY <1>15, <1>b, <2>1 DEF PopErr
  <2> QED
    BY <1>15, <1>b, <1>d, <2>3, <2>4, <2>5 DEF PopErr
<1>16. ASSUME NEW w \in Worker, Signal(w) PROVE WorkerOK' /\ ProducerOK' /\ Rest'
  <2>1. WorkerOK'
    BY <1>16, <1>c DEF Signal
  <2> QED
    BY <1>16, <1>b, <1>d, <2>1, ConstantsAssumption DEF Signal, FaultLoses
<1>17. ASSUME NEW s \in Scheduler, Find(s) PROVE WorkerOK' /\ ProducerOK' /\ Rest'
  BY <1>17, <1>b, <1>c, <1>d, JobIds DEF Find
<1>18. ASSUME NEW s \in Scheduler, NEW j \in JobId, TakeOff(s, j)
       PROVE WorkerOK' /\ ProducerOK' /\ Rest'
  BY <1>18, <1>b, <1>c, <1>d, JobIds DEF TakeOff
<1>19. ASSUME NEW s \in Scheduler, Move(s) PROVE WorkerOK' /\ ProducerOK' /\ Rest'
  <2>1. moving[s] \in JobId
    BY <1>19, <1>b, JobIds DEF Move
  <2>2. Append(ready, moving[s]) \in Seq(JobId)
    BY <1>b, <2>1, AppendElements
  <2>3. moving' \in [Scheduler -> 0..MaxJobs]
    BY <1>19, <1>b, JobIds DEF Move
  <2> QED
    BY <1>19, <1>b, <1>c, <1>d, <2>2, <2>3 DEF Move
<1>20. ASSUME NEW s \in Scheduler, MoveErr(s) PROVE WorkerOK' /\ ProducerOK' /\ Rest'
  <2>1. moving[s] # 0 => moving[s] \in JobId
    BY <1>b, JobIds
  <2> QED
    BY <1>20, <1>b, <1>c, <1>d, <2>1, ConstantsAssumption DEF MoveErr, FaultLoses
<1>21. ASSUME NEW j \in JobId, FallDue(j) PROVE WorkerOK' /\ ProducerOK' /\ Rest'
  BY <1>21, <1>b, <1>c, <1>d, JobIds DEF FallDue
<1>22. ASSUME NEW o \in Operator, NEW j \in JobId, Replay(o, j)
       PROVE  WorkerOK' /\ ProducerOK' /\ Rest'
  <2>1. replay' \in [Operator -> [id : 0..MaxJobs, at : {"idle", "remove", "push", "copy"}]]
    BY <1>22, <1>b, JobIds DEF Replay
  <2>2. replays' \in 0..MaxReplays
    BY <1>22, <1>b, ConstantsAssumption DEF Replay
  <2> QED
    BY <1>22, <1>b, <1>c, <1>d, <2>1, <2>2 DEF Replay
<1>23. ASSUME NEW o \in Operator, Unbury(o) PROVE WorkerOK' /\ ProducerOK' /\ Rest'
  <2>1. replay[o].id \in JobId
    BY <1>23 DEF Unbury, ReplayInv
  <2>2. dead' \in [JobId -> Nat]
    BY <1>23, <1>b, <2>1 DEF Unbury, Unburied
  <2>3. replay' \in [Operator -> [id : 0..MaxJobs, at : {"idle", "remove", "push", "copy"}]]
    BY <1>23, <1>b DEF Unbury
  <2>4. ignored' \subseteq JobId
    BY <1>23, <1>b, <2>1 DEF Unbury
  <2> QED
    BY <1>23, <1>b, <1>c, <1>d, <2>2, <2>3, <2>4 DEF Unbury
<1>24. ASSUME NEW o \in Operator, Requeue(o) PROVE WorkerOK' /\ ProducerOK' /\ Rest'
  <2>1. replay[o].id \in JobId
    BY <1>24 DEF Requeue, ReplayInv
  <2>2. Append(ready, replay[o].id) \in Seq(JobId)
    BY <1>b, <2>1, AppendElements
  <2>3. replay' \in [Operator -> [id : 0..MaxJobs, at : {"idle", "remove", "push", "copy"}]]
    BY <1>24, <1>b, JobIds DEF Requeue
  <2> QED
    BY <1>24, <1>b, <1>c, <1>d, <2>2, <2>3 DEF Requeue
<1>27. ASSUME NEW o \in Operator, ReplayErr(o) PROVE WorkerOK' /\ ProducerOK' /\ Rest'
  <2>1. replay[o].id \in JobId
    BY <1>27 DEF ReplayErr, ReplayInv
  <2>2. replay' \in [Operator -> [id : 0..MaxJobs, at : {"idle", "remove", "push", "copy"}]]
    BY <1>27, <1>b, JobIds DEF ReplayErr
  <2>3. lost' \subseteq JobId /\ faults' \in 0..MaxFaults
    BY <1>27, <1>b, <2>1, ConstantsAssumption DEF ReplayErr, FaultLoses
  <2> QED
    BY <1>27, <1>b, <1>c, <1>d, <2>2, <2>3 DEF ReplayErr
<1>25. ASSUME UNCHANGED vars PROVE WorkerOK' /\ ProducerOK' /\ Rest'
  BY <1>25, <1>b, <1>c, <1>d DEF vars
<1> QED
  BY <1>a, <1>1, <1>2, <1>3, <1>4, <1>5, <1>6, <1>7, <1>8, <1>9, <1>10, <1>11, <1>12,
     <1>13, <1>14, <1>15, <1>16, <1>17, <1>18, <1>19, <1>20, <1>21, <1>22, <1>23, <1>24, <1>25,
     <1>26, <1>27
  DEF Next, Push, Work, Schedule, RetryDead

\* A worker past pop has a job, which may be set back only with attempts to spare.
LEMMA HandStep == TypeOK /\ HandInv /\ [Next]_vars => HandInv'
<1> SUFFICES ASSUME TypeOK, HandInv, [Next]_vars PROVE HandInv'
  OBVIOUS
<1>a. WorkerOK /\ ready \in Seq(JobId) /\ attempts \in [JobId -> 0..MaxAttempts]
  BY DEF TypeOK, WorkerOK
<1>b. worker \in [Worker -> [at : {"pop", "work", "handle", "bury", "set", "delay", "gone"},
                            hand : Seq(Popped), looked : 0..BatchSize]]
  BY <1>a DEF WorkerOK
<1>c. worker' = worker => HandInv'
  BY DEF HandInv, At, InHand
<1>d. ASSUME NEW w \in Worker, NEW at \in {"work", "handle", "bury", "set", "delay"}, Goes(w, at),
             worker[w].hand # <<>>, at = "set" => InHand(w).attempts <= MaxAttempts
      PROVE  HandInv'
  <2>1. /\ worker'[w].at = at /\ worker'[w].hand = worker[w].hand
        /\ \A v \in Worker \ {w} : worker'[v] = worker[v]
    BY <1>b, <1>d DEF Goes
  <2> QED
    BY <1>d, <2>1 DEF HandInv, At, InHand
<1>e. ASSUME NEW w \in Worker, NextJob(w) PROVE HandInv'
  <2> DEFINE rest == Tail(worker[w].hand)
  <2>1. /\ worker'[w].at = IF rest = <<>> THEN "pop" ELSE "work"
        /\ worker'[w].hand = rest /\ worker'[w].looked = 0
        /\ \A v \in Worker \ {w} : worker'[v] = worker[v]
    BY <1>b, <1>e DEF NextJob
  <2> HIDE DEF rest
  <2> QED
    BY <2>1 DEF HandInv, At, InHand
<1>f. ASSUME NEW w \in Worker, Gone(w) PROVE HandInv'
  <2>1. worker'[w].at = "gone" /\ \A v \in Worker \ {w} : worker'[v] = worker[v]
    BY <1>b, <1>f DEF Gone
  <2> QED
    BY <2>1 DEF HandInv, At, InHand
<1>1. ASSUME NEW p \in Producer, Look(p) PROVE HandInv'
  BY <1>1, <1>c DEF Look, workers, others
<1>2. ASSUME NEW p \in Producer, Store(p) PROVE HandInv'
  BY <1>2, <1>c DEF Store, workers, others
<1>3. ASSUME NEW p \in Producer, Note(p) PROVE HandInv'
  BY <1>3, <1>c DEF Note, workers, others
<1>4. ASSUME NEW p \in Producer, Enqueue(p) PROVE HandInv'
  BY <1>4, <1>c DEF Enqueue, workers, others
<1>5. ASSUME NEW p \in Producer, PushErr(p) PROVE HandInv'
  BY <1>5, <1>c DEF PushErr, workers, others
<1>6. ASSUME NEW w \in Worker, Pop(w) PROVE HandInv'
  <2> DEFINE job == [id |-> Head(ready), attempts |-> attempts[Head(ready)] + 1]
             h == IF Head(ready) \in stored THEN Append(worker[w].hand, job) ELSE worker[w].hand
  <2>1. /\ worker' = [worker EXCEPT ![w].hand = h, ![w].looked = worker[w].looked + 1]
        /\ At(w, "pop") /\ worker[w].looked < BatchSize /\ ready # <<>>
    BY <1>6 DEF Pop
  <2>2. /\ worker[w].hand \in Seq(Popped) /\ Len(worker[w].hand) <= worker[w].looked
        /\ Len(worker[w].hand) \in Nat /\ worker[w].looked \in Nat
    BY <1>a, <2>1, RoomLeft
  <2>3. Len(Append(worker[w].hand, job)) = Len(worker[w].hand) + 1
    BY <1>a, <2>1, <2>2, PoppedJob, AppendElements
  <2>4. Len(h) <= worker[w].looked + 1
    BY <2>2, <2>3
  <2> HIDE DEF h
  <2>5. /\ worker'[w].at = "pop" /\ worker'[w].hand = h
        /\ worker'[w].looked = worker[w].looked + 1
        /\ \A v \in Worker \ {w} : worker'[v] = worker[v]
    BY <1>b, <2>1 DEF At
  <2> QED
    BY <2>4, <2>5 DEF HandInv, At, InHand
<1>26. ASSUME NEW w \in Worker, Empty(w) PROVE HandInv'
  <2>1. /\ worker'[w].at = "pop" /\ worker'[w].hand = <<>> /\ worker'[w].looked = 0
        /\ \A v \in Worker \ {w} : worker'[v] = worker[v]
    BY <1>26, <1>b DEF Empty, At
  <2> QED
    BY <2>1 DEF HandInv, At, InHand
<1>7. ASSUME NEW w \in Worker, Handle(w) PROVE HandInv'
  <2>1. worker[w].hand # <<>>
    BY <1>7 DEF Handle, Between, HandInv, At
  <2>2. /\ worker'[w].at = "handle" /\ worker'[w].hand = worker[w].hand
        /\ \A v \in Worker \ {w} : worker'[v] = worker[v]
    BY <1>7, <1>b DEF Handle
  <2> QED
    BY <2>1, <2>2 DEF HandInv, At, InHand
<1>8. ASSUME NEW w \in Worker, Ack(w) PROVE HandInv'
  BY <1>8, <1>e DEF Ack
<1>9. ASSUME NEW w \in Worker, Fail(w) PROVE HandInv'
  <2>1. worker[w].hand # <<>>
    BY <1>9 DEF Fail, HandInv, At
  <2>2. InHand(w).attempts <= MaxAttempts \/ ~ \E permanent \in BOOLEAN : Again(w, permanent)
    BY DEF Again
  <2> QED
    BY <1>9, <1>d, <1>e, <2>1, <2>2 DEF Fail
<1>10. ASSUME NEW w \in Worker, Bury(w) PROVE HandInv'
  BY <1>10, <1>e DEF Bury
<1>11. ASSUME NEW w \in Worker, SetBack(w) PROVE HandInv'
  <2>1. worker[w].hand # <<>>
    BY <1>11 DEF SetBack, HandInv, At
  <2> QED
    BY <1>11, <1>d, <2>1 DEF SetBack
<1>12. ASSUME NEW w \in Worker, Delay(w) PROVE HandInv'
  BY <1>12, <1>e DEF Delay
<1>13. ASSUME NEW w \in Worker, Skip(w) PROVE HandInv'
  BY <1>13, <1>f DEF Skip
<1>14. ASSUME NEW w \in Worker, Crash(w) PROVE HandInv'
  BY <1>14, <1>f DEF Crash
<1>15. ASSUME NEW w \in Worker, PopErr(w) PROVE HandInv'
  <2>1. /\ worker'[w].at = "pop" /\ worker'[w].hand = <<>> /\ worker'[w].looked = 0
        /\ \A v \in Worker \ {w} : worker'[v] = worker[v]
    BY <1>15, <1>b DEF PopErr, At
  <2> QED
    BY <2>1 DEF HandInv, At, InHand
<1>16. ASSUME NEW w \in Worker, Signal(w) PROVE HandInv'
  BY <1>16, <1>c DEF Signal
<1>17. ASSUME NEW s \in Scheduler, Find(s) PROVE HandInv'
  BY <1>17, <1>c DEF Find, workers, others
<1>18. ASSUME NEW s \in Scheduler, NEW j \in JobId, TakeOff(s, j) PROVE HandInv'
  BY <1>18, <1>c DEF TakeOff, workers, others
<1>19. ASSUME NEW s \in Scheduler, Move(s) PROVE HandInv'
  BY <1>19, <1>c DEF Move, workers, others
<1>20. ASSUME NEW s \in Scheduler, MoveErr(s) PROVE HandInv'
  BY <1>20, <1>c DEF MoveErr, workers, others
<1>21. ASSUME NEW j \in JobId, FallDue(j) PROVE HandInv'
  BY <1>21, <1>c DEF FallDue, workers, others
<1>22. ASSUME NEW o \in Operator, NEW j \in JobId, Replay(o, j) PROVE HandInv'
  BY <1>22, <1>c DEF Replay, workers, others
<1>23. ASSUME NEW o \in Operator, Unbury(o) PROVE HandInv'
  BY <1>23, <1>c DEF Unbury, workers, others
<1>24. ASSUME NEW o \in Operator, Requeue(o) PROVE HandInv'
  BY <1>24, <1>c DEF Requeue, workers, others
<1>27. ASSUME NEW o \in Operator, ReplayErr(o) PROVE HandInv'
  BY <1>27, <1>c DEF ReplayErr, workers, others
<1>25. ASSUME UNCHANGED vars PROVE HandInv'
  BY <1>25, <1>c DEF vars, workers, others
<1> QED
  BY <1>1, <1>2, <1>3, <1>4, <1>5, <1>6, <1>7, <1>8, <1>9, <1>10, <1>11, <1>12,
     <1>13, <1>14, <1>15, <1>16, <1>17, <1>18, <1>19, <1>20, <1>21, <1>22, <1>23, <1>24, <1>25,
     <1>26, <1>27
  DEF Next, Push, Work, Schedule, RetryDead

\* What a producer is about to note or to enqueue, and retry_dead to push, is a job.
LEMMA IdsStep ==
  TypeOK /\ PushInv /\ ReplayInv /\ [Next]_vars => PushInv' /\ ReplayInv'
<1> SUFFICES ASSUME TypeOK, PushInv, ReplayInv, [Next]_vars PROVE PushInv' /\ ReplayInv'
  OBVIOUS
<1>b. /\ push \in [Producer -> [at : {"look", "store", "note", "enqueue", "done"},
                                key : Key, id : 0..MaxJobs]]
      /\ replay \in [Operator -> [id : 0..MaxJobs, at : {"idle", "remove", "push", "copy"}]]
      /\ counter \in 0..MaxJobs
  BY DEF TypeOK
<1>c. (push' = push => PushInv') /\ (replay' = replay => ReplayInv')
  BY DEF PushInv, ReplayInv
<1>d. ASSUME NEW p \in Producer, NEW at, PushGoes(p, at),
             at \in {"note", "enqueue"} => push[p].id \in JobId
      PROVE  PushInv'
  <2>1. /\ push'[p].at = at /\ push'[p].id = push[p].id
        /\ \A q \in Producer \ {p} : push'[q] = push[q]
    BY <1>b, <1>d DEF PushGoes
  <2> QED
    BY <1>d, <2>1 DEF PushInv
<1>1. ASSUME NEW p \in Producer, Look(p) PROVE PushInv' /\ ReplayInv'
  BY <1>1, <1>c, <1>d DEF Look, others, replaying
<1>2. ASSUME NEW p \in Producer, Store(p) PROVE PushInv' /\ ReplayInv'
  <2>1. counter' \in JobId
    BY <1>2, <1>b, JobIds DEF Store, JobId
  <2>2. push'[p].id = counter' /\ \A q \in Producer \ {p} : push'[q] = push[q]
    BY <1>2, <1>b DEF Store
  <2> QED
    BY <1>2, <1>c, <2>1, <2>2 DEF Store, PushInv, others, replaying
<1>3. ASSUME NEW p \in Producer, Note(p) PROVE PushInv' /\ ReplayInv'
  BY <1>3, <1>c, <1>d DEF Note, PushInv, others, replaying
<1>4. ASSUME NEW p \in Producer, Enqueue(p) PROVE PushInv' /\ ReplayInv'
  BY <1>4, <1>c, <1>d DEF Enqueue, others, replaying
<1>5. ASSUME NEW p \in Producer, PushErr(p) PROVE PushInv' /\ ReplayInv'
  BY <1>5, <1>c, <1>d DEF PushErr, replaying
<1>6. ASSUME NEW w \in Worker, Pop(w) PROVE PushInv' /\ ReplayInv'
  BY <1>6, <1>c DEF Pop, others, replaying
<1>26. ASSUME NEW w \in Worker, Empty(w) PROVE PushInv' /\ ReplayInv'
  BY <1>26, <1>c DEF Empty, others, replaying
<1>7. ASSUME NEW w \in Worker, Handle(w) PROVE PushInv' /\ ReplayInv'
  BY <1>7, <1>c DEF Handle, others, replaying
<1>8. ASSUME NEW w \in Worker, Ack(w) PROVE PushInv' /\ ReplayInv'
  BY <1>8, <1>c DEF Ack, others, replaying
<1>9. ASSUME NEW w \in Worker, Fail(w) PROVE PushInv' /\ ReplayInv'
  BY <1>9, <1>c DEF Fail, others, replaying
<1>10. ASSUME NEW w \in Worker, Bury(w) PROVE PushInv' /\ ReplayInv'
  BY <1>10, <1>c DEF Bury, others, replaying
<1>11. ASSUME NEW w \in Worker, SetBack(w) PROVE PushInv' /\ ReplayInv'
  BY <1>11, <1>c DEF SetBack, others, replaying
<1>12. ASSUME NEW w \in Worker, Delay(w) PROVE PushInv' /\ ReplayInv'
  BY <1>12, <1>c DEF Delay, others, replaying
<1>13. ASSUME NEW w \in Worker, Skip(w) PROVE PushInv' /\ ReplayInv'
  BY <1>13, <1>c DEF Skip, others, replaying
<1>14. ASSUME NEW w \in Worker, Crash(w) PROVE PushInv' /\ ReplayInv'
  BY <1>14, <1>c DEF Crash, others, replaying
<1>15. ASSUME NEW w \in Worker, PopErr(w) PROVE PushInv' /\ ReplayInv'
  BY <1>15, <1>c DEF PopErr, others, replaying
<1>16. ASSUME NEW w \in Worker, Signal(w) PROVE PushInv' /\ ReplayInv'
  BY <1>16, <1>c DEF Signal, others, replaying
<1>17. ASSUME NEW s \in Scheduler, Find(s) PROVE PushInv' /\ ReplayInv'
  BY <1>17, <1>c DEF Find, others, replaying
<1>18. ASSUME NEW s \in Scheduler, NEW j \in JobId, TakeOff(s, j) PROVE PushInv' /\ ReplayInv'
  BY <1>18, <1>c DEF TakeOff, others, replaying
<1>19. ASSUME NEW s \in Scheduler, Move(s) PROVE PushInv' /\ ReplayInv'
  BY <1>19, <1>c DEF Move, others, replaying
<1>20. ASSUME NEW s \in Scheduler, MoveErr(s) PROVE PushInv' /\ ReplayInv'
  BY <1>20, <1>c DEF MoveErr, others, replaying
<1>21. ASSUME NEW j \in JobId, FallDue(j) PROVE PushInv' /\ ReplayInv'
  BY <1>21, <1>c DEF FallDue, others, replaying
<1>22. ASSUME NEW o \in Operator, NEW j \in JobId, Replay(o, j) PROVE PushInv' /\ ReplayInv'
  <2>1. replay'[o].id = j /\ \A q \in Operator \ {o} : replay'[q] = replay[q]
    BY <1>22, <1>b DEF Replay
  <2> QED
    BY <1>22, <1>c, <2>1 DEF Replay, ReplayInv
<1>23. ASSUME NEW o \in Operator, Unbury(o) PROVE PushInv' /\ ReplayInv'
  <2>1. replay'[o].id = replay[o].id /\ \A q \in Operator \ {o} : replay'[q] = replay[q]
    BY <1>23, <1>b DEF Unbury
  <2> QED
    BY <1>23, <1>c, <2>1 DEF Unbury, ReplayInv
<1>24. ASSUME NEW o \in Operator, Requeue(o) PROVE PushInv' /\ ReplayInv'
  <2>1. replay'[o].at = "idle" /\ \A q \in Operator \ {o} : replay'[q] = replay[q]
    BY <1>24, <1>b DEF Requeue
  <2> QED
    BY <1>24, <1>c, <2>1 DEF Requeue, ReplayInv
<1>27. ASSUME NEW o \in Operator, ReplayErr(o) PROVE PushInv' /\ ReplayInv'
  <2>1. replay'[o].at = "idle" /\ \A q \in Operator \ {o} : replay'[q] = replay[q]
    BY <1>27, <1>b DEF ReplayErr
  <2> QED
    BY <1>27, <1>c, <2>1 DEF ReplayErr, ReplayInv
<1>25. ASSUME UNCHANGED vars PROVE PushInv' /\ ReplayInv'
  BY <1>25, <1>c DEF vars, others, replaying
<1> QED
  BY <1>1, <1>2, <1>3, <1>4, <1>5, <1>6, <1>7, <1>8, <1>9, <1>10, <1>11, <1>12,
     <1>13, <1>14, <1>15, <1>16, <1>17, <1>18, <1>19, <1>20, <1>21, <1>22, <1>23, <1>24, <1>25,
     <1>26, <1>27
  DEF Next, Push, Work, Schedule, RetryDead

\* What a worker holds after it went on to its next job, elsewhere, or ended.
LEMMA HandElements ==
  ASSUME WorkerOK, NEW w \in Worker
  PROVE  /\ worker' = worker => \A v \in Worker : IdsOf(v)' = IdsOf(v)
         /\ \A at : Goes(w, at) => \A v \in Worker : IdsOf(v)' = IdsOf(v)
         /\ Handle(w) \/ Empty(w) => \A v \in Worker : IdsOf(v)' = IdsOf(v)
         /\ Gone(w) => \A v \in Worker \ {w} : IdsOf(v)' = IdsOf(v)
         /\ worker[w].hand # <<>> /\ NextJob(w)
              => \A v \in Worker : IdsOf(v) \subseteq IdsOf(v)' \cup {InHand(w).id}
<1>b. worker \in [Worker -> [at : {"pop", "work", "handle", "bury", "set", "delay", "gone"},
                            hand : Seq(Popped), looked : 0..BatchSize]]
  BY DEF WorkerOK
<1>0. ASSUME NEW v \in Worker, worker'[v].hand = worker[v].hand PROVE IdsOf(v)' = IdsOf(v)
  BY <1>0 DEF IdsOf
<1>1. worker' = worker => \A v \in Worker : IdsOf(v)' = IdsOf(v)
  BY <1>0
<1>2. ASSUME NEW at, Goes(w, at) PROVE \A v \in Worker : IdsOf(v)' = IdsOf(v)
  <2>1. \A v \in Worker : worker'[v].hand = worker[v].hand
    BY <1>b, <1>2 DEF Goes
  <2> QED
    BY <1>0, <2>1
<1>3. ASSUME Gone(w) PROVE \A v \in Worker \ {w} : IdsOf(v)' = IdsOf(v)
  <2>1. \A v \in Worker \ {w} : worker'[v].hand = worker[v].hand
    BY <1>b, <1>3 DEF Gone
  <2> QED
    BY <1>0, <2>1
<1>4. ASSUME worker[w].hand # <<>>, NextJob(w), NEW v \in Worker
      PROVE  IdsOf(v) \subseteq IdsOf(v)' \cup {InHand(w).id}
  <2>1. /\ worker'[w].hand = Tail(worker[w].hand)
        /\ \A u \in Worker \ {w} : worker'[u].hand = worker[u].hand
    BY <1>b, <1>4 DEF NextJob
  <2>2. ToSet(worker[w].hand) = ToSet(Tail(worker[w].hand)) \cup {Head(worker[w].hand)}
    <3>1. worker[w].hand \in Seq(Popped)
      BY <1>b
    <3> QED
      BY <1>4, <3>1, TailElements
  <2>3. CASE v = w
    BY <2>1, <2>2, <2>3 DEF IdsOf, InHand
  <2>4. CASE v # w
    BY <1>0, <2>1, <2>4
  <2> QED
    BY <2>3, <2>4
<1>5. ASSUME Handle(w) \/ Empty(w) PROVE \A v \in Worker : IdsOf(v)' = IdsOf(v)
  <2>1. \/ worker' = [worker EXCEPT ![w].at = "handle", ![w].looked = 0]
        \/ worker' = [worker EXCEPT ![w].looked = 0]
    BY <1>5 DEF Handle, Empty
  <2>2. /\ worker'[w].hand = worker[w].hand
        /\ \A v \in Worker \ {w} : worker'[v].hand = worker[v].hand
    BY <1>b, <2>1
  <2> QED
    BY <1>0, <2>2
<1> QED
  BY <1>1, <1>2, <1>3, <1>4, <1>5

\* A step that keeps every job where it is, but for those in X, which it puts somewhere.
Placed(j) == Listed(j) \/ Held(j) \/ j \in lost

KeepsLists(X) ==
  /\ ToSet(ready) \subseteq ToSet(ready)' \cup X
  /\ delayed \subseteq delayed' \cup X
  /\ \A j \in JobId : dead[j] > 0 => dead'[j] > 0 \/ j \in X
  /\ lost \subseteq lost'

KeepsHands(X) ==
  /\ \A p \in Producer : push[p].at \in {"note", "enqueue"} =>
       \/ push'[p].at \in {"note", "enqueue"} /\ push'[p].id = push[p].id
       \/ push[p].id \in X
  /\ \A w \in Worker : IdsOf(w) \subseteq IdsOf(w)' \cup X
  /\ \A s \in Scheduler : moving'[s] = moving[s] \/ moving[s] \in X \cup {0}
  /\ \A o \in Operator : replay[o].at = "push" => replay'[o] = replay[o] \/ replay[o].id \in X

PlacesAll(X) ==
  /\ stored' \subseteq stored \cup X
  /\ \A j \in X \cap stored' : Placed(j)'

\* Such a step keeps NothingVanishes.
LEMMA Keeping ==
  ASSUME NothingVanishes, stored \subseteq JobId, NEW X, KeepsLists(X), KeepsHands(X), PlacesAll(X)
  PROVE  NothingVanishes'
<1> SUFFICES ASSUME NEW j \in stored' PROVE Placed(j)'
  BY DEF NothingVanishes, Placed
<1>1. CASE j \in X
  BY <1>1 DEF PlacesAll
<1>2. CASE j \notin X
  <2>1. j \in stored /\ j \in JobId /\ j # 0
    BY <1>2, JobIds DEF PlacesAll
  <2>2. Placed(j)
    BY <2>1 DEF NothingVanishes, Placed
  <2>3. CASE Listed(j) \/ j \in lost
    BY <1>2, <2>1, <2>3 DEF Listed, KeepsLists, Placed
  <2>4. CASE Held(j)
    <3>1. CASE \E p \in Producer : push[p].id = j /\ push[p].at \in {"note", "enqueue"}
      BY <1>2, <3>1 DEF Held, KeepsHands, Placed
    <3>2. CASE \E w \in Worker : j \in IdsOf(w)
      BY <1>2, <3>2 DEF Held, KeepsHands, Placed
    <3>3. CASE \E s \in Scheduler : moving[s] = j
      BY <1>2, <2>1, <3>3 DEF Held, KeepsHands, Placed
    <3>4. CASE \E o \in Operator : replay[o] = [id |-> j, at |-> "push"]
      <4>1. PICK o \in Operator : replay[o] = [id |-> j, at |-> "push"]
        BY <3>4
      <4>2. replay'[o] = [id |-> j, at |-> "push"]
        BY <1>2, <4>1 DEF KeepsHands
      <4> QED
        BY <4>2 DEF Held, Placed
    <3> QED
      BY <2>4, <3>1, <3>2, <3>3, <3>4 DEF Held
  <2> QED
    BY <2>2, <2>3, <2>4 DEF Placed
<1> QED
  BY <1>1, <1>2

\* No step makes a job vanish.
LEMMA VanishStep == IInv /\ [Next]_vars => NothingVanishes'
<1> SUFFICES ASSUME IInv, [Next]_vars PROVE NothingVanishes'
  OBVIOUS
<1> USE DEF jobs, lists, workers, schedulers, replaying, history, others
<1>a. TypeOK /\ HandInv /\ PushInv /\ ReplayInv /\ NothingVanishes
  BY DEF IInv
<1>b. /\ WorkerOK /\ NothingVanishes /\ HandInv /\ PushInv /\ ReplayInv
      /\ stored \subseteq JobId /\ ready \in Seq(JobId) /\ counter \in 0..MaxJobs
      /\ attempts \in [JobId -> 0..MaxAttempts]
      /\ dead \in [JobId -> Nat] /\ moving \in [Scheduler -> 0..MaxJobs]
      /\ push \in [Producer -> [at : {"look", "store", "note", "enqueue", "done"},
                                key : Key, id : 0..MaxJobs]]
      /\ replay \in [Operator -> [id : 0..MaxJobs, at : {"idle", "remove", "push", "copy"}]]
  BY <1>a DEF TypeOK, WorkerOK
<1>c. worker' = worker => \A v \in Worker : IdsOf(v)' = IdsOf(v)
  BY DEF IdsOf
<1>d. ASSUME NEW w \in Worker, worker[w].hand # <<>> PROVE InHand(w).id \in IdsOf(w)
  <2>1. worker[w].hand \in Seq(Popped)
    BY <1>b DEF WorkerOK
  <2>2. ToSet(worker[w].hand) = ToSet(Tail(worker[w].hand)) \cup {Head(worker[w].hand)}
    BY <1>d, <2>1, TailElements
  <2> QED
    BY <2>2 DEF IdsOf, InHand
<1>1. ASSUME NEW p \in Producer, Look(p) PROVE NothingVanishes'
  <2>1. push'[p].id = push[p].id /\ \A q \in Producer \ {p} : push'[q] = push[q]
    BY <1>1, <1>b DEF Look, PushGoes
  <2>7. KeepsLists({})
    BY <1>1, <1>b DEF Look, KeepsLists
  <2>8. KeepsHands({})
    BY <1>1, <1>b, <1>c, <2>1 DEF Look, KeepsHands
  <2>9. PlacesAll({})
    BY <1>1, <1>b DEF Look, PlacesAll, Placed
  <2> QED
    BY <1>b, <2>7, <2>8, <2>9, Keeping
<1>2. ASSUME NEW p \in Producer, Store(p) PROVE NothingVanishes'
  <2>1. /\ push'[p].id = counter'
        /\ push'[p].at \in {"note", "enqueue"}
        /\ \A q \in Producer \ {p} : push'[q] = push[q]
    BY <1>2, <1>b DEF Store, PushGoes
  <2>7. KeepsLists({counter'})
    BY <1>2, <1>b DEF Store, KeepsLists
  <2>8. KeepsHands({counter'})
    BY <1>2, <1>b, <1>c, <2>1 DEF Store, KeepsHands
  <2>9. PlacesAll({counter'})
    BY <1>2, <1>b, <2>1 DEF Store, PlacesAll, Placed, Held
  <2> QED
    BY <1>b, <2>7, <2>8, <2>9, Keeping
<1>3. ASSUME NEW p \in Producer, Note(p) PROVE NothingVanishes'
  <2>1. /\ push'[p].id = push[p].id
        /\ push'[p].at = "enqueue"
        /\ \A q \in Producer \ {p} : push'[q] = push[q]
    BY <1>3, <1>b DEF Note, PushGoes
  <2>7. KeepsLists({})
    BY <1>3, <1>b DEF Note, KeepsLists
  <2>8. KeepsHands({})
    BY <1>3, <1>b, <1>c, <2>1 DEF Note, KeepsHands
  <2>9. PlacesAll({})
    BY <1>3, <1>b DEF Note, PlacesAll, Placed
  <2> QED
    BY <1>b, <2>7, <2>8, <2>9, Keeping
<1>4. ASSUME NEW p \in Producer, Enqueue(p) PROVE NothingVanishes'
  <2>1. push'[p].id = push[p].id /\ \A q \in Producer \ {p} : push'[q] = push[q]
    BY <1>4, <1>b DEF Enqueue, PushGoes
  <2>2. ToSet(Append(ready, push[p].id)) = ToSet(ready) \cup {push[p].id}
    BY <1>4, <1>b, AppendElements DEF Enqueue, PushInv
  <2>7. KeepsLists({push[p].id})
    BY <1>4, <1>b, <2>2 DEF Enqueue, KeepsLists
  <2>8. KeepsHands({push[p].id})
    BY <1>4, <1>b, <1>c, <2>1 DEF Enqueue, KeepsHands
  <2>9. PlacesAll({push[p].id})
    BY <1>4, <1>b, <2>2 DEF Enqueue, PlacesAll, Placed, Listed
  <2> QED
    BY <1>b, <2>7, <2>8, <2>9, Keeping
<1>5. ASSUME NEW p \in Producer, PushErr(p) PROVE NothingVanishes'
  <2>1. push'[p].id = push[p].id /\ \A q \in Producer \ {p} : push'[q] = push[q]
    BY <1>5, <1>b DEF PushErr, PushGoes
  <2>7. KeepsLists({push[p].id})
    BY <1>5, <1>b DEF PushErr, FaultLoses, KeepsLists
  <2>8. KeepsHands({push[p].id})
    BY <1>5, <1>b, <1>c, <2>1 DEF PushErr, FaultLoses, KeepsHands
  <2>9. PlacesAll({push[p].id})
    BY <1>5, <1>b DEF PushErr, PlacesAll, Placed, FaultLoses
  <2> QED
    BY <1>b, <2>7, <2>8, <2>9, Keeping
<1>6. ASSUME NEW w \in Worker, Pop(w) PROVE NothingVanishes'
  <2> DEFINE x == [id |-> Head(ready), attempts |-> attempts[Head(ready)] + 1]
             h == Append(worker[w].hand, x)
  <2>1. worker[w].hand \in Seq(Popped)
    BY <1>b DEF WorkerOK
  <2>2. /\ ready # <<>> /\ Head(ready) \in JobId /\ ready' = Tail(ready)
        /\ ToSet(ready) = ToSet(Tail(ready)) \cup {Head(ready)}
    BY <1>6, <1>b, TailElements DEF Pop
  <2>3. ToSet(h) = ToSet(worker[w].hand) \cup {x}
    BY <1>b, <2>1, <2>2, PoppedJob, AppendElements
  <2>4. /\ worker'[w].hand = IF Head(ready) \in stored THEN h ELSE worker[w].hand
        /\ \A v \in Worker \ {w} : worker'[v].hand = worker[v].hand
    BY <1>6, <1>b DEF Pop, WorkerOK
  <2>5. /\ \A v \in Worker : IdsOf(v) \subseteq IdsOf(v)'
        /\ Head(ready) \in stored => Head(ready) \in IdsOf(w)'
    <3>1. x.id = Head(ready)
      OBVIOUS
    <3> HIDE DEF x, h
    <3> QED
      BY <2>3, <2>4, <3>1 DEF IdsOf
  <2>7. KeepsLists({Head(ready)})
    BY <1>6, <1>b, <2>2 DEF Pop, KeepsLists
  <2>8. KeepsHands({Head(ready)})
    BY <1>6, <1>b, <1>c, <2>5 DEF Pop, KeepsHands
  <2>9. PlacesAll({Head(ready)})
    BY <1>6, <1>b, <2>5 DEF Pop, PlacesAll, Placed, Held
  <2> QED
    BY <1>b, <2>7, <2>8, <2>9, Keeping
<1>26. ASSUME NEW w \in Worker, Empty(w) PROVE NothingVanishes'
  <2>1. \A v \in Worker : IdsOf(v)' = IdsOf(v)
    BY <1>26, <1>b, HandElements
  <2>7. KeepsLists({})
    BY <1>26, <1>b DEF Empty, KeepsLists
  <2>8. KeepsHands({})
    BY <1>26, <1>b, <1>c, <2>1 DEF Empty, KeepsHands
  <2>9. PlacesAll({})
    BY <1>26, <1>b DEF Empty, PlacesAll, Placed
  <2> QED
    BY <1>b, <2>7, <2>8, <2>9, Keeping
<1>7. ASSUME NEW w \in Worker, Handle(w) PROVE NothingVanishes'
  <2>1. \A v \in Worker : IdsOf(v)' = IdsOf(v)
    BY <1>7, <1>b, HandElements
  <2>7. KeepsLists({})
    BY <1>7, <1>b DEF Handle, KeepsLists
  <2>8. KeepsHands({})
    BY <1>7, <1>b, <1>c, <2>1 DEF Handle, KeepsHands
  <2>9. PlacesAll({})
    BY <1>7, <1>b DEF Handle, PlacesAll, Placed
  <2> QED
    BY <1>b, <2>7, <2>8, <2>9, Keeping
<1>8. ASSUME NEW w \in Worker, Ack(w) PROVE NothingVanishes'
  <2>1. /\ InHand(w).id \in JobId
        /\ \A v \in Worker : IdsOf(v) \subseteq IdsOf(v)' \cup {InHand(w).id}
    BY <1>8, <1>b, HandElements, NextJobType DEF Ack, HandInv, At
  <2>7. KeepsLists({InHand(w).id})
    BY <1>8, <1>b DEF Ack, KeepsLists
  <2>8. KeepsHands({InHand(w).id})
    BY <1>8, <1>b, <1>c, <2>1 DEF Ack, KeepsHands
  <2>9. PlacesAll({InHand(w).id})
    BY <1>8, <1>b, <2>1 DEF Ack, PlacesAll, Placed
  <2> QED
    BY <1>b, <2>7, <2>8, <2>9, Keeping
<1>9. ASSUME NEW w \in Worker, Fail(w) PROVE NothingVanishes'
  <2>0. worker[w].hand # <<>>
    BY <1>9, <1>b DEF Fail, HandInv, At
  <2>1. \A v \in Worker : IdsOf(v) \subseteq IdsOf(v)' \cup {InHand(w).id}
    BY <1>9, <1>b, <2>0, HandElements DEF Fail
  <2>2. InHand(w).id \in IdsOf(w)
    BY <1>d, <2>0
  <2>3. InHand(w).id \in stored => InHand(w).id \in IdsOf(w)'
    BY <1>9, <1>b, <2>2, HandElements DEF Fail
  <2>7. KeepsLists({InHand(w).id})
    BY <1>9, <1>b DEF Fail, KeepsLists
  <2>8. KeepsHands({InHand(w).id})
    BY <1>9, <1>b, <1>c, <2>1 DEF Fail, KeepsHands
  <2>9. PlacesAll({InHand(w).id})
    BY <1>9, <1>b, <2>3 DEF Fail, PlacesAll, Placed, Held
  <2> QED
    BY <1>b, <2>7, <2>8, <2>9, Keeping
<1>10. ASSUME NEW w \in Worker, Bury(w) PROVE NothingVanishes'
  <2>1. /\ InHand(w).id \in JobId
        /\ \A v \in Worker : IdsOf(v) \subseteq IdsOf(v)' \cup {InHand(w).id}
    BY <1>10, <1>b, HandElements, NextJobType DEF Bury, HandInv, At
  <2>7. KeepsLists({InHand(w).id})
    BY <1>10, <1>b, <2>1 DEF Bury, KeepsLists
  <2>8. KeepsHands({InHand(w).id})
    BY <1>10, <1>b, <1>c, <2>1 DEF Bury, KeepsHands
  <2>9. PlacesAll({InHand(w).id})
    BY <1>10, <1>b, <2>1 DEF Bury, PlacesAll, Placed, Listed
  <2> QED
    BY <1>b, <2>7, <2>8, <2>9, Keeping
<1>11. ASSUME NEW w \in Worker, SetBack(w) PROVE NothingVanishes'
  <2>1. \A v \in Worker : IdsOf(v)' = IdsOf(v)
    BY <1>11, <1>b, HandElements DEF SetBack
  <2>2. worker[w].hand # <<>>
    BY <1>11, <1>b DEF SetBack, HandInv, At
  <2>3. InHand(w).id \in IdsOf(w)
    BY <1>d, <2>2
  <2>7. KeepsLists({InHand(w).id})
    BY <1>11, <1>b DEF SetBack, KeepsLists
  <2>8. KeepsHands({InHand(w).id})
    BY <1>11, <1>b, <1>c, <2>1 DEF SetBack, KeepsHands
  <2>9. PlacesAll({InHand(w).id})
    BY <1>11, <1>b, <2>1, <2>3 DEF SetBack, PlacesAll, Placed, Held
  <2> QED
    BY <1>b, <2>7, <2>8, <2>9, Keeping
<1>12. ASSUME NEW w \in Worker, Delay(w) PROVE NothingVanishes'
  <2>1. /\ InHand(w).id \in JobId
        /\ \A v \in Worker : IdsOf(v) \subseteq IdsOf(v)' \cup {InHand(w).id}
    BY <1>12, <1>b, HandElements, NextJobType DEF Delay, HandInv, At
  <2>2. ToSet(Append(ready, InHand(w).id)) = ToSet(ready) \cup {InHand(w).id}
    BY <1>b, <2>1, AppendElements
  <2>7. KeepsLists({InHand(w).id})
    BY <1>12, <1>b, <2>1, <2>2 DEF Delay, Delayed, KeepsLists
  <2>8. KeepsHands({InHand(w).id})
    BY <1>12, <1>b, <1>c, <2>1 DEF Delay, KeepsHands
  <2>9. PlacesAll({InHand(w).id})
    BY <1>12, <1>b, <2>1, <2>2 DEF Delay, PlacesAll, Placed, Listed, Delayed
  <2> QED
    BY <1>b, <2>7, <2>8, <2>9, Keeping
<1>13. ASSUME NEW w \in Worker, Skip(w) PROVE NothingVanishes'
  <2>1. \A v \in Worker \ {w} : IdsOf(v)' = IdsOf(v)
    BY <1>13, <1>b, HandElements DEF Skip
  <2>7. KeepsLists(IdsOf(w))
    BY <1>13, <1>b DEF Skip, KeepsLists
  <2>8. KeepsHands(IdsOf(w))
    BY <1>13, <1>b, <1>c, <2>1 DEF Skip, KeepsHands
  <2>9. PlacesAll(IdsOf(w))
    BY <1>13, <1>b DEF Skip, PlacesAll, Placed
  <2> QED
    BY <1>b, <2>7, <2>8, <2>9, Keeping
<1>14. ASSUME NEW w \in Worker, Crash(w) PROVE NothingVanishes'
  <2>1. \A v \in Worker \ {w} : IdsOf(v)' = IdsOf(v)
    BY <1>14, <1>b, HandElements DEF Crash
  <2>7. KeepsLists(IdsOf(w))
    BY <1>14, <1>b DEF Crash, FaultLoses, KeepsLists
  <2>8. KeepsHands(IdsOf(w))
    BY <1>14, <1>b, <1>c, <2>1 DEF Crash, FaultLoses, KeepsHands
  <2>9. PlacesAll(IdsOf(w))
    BY <1>14, <1>b DEF Crash, PlacesAll, Placed, FaultLoses
  <2> QED
    BY <1>b, <2>7, <2>8, <2>9, Keeping
<1>15. ASSUME NEW w \in Worker, PopErr(w) PROVE NothingVanishes'
  <2>1. \A v \in Worker \ {w} : IdsOf(v)' = IdsOf(v)
    <3>1. \A v \in Worker \ {w} : worker'[v].hand = worker[v].hand
      BY <1>15, <1>b DEF PopErr, WorkerOK
    <3> QED
      BY <3>1 DEF IdsOf
  <2>2. CASE UNCHANGED ready /\ FaultLoses(IdsOf(w))
    <3>7. KeepsLists(IdsOf(w))
      BY <1>15, <1>b, <2>2 DEF PopErr, FaultLoses, KeepsLists
    <3>8. KeepsHands(IdsOf(w))
      BY <1>15, <1>b, <2>1 DEF PopErr, KeepsHands
    <3>9. PlacesAll(IdsOf(w))
      BY <1>15, <1>b, <2>2 DEF PopErr, PlacesAll, Placed, FaultLoses
    <3> QED
      BY <1>b, <3>7, <3>8, <3>9, Keeping
  <2>3. CASE ready # <<>> /\ FaultLoses(IdsOf(w) \cup {Head(ready)}) /\ ready' = Tail(ready)
    <3>1. ToSet(ready) = ToSet(Tail(ready)) \cup {Head(ready)}
      BY <1>b, <2>3, TailElements
    <3>7. KeepsLists(IdsOf(w) \cup {Head(ready)})
      BY <1>15, <1>b, <2>3, <3>1 DEF PopErr, FaultLoses, KeepsLists
    <3>8. KeepsHands(IdsOf(w) \cup {Head(ready)})
      BY <1>15, <1>b, <2>1 DEF PopErr, KeepsHands
    <3>9. PlacesAll(IdsOf(w) \cup {Head(ready)})
      BY <1>15, <1>b, <2>3 DEF PopErr, PlacesAll, Placed, FaultLoses
    <3> QED
      BY <1>b, <3>7, <3>8, <3>9, Keeping
  <2> QED
    BY <1>15, <2>2, <2>3 DEF PopErr
<1>16. ASSUME NEW w \in Worker, Signal(w) PROVE NothingVanishes'
  <2>7. KeepsLists({})
    BY <1>16, <1>b DEF Signal, FaultLoses, KeepsLists
  <2>8. KeepsHands({})
    BY <1>16, <1>b, <1>c DEF Signal, FaultLoses, KeepsHands
  <2>9. PlacesAll({})
    BY <1>16, <1>b DEF Signal, PlacesAll, Placed, FaultLoses
  <2> QED
    BY <1>b, <2>7, <2>8, <2>9, Keeping
<1>17. ASSUME NEW s \in Scheduler, Find(s) PROVE NothingVanishes'
  <2>7. KeepsLists({})
    BY <1>17, <1>b DEF Find, KeepsLists
  <2>8. KeepsHands({})
    BY <1>17, <1>b, <1>c DEF Find, KeepsHands
  <2>9. PlacesAll({})
    BY <1>17, <1>b DEF Find, PlacesAll, Placed
  <2> QED
    BY <1>b, <2>7, <2>8, <2>9, Keeping
<1>18. ASSUME NEW s \in Scheduler, NEW j \in JobId, TakeOff(s, j) PROVE NothingVanishes'
  <2>7. KeepsLists({j})
    BY <1>18, <1>b DEF TakeOff, KeepsLists
  <2>8. KeepsHands({j})
    BY <1>18, <1>b, <1>c DEF TakeOff, KeepsHands
  <2>9. PlacesAll({j})
    BY <1>18, <1>b, JobIds DEF TakeOff, PlacesAll, Placed, Held
  <2> QED
    BY <1>b, <2>7, <2>8, <2>9, Keeping
<1>19. ASSUME NEW s \in Scheduler, Move(s) PROVE NothingVanishes'
  <2>2. ToSet(Append(ready, moving[s])) = ToSet(ready) \cup {moving[s]}
    BY <1>19, <1>b, JobIds, AppendElements DEF Move
  <2>7. KeepsLists({moving[s]})
    BY <1>19, <1>b, <2>2 DEF Move, KeepsLists
  <2>8. KeepsHands({moving[s]})
    BY <1>19, <1>b, <1>c DEF Move, KeepsHands
  <2>9. PlacesAll({moving[s]})
    BY <1>19, <1>b, <2>2 DEF Move, PlacesAll, Placed, Listed
  <2> QED
    BY <1>b, <2>7, <2>8, <2>9, Keeping
<1>20. ASSUME NEW s \in Scheduler, MoveErr(s) PROVE NothingVanishes'
  <2>7. KeepsLists({moving[s]} \ {0})
    BY <1>20, <1>b DEF MoveErr, FaultLoses, KeepsLists
  <2>8. KeepsHands({moving[s]} \ {0})
    BY <1>20, <1>b, <1>c DEF MoveErr, FaultLoses, KeepsHands
  <2>9. PlacesAll({moving[s]} \ {0})
    BY <1>20, <1>b DEF MoveErr, PlacesAll, Placed, FaultLoses
  <2> QED
    BY <1>b, <2>7, <2>8, <2>9, Keeping
<1>21. ASSUME NEW j \in JobId, FallDue(j) PROVE NothingVanishes'
  <2>7. KeepsLists({})
    BY <1>21, <1>b DEF FallDue, KeepsLists
  <2>8. KeepsHands({})
    BY <1>21, <1>b, <1>c DEF FallDue, KeepsHands
  <2>9. PlacesAll({})
    BY <1>21, <1>b DEF FallDue, PlacesAll, Placed
  <2> QED
    BY <1>b, <2>7, <2>8, <2>9, Keeping
<1>22. ASSUME NEW o \in Operator, NEW j \in JobId, Replay(o, j) PROVE NothingVanishes'
  <2>1. replay[o].at = "idle" /\ \A q \in Operator \ {o} : replay'[q] = replay[q]
    BY <1>22, <1>b DEF Replay
  <2>7. KeepsLists({})
    BY <1>22, <1>b DEF Replay, KeepsLists
  <2>8. KeepsHands({})
    BY <1>22, <1>b, <1>c, <2>1 DEF Replay, KeepsHands
  <2>9. PlacesAll({})
    BY <1>22, <1>b DEF Replay, PlacesAll, Placed
  <2> QED
    BY <1>b, <2>7, <2>8, <2>9, Keeping
<1>23. ASSUME NEW o \in Operator, Unbury(o) PROVE NothingVanishes'
  <2>0. PICK x : x = replay[o].id
    OBVIOUS
  <2>1. /\ x \in JobId /\ dead[x] \in Nat
        /\ replay[o].at = "remove"
        /\ replay'[o] = [id |-> x, at |-> IF dead[x] > 0 THEN "push" ELSE "copy"]
        /\ \A q \in Operator \ {o} : replay'[q] = replay[q]
        /\ dead' = [dead EXCEPT ![x] = IF @ > 0 THEN @ - 1 ELSE 0]
    BY <1>23, <1>b, <2>0 DEF Unbury, Unburied, ReplayInv
  <2>2. CASE dead[x] > 0
    <3>1. replay'[o] = [id |-> x, at |-> "push"]
      BY <2>1, <2>2
    <3>7. KeepsLists({x})
      BY <1>23, <1>b, <2>1 DEF Unbury, KeepsLists
    <3>8. KeepsHands({x})
      BY <1>23, <1>b, <1>c, <2>1 DEF Unbury, KeepsHands
    <3>9. PlacesAll({x})
      BY <1>23, <1>b, <3>1 DEF Unbury, PlacesAll, Placed, Held
    <3> QED
      BY <1>b, <3>7, <3>8, <3>9, Keeping
  <2>3. CASE ~ (dead[x] > 0)
    <3>1. \A j \in JobId : dead'[j] = dead[j]
      BY <1>b, <2>1, <2>3
    <3>7. KeepsLists({})
      BY <1>23, <1>b, <3>1 DEF Unbury, KeepsLists
    <3>8. KeepsHands({})
      BY <1>23, <1>b, <1>c, <2>1 DEF Unbury, KeepsHands
    <3>9. PlacesAll({})
      BY <1>23, <1>b DEF Unbury, PlacesAll, Placed
    <3> QED
      BY <1>b, <3>7, <3>8, <3>9, Keeping
  <2> QED
    BY <2>2, <2>3
<1>24. ASSUME NEW o \in Operator, Requeue(o) PROVE NothingVanishes'
  <2>0. PICK x : x = replay[o].id
    OBVIOUS
  <2>1. x \in JobId /\ \A q \in Operator \ {o} : replay'[q] = replay[q]
    BY <1>24, <1>b, <2>0 DEF Requeue, ReplayInv
  <2>2. ready' = Append(ready, x) /\ ToSet(Append(ready, x)) = ToSet(ready) \cup {x}
    BY <1>24, <1>b, <2>0, <2>1, AppendElements DEF Requeue
  <2>7. KeepsLists({x})
    BY <1>24, <1>b, <2>2 DEF Requeue, KeepsLists
  <2>8. KeepsHands({x})
    BY <1>24, <1>b, <1>c, <2>0, <2>1 DEF Requeue, KeepsHands
  <2>9. PlacesAll({x})
    BY <1>24, <1>b, <2>2 DEF Requeue, PlacesAll, Placed, Listed
  <2> QED
    BY <1>b, <2>7, <2>8, <2>9, Keeping
<1>27. ASSUME NEW o \in Operator, ReplayErr(o) PROVE NothingVanishes'
  <2> DEFINE X == IF replay[o].at = "push" THEN {replay[o].id} ELSE {}
  <2>1. \A q \in Operator \ {o} : replay'[q] = replay[q]
    BY <1>27, <1>b DEF ReplayErr
  <2>2. lost' = lost \cup X
    BY <1>27 DEF ReplayErr, FaultLoses
  <2>7. KeepsLists(X)
    BY <1>27, <1>b DEF ReplayErr, FaultLoses, KeepsLists
  <2>8. KeepsHands(X)
    BY <1>27, <1>b, <1>c, <2>1 DEF ReplayErr, KeepsHands
  <2>9. PlacesAll(X)
    BY <1>27, <1>b, <2>2 DEF ReplayErr, PlacesAll, Placed
  <2> HIDE DEF X
  <2> QED
    BY <1>b, <2>7, <2>8, <2>9, Keeping
<1>25. ASSUME UNCHANGED vars PROVE NothingVanishes'
  <2>7. KeepsLists({})
    BY <1>25, <1>b DEF vars, KeepsLists
  <2>8. KeepsHands({})
    BY <1>25, <1>b, <1>c DEF vars, KeepsHands
  <2>9. PlacesAll({})
    BY <1>25, <1>b DEF vars, PlacesAll, Placed
  <2> QED
    BY <1>b, <2>7, <2>8, <2>9, Keeping
<1> QED
  BY <1>1, <1>2, <1>3, <1>4, <1>5, <1>6, <1>7, <1>8, <1>9, <1>10, <1>11, <1>12,
     <1>13, <1>14, <1>15, <1>16, <1>17, <1>18, <1>19, <1>20, <1>21, <1>22, <1>23, <1>24, <1>25,
     <1>26, <1>27
  DEF Next, Push, Work, Schedule, RetryDead

\* The inductive invariant holds in every state.
THEOREM Invariance == Spec => []IInv
<1>1. IInv /\ [Next]_vars => IInv'
  <2> SUFFICES ASSUME IInv, [Next]_vars PROVE IInv'
    OBVIOUS
  <2>1. TypeOK /\ HandInv /\ PushInv /\ ReplayInv
    BY DEF IInv
  <2> QED
    BY <2>1, TypeOKStep, HandStep, IdsStep, VanishStep DEF IInv
<1> QED
  BY <1>1, InitIInv, PTL DEF Spec

\* Attempts stay below the dead-letter limit and every list holds ids of pushed jobs,
\* however many processes send their commands in between.
THEOREM TypeCorrect == Spec => []TypeOK
<1>1. IInv => TypeOK
  BY DEF IInv
<1> QED
  BY <1>1, Invariance, PTL

\* A stored job is always on a list or in a hand, or the process that had it in hand
\* failed or ended there: worker, producer, scheduler or replay.
THEOREM NeverVanishes == Spec => []NothingVanishes
<1>1. IInv => NothingVanishes
  BY DEF IInv
<1> QED
  BY <1>1, Invariance, PTL
--------------------------------------------------------------------------------
(* With one scheduler a job is never there twice *)

\* Putting an element at the end keeps once what was there once, unless it is that one.
LEMMA OnceAppend ==
  ASSUME NEW S, NEW s \in Seq(S), NEW e \in S, NEW j, Once(s, j), e = j => j \notin ToSet(s)
  PROVE  Once(Append(s, e), j)
<1>1. /\ \A i \in 1..Len(s) : Append(s, e)[i] = s[i]
      /\ Append(s, e)[Len(s) + 1] = e
      /\ DOMAIN s = 1..Len(s) /\ DOMAIN Append(s, e) = 1..(Len(s) + 1) /\ Len(s) \in Nat
  BY AppendProperties
<1>2. \A i \in 1..Len(s) : e = j => s[i] # j
  BY <1>1 DEF ToSet
<1> SUFFICES ASSUME NEW i \in 1..(Len(s) + 1), NEW k \in 1..(Len(s) + 1),
                    Append(s, e)[i] = j, Append(s, e)[k] = j
             PROVE  i = k
  BY <1>1 DEF Once
<1>3. CASE i \in 1..Len(s) /\ k \in 1..Len(s)
  BY <1>1, <1>3 DEF Once
<1>4. CASE i = Len(s) + 1 \/ k = Len(s) + 1
  BY <1>1, <1>2, <1>4
<1> QED
  BY <1>1, <1>3, <1>4

\* Taking the first one off keeps it so, and if it is that one it does not occur again.
LEMMA OnceTail ==
  ASSUME NEW S, NEW s \in Seq(S), s # <<>>, NEW j, Once(s, j)
  PROVE  Once(Tail(s), j) /\ (Head(s) = j => j \notin ToSet(Tail(s)))
<1>1. /\ Len(Tail(s)) = Len(s) - 1 /\ Tail(s) \in Seq(S)
      /\ \A i \in 1..Len(Tail(s)) : Tail(s)[i] = s[i + 1]
  BY HeadTailProperties
<1>2. /\ DOMAIN s = 1..Len(s) /\ DOMAIN Tail(s) = 1..(Len(s) - 1)
      /\ Len(s) \in Nat /\ Len(s) > 0 /\ Head(s) = s[1]
  BY <1>1, EmptySeq
<1>3. ASSUME NEW i \in DOMAIN Tail(s)
      PROVE  i + 1 \in DOMAIN s /\ Tail(s)[i] = s[i + 1] /\ i + 1 # 1 /\ i \in Nat
  BY <1>1, <1>2
<1>4. Once(Tail(s), j)
  <2> SUFFICES ASSUME NEW i \in DOMAIN Tail(s), NEW k \in DOMAIN Tail(s),
                      Tail(s)[i] = j, Tail(s)[k] = j
               PROVE  i = k
    BY DEF Once
  <2>1. i + 1 = k + 1
    BY <1>3 DEF Once
  <2> QED
    BY <1>3, <2>1
<1>5. ASSUME Head(s) = j, NEW i \in DOMAIN Tail(s), Tail(s)[i] = j PROVE FALSE
  <2>1. 1 \in DOMAIN s /\ s[i + 1] = j /\ s[1] = j
    BY <1>2, <1>3, <1>5
  <2> QED
    BY <1>3, <2>1 DEF Once
<1> QED
  BY <1>4, <1>5 DEF ToSet

\* The ids of a batch are those of its jobs.
LEMMA IdsOfBatch ==
  ASSUME NEW h \in Seq(Popped)
  PROVE  /\ Ids(h) \in Seq(JobId)
         /\ ToSet(Ids(h)) = {job.id : job \in ToSet(h)}
         /\ \A job \in Popped : Ids(Append(h, job)) = Append(Ids(h), job.id)
         /\ h # <<>> => /\ Ids(h) # <<>> /\ Head(Ids(h)) = Head(h).id
                        /\ Ids(Tail(h)) = Tail(Ids(h))
<1>1. /\ DOMAIN h = 1..Len(h) /\ Len(h) \in Nat
      /\ \A i \in 1..Len(h) : h[i] \in Popped /\ h[i].id \in JobId
  <2>1. DOMAIN h = 1..Len(h) /\ Len(h) \in Nat /\ \A i \in 1..Len(h) : h[i] \in Popped
    OBVIOUS
  <2> QED
    BY <2>1 DEF Popped
<1>2. Ids(h) \in Seq(JobId) /\ Len(Ids(h)) = Len(h)
  <2>1. Ids(h) \in [1..Len(h) -> JobId]
    BY <1>1 DEF Ids
  <2> QED
    BY <1>1, <2>1
<1>3. ToSet(Ids(h)) = {job.id : job \in ToSet(h)}
  <2>1. DOMAIN Ids(h) = DOMAIN h /\ \A i \in DOMAIN h : Ids(h)[i] = h[i].id
    BY DEF Ids
  <2>2. ToSet(Ids(h)) \subseteq {job.id : job \in ToSet(h)}
    BY <2>1 DEF ToSet
  <2>3. {job.id : job \in ToSet(h)} \subseteq ToSet(Ids(h))
    BY <2>1 DEF ToSet
  <2> QED
    BY <2>2, <2>3
<1>4. ASSUME NEW job \in Popped PROVE Ids(Append(h, job)) = Append(Ids(h), job.id)
  <2>1. /\ DOMAIN Append(h, job) = 1..(Len(h) + 1)
        /\ \A i \in 1..Len(h) : Append(h, job)[i] = h[i]
        /\ Append(h, job)[Len(h) + 1] = job
    BY AppendProperties
  <2>2. job.id \in JobId
    BY DEF Popped
  <2>3. /\ DOMAIN Append(Ids(h), job.id) = 1..(Len(h) + 1)
        /\ \A i \in 1..Len(h) : Append(Ids(h), job.id)[i] = Ids(h)[i]
        /\ Append(Ids(h), job.id)[Len(h) + 1] = job.id
        /\ Append(Ids(h), job.id) \in Seq(JobId)
    BY <1>2, <2>2, AppendProperties
  <2>4. \A i \in 1..(Len(h) + 1) : Ids(Append(h, job))[i] = Append(Ids(h), job.id)[i]
    BY <1>1, <2>1, <2>3 DEF Ids
  <2>5. DOMAIN Ids(Append(h, job)) = 1..(Len(h) + 1)
    BY <2>1 DEF Ids
  <2>6. Ids(Append(h, job)) = [i \in 1..(Len(h) + 1) |-> Ids(Append(h, job))[i]]
    BY <2>1 DEF Ids
  <2> QED
    BY <2>3, <2>4, <2>6
<1>5. ASSUME h # <<>>
      PROVE  Ids(h) # <<>> /\ Head(Ids(h)) = Head(h).id /\ Ids(Tail(h)) = Tail(Ids(h))
  <2>1. /\ Len(h) > 0 /\ Head(h) = h[1]
        /\ Tail(h) \in Seq(Popped) /\ Len(Tail(h)) = Len(h) - 1
        /\ \A i \in 1..Len(Tail(h)) : Tail(h)[i] = h[i + 1]
    BY <1>1, <1>5, EmptySeq, HeadTailProperties
  <2>2. Ids(h) # <<>>
    BY <1>1, <1>2, <2>1
  <2>3. /\ Head(Ids(h)) = Ids(h)[1]
        /\ Tail(Ids(h)) \in Seq(JobId) /\ Len(Tail(Ids(h))) = Len(h) - 1
        /\ \A i \in 1..(Len(h) - 1) : Tail(Ids(h))[i] = Ids(h)[i + 1]
    BY <1>2, <2>2, HeadTailProperties
  <2>4. Head(Ids(h)) = Head(h).id
    BY <1>1, <2>1, <2>3 DEF Ids
  <2>5. DOMAIN Tail(h) = 1..(Len(h) - 1) /\ DOMAIN Tail(Ids(h)) = 1..(Len(h) - 1)
    BY <1>1, <2>1, <2>3
  <2>6. \A i \in 1..(Len(h) - 1) : Tail(h)[i].id = Tail(Ids(h))[i]
    BY <1>1, <2>1, <2>3 DEF Ids
  <2>7. Ids(Tail(h)) = Tail(Ids(h))
    <3>1. \A i \in 1..(Len(h) - 1) : Tail(h)[i] \in Popped
      BY <2>1
    <3>2. Ids(Tail(h)) \in [1..(Len(h) - 1) -> JobId]
      BY <2>5, <3>1 DEF Ids, Popped
    <3>3. Ids(Tail(h)) \in Seq(JobId) /\ Len(Ids(Tail(h))) = Len(h) - 1
      <4> DEFINE n == Len(h) - 1
      <4>1. n \in Nat /\ Ids(Tail(h)) \in [1..n -> JobId]
        BY <1>1, <2>1, <3>2
      <4> HIDE DEF n
      <4>2. Ids(Tail(h)) \in Seq(JobId) /\ Len(Ids(Tail(h))) = n
        BY <4>1
      <4> QED
        BY <4>2 DEF n
    <3>4. \A i \in 1..(Len(h) - 1) : Ids(Tail(h))[i] = Tail(Ids(h))[i]
      BY <2>5, <2>6 DEF Ids
    <3> QED
      BY <2>3, <3>3, <3>4, SeqEqual
  <2> QED
    BY <2>2, <2>4, <2>7
<1> QED
  BY <1>2, <1>3, <1>4, <1>5

\* The ids of X, if that is where the step puts them.
Put(X, to, spot) == {j \in X : to = spot}

\* A step that puts the ids of X at the spot to, and no id at any other one.
PutsOnLists(X, to) ==
  /\ ToSet(ready)' \subseteq ToSet(ready) \cup Put(X, to, <<"list", "ready">>)
  /\ delayed' \subseteq delayed \cup Put(X, to, <<"list", "delayed">>)
  /\ \A j \in JobId : dead'[j] > 0 => dead[j] > 0 \/ j \in Put(X, to, <<"list", "dead">>)

PutsInHands(X, to) ==
  /\ \A p \in Producer : push'[p].at \in {"note", "enqueue"} =>
       \/ push[p].at \in {"note", "enqueue"} /\ push[p].id = push'[p].id
       \/ push'[p].id \in Put(X, to, <<"producer", p>>)
  /\ \A w \in Worker : IdsOf(w)' \subseteq IdsOf(w) \cup Put(X, to, <<"worker", w>>)
  /\ \A s \in Scheduler :
       moving'[s] = moving[s] \/ moving'[s] = 0 \/ moving'[s] \in Put(X, to, <<"scheduler", s>>)
  /\ \A o \in Operator, j \in JobId : replay'[o] = [id |-> j, at |-> "push"]
       => replay[o] = [id |-> j, at |-> "push"] \/ j \in Put(X, to, <<"operator", o>>)

LEMMA Putting ==
  ASSUME NEW X, NEW to, PutsOnLists(X, to), PutsInHands(X, to), NEW j \in JobId
  PROVE  Spots(j)' \subseteq Spots(j) \cup {a \in {to} : j \in X}
<1> SUFFICES ASSUME NEW a \in Spots(j)', a \notin Spots(j) PROVE a = to /\ j \in X
  OBVIOUS
<1>0. j # 0
  BY JobIds
<1>1. \/ \E l \in {"ready", "delayed", "dead"} : a = <<"list", l>>
      \/ \E p \in Producer : a = <<"producer", p>>
      \/ \E w \in Worker : a = <<"worker", w>>
      \/ \E s \in Scheduler : a = <<"scheduler", s>>
      \/ \E o \in Operator : a = <<"operator", o>>
  BY DEF Spots
<1>2. CASE a = <<"list", "ready">>
  <2>1. j \in ToSet(ready)' /\ j \notin ToSet(ready)
    BY <1>2 DEF Spots
  <2> QED
    BY <1>2, <2>1 DEF PutsOnLists, Put
<1>3. CASE a = <<"list", "delayed">>
  <2>1. j \in delayed' /\ j \notin delayed
    BY <1>3 DEF Spots
  <2> QED
    BY <1>3, <2>1 DEF PutsOnLists, Put
<1>4. CASE a = <<"list", "dead">>
  <2>1. dead'[j] > 0 /\ ~(dead[j] > 0)
    BY <1>4 DEF Spots
  <2> QED
    BY <1>4, <2>1 DEF PutsOnLists, Put
<1>5. ASSUME NEW o \in Operator, a = <<"operator", o>> PROVE a = to /\ j \in X
  <2>1. replay'[o] = [id |-> j, at |-> "push"] /\ replay[o] # [id |-> j, at |-> "push"]
    BY <1>5 DEF Spots
  <2> QED
    BY <1>5, <2>1 DEF PutsInHands, Put
<1>6. ASSUME NEW p \in Producer, a = <<"producer", p>> PROVE a = to /\ j \in X
  <2>1. /\ push'[p].id = j /\ push'[p].at \in {"note", "enqueue"}
        /\ ~ (push[p].id = j /\ push[p].at \in {"note", "enqueue"})
    BY <1>6 DEF Spots
  <2> QED
    BY <1>6, <2>1 DEF PutsInHands, Put
<1>7. ASSUME NEW w \in Worker, a = <<"worker", w>> PROVE a = to /\ j \in X
  <2>1. j \in IdsOf(w)' /\ j \notin IdsOf(w)
    BY <1>7 DEF Spots
  <2> QED
    BY <1>7, <2>1 DEF PutsInHands, Put
<1>8. ASSUME NEW s \in Scheduler, a = <<"scheduler", s>> PROVE a = to /\ j \in X
  <2>1. moving'[s] = j /\ moving[s] # j
    BY <1>8 DEF Spots
  <2> QED
    BY <1>0, <1>8, <2>1 DEF PutsInHands, Put
<1> QED
  BY <1>1, <1>2, <1>3, <1>4, <1>5, <1>6, <1>7, <1>8

\* A step that only takes ids away keeps each clean one at one spot.
LEMMA Taking ==
  ASSUME AtOneSpot, Numbered, UNCHANGED counter, ignored \subseteq ignored', NEW to,
         PutsOnLists({}, to), PutsInHands({}, to)
  PROVE  AtOneSpot' /\ Numbered'
<1>1. ASSUME NEW j \in JobId PROVE Spots(j)' \subseteq Spots(j)
  BY Putting
<1> QED
  BY <1>1 DEF AtOneSpot, Numbered, Clean

\* So does one that passes an id on, from a spot where it is no longer afterwards.
LEMMA Passing ==
  ASSUME AtOneSpot, Numbered, UNCHANGED counter, ignored \subseteq ignored',
         NEW x \in JobId, NEW from, NEW to,
         x \in Clean => from \in Spots(x) /\ from \notin Spots(x)',
         PutsOnLists({x}, to), PutsInHands({x}, to)
  PROVE  AtOneSpot' /\ Numbered'
<1>1. ASSUME NEW j \in JobId, j # x PROVE Spots(j)' \subseteq Spots(j)
  BY <1>1, Putting
<1>2. ASSUME x \in Clean PROVE Spots(x)' \subseteq {to} /\ x <= counter
  <2>1. Spots(x)' \subseteq Spots(x) \cup {to}
    BY Putting
  <2>2. Spots(x) = {from}
    BY <1>2 DEF AtOneSpot
  <2>3. x <= counter
    BY <1>2 DEF Numbered
  <2> QED
    BY <1>2, <2>1, <2>2, <2>3
<1>3. Clean' \subseteq Clean /\ Clean \subseteq JobId
  BY DEF Clean
<1> QED
  BY <1>1, <1>2, <1>3 DEF AtOneSpot, Numbered

\* So does one that puts an id somewhere that was pushed without being found.
LEMMA Copying ==
  ASSUME AtOneSpot, Numbered, UNCHANGED counter, ignored \subseteq ignored',
         NEW x \in ignored', NEW to, PutsOnLists({x}, to), PutsInHands({x}, to)
  PROVE  AtOneSpot' /\ Numbered'
<1>1. ASSUME NEW j \in JobId, j # x PROVE Spots(j)' \subseteq Spots(j)
  BY <1>1, Putting
<1>2. Clean' \subseteq Clean /\ Clean \subseteq JobId /\ x \notin Clean'
  BY DEF Clean
<1> QED
  BY <1>1, <1>2 DEF AtOneSpot, Numbered

\* What was not found is not forgotten.
LEMMA IgnoredGrows == [Next]_vars => ignored \subseteq ignored'
<1> SUFFICES ASSUME [Next]_vars PROVE ignored \subseteq ignored'
  OBVIOUS
<1> USE DEF jobs, lists, workers, schedulers, replaying, history, others
<1>1. ASSUME NEW p \in Producer, Push(p) \/ PushErr(p) PROVE ignored' = ignored
  BY <1>1 DEF Push, Look, Store, Note, Enqueue, PushErr
<1>2. ASSUME NEW w \in Worker, Work(w) \/ Crash(w) \/ PopErr(w) \/ Signal(w)
      PROVE  ignored' = ignored
  BY <1>2 DEF Work, Pop, Empty, Handle, Ack, Fail, Bury, SetBack, Delay, Skip, Crash, PopErr, Signal
<1>3. ASSUME NEW s \in Scheduler, Schedule(s) \/ MoveErr(s) PROVE ignored \subseteq ignored'
  BY <1>3 DEF Schedule, Find, TakeOff, Move, MoveErr
<1>4. ASSUME NEW j \in JobId, FallDue(j) PROVE ignored' = ignored
  BY <1>4 DEF FallDue
<1>5. ASSUME NEW o \in Operator, RetryDead(o) \/ ReplayErr(o) PROVE ignored \subseteq ignored'
  BY <1>5 DEF RetryDead, Replay, Unbury, Requeue, ReplayErr
<1>6. UNCHANGED vars => ignored' = ignored
  BY DEF vars
<1> QED
  BY <1>1, <1>2, <1>3, <1>4, <1>5, <1>6 DEF Next

\* No hand gets an id that it did not have, and none gets one twice, when a worker goes
\* on to its next job, elsewhere, or drops what it has.  The id it is done with is gone.
LEMMA HandsOnly ==
  ASSUME WorkerOK, HandsOnce, NEW w \in Worker, ignored \subseteq ignored'
  PROVE  /\ worker' = worker => HandsOnce' /\ \A v \in Worker : IdsOf(v)' = IdsOf(v)
         /\ \A at : Goes(w, at) => HandsOnce' /\ \A v \in Worker : IdsOf(v)' = IdsOf(v)
         /\ Handle(w) \/ Empty(w) => HandsOnce' /\ \A v \in Worker : IdsOf(v)' = IdsOf(v)
         /\ Gone(w) \/ worker' = [worker EXCEPT ![w].hand = <<>>, ![w].looked = 0]
              => HandsOnce' /\ \A v \in Worker : IdsOf(v)' \subseteq IdsOf(v)
         /\ worker[w].hand # <<>> =>
              /\ InHand(w).id \in IdsOf(w)
              /\ NextJob(w) =>
                   /\ HandsOnce' /\ \A v \in Worker : IdsOf(v)' \subseteq IdsOf(v)
                   /\ InHand(w).id \in Clean => InHand(w).id \notin IdsOf(w)'
<1>b. worker \in [Worker -> [at : {"pop", "work", "handle", "bury", "set", "delay", "gone"},
                            hand : Seq(Popped), looked : 0..BatchSize]]
  BY DEF WorkerOK
<1>c. Clean' \subseteq Clean
  BY DEF Clean
<1>0. ASSUME NEW v \in Worker PROVE IdsOf(v) = ToSet(Ids(worker[v].hand))
  <2>1. worker[v].hand \in Seq(Popped)
    BY <1>b
  <2> QED
    BY <2>1, IdsOfBatch DEF IdsOf
<1>s. ASSUME NEW v \in Worker, worker'[v].hand = worker[v].hand
      PROVE  IdsOf(v)' = IdsOf(v) /\ \A j \in Clean : Once(Ids(worker'[v].hand), j)
  BY <1>s DEF IdsOf, HandsOnce
<1>1. ASSUME \A v \in Worker : worker'[v].hand = worker[v].hand
      PROVE  HandsOnce' /\ \A v \in Worker : IdsOf(v)' = IdsOf(v)
  BY <1>c, <1>s, <1>1 DEF HandsOnce
<1>2. ASSUME NEW at, Goes(w, at) PROVE HandsOnce' /\ \A v \in Worker : IdsOf(v)' = IdsOf(v)
  <2>1. \A v \in Worker : worker'[v].hand = worker[v].hand
    BY <1>b, <1>2 DEF Goes
  <2> QED
    BY <1>1, <2>1
<1>6. ASSUME Handle(w) \/ Empty(w)
      PROVE  HandsOnce' /\ \A v \in Worker : IdsOf(v)' = IdsOf(v)
  <2>1. \/ worker' = [worker EXCEPT ![w].at = "handle", ![w].looked = 0]
        \/ worker' = [worker EXCEPT ![w].looked = 0]
    BY <1>6 DEF Handle, Empty
  <2>2. /\ worker'[w].hand = worker[w].hand
        /\ \A v \in Worker \ {w} : worker'[v].hand = worker[v].hand
    BY <1>b, <2>1
  <2> QED
    BY <1>1, <2>2
<1>3. ASSUME Gone(w) \/ worker' = [worker EXCEPT ![w].hand = <<>>, ![w].looked = 0]
      PROVE  HandsOnce' /\ \A v \in Worker : IdsOf(v)' \subseteq IdsOf(v)
  <2>1. worker'[w].hand = <<>> /\ \A v \in Worker \ {w} : worker'[v].hand = worker[v].hand
    BY <1>b, <1>3 DEF Gone
  <2>2. DOMAIN Ids(<<>>) = {} /\ ToSet(<<>>) = {}
    BY DEF Ids, ToSet
  <2>3. (\A j : Once(Ids(worker'[w].hand), j)) /\ IdsOf(w)' = {}
    BY <2>1, <2>2 DEF Once, IdsOf
  <2> QED
    BY <1>c, <1>s, <2>1, <2>3 DEF HandsOnce
<1>4. ASSUME worker[w].hand # <<>> PROVE InHand(w).id \in IdsOf(w)
  <2>1. worker[w].hand \in Seq(Popped)
    BY <1>b
  <2>2. ToSet(worker[w].hand) = ToSet(Tail(worker[w].hand)) \cup {Head(worker[w].hand)}
    BY <1>4, <2>1, TailElements
  <2> QED
    BY <2>2 DEF IdsOf, InHand
<1>5. ASSUME worker[w].hand # <<>>, NextJob(w)
      PROVE  /\ HandsOnce' /\ \A v \in Worker : IdsOf(v)' \subseteq IdsOf(v)
             /\ InHand(w).id \in Clean => InHand(w).id \notin IdsOf(w)'
  <2>1. /\ worker'[w].hand = Tail(worker[w].hand)
        /\ \A v \in Worker \ {w} : worker'[v].hand = worker[v].hand
    BY <1>b, <1>5 DEF NextJob
  <2> DEFINE h == worker[w].hand
  <2>2. h \in Seq(Popped) /\ Tail(h) \in Seq(Popped) /\ \A j \in Clean : Once(Ids(h), j)
    BY <1>b, <1>5, TailElements DEF HandsOnce
  <2>3. /\ Ids(h) \in Seq(JobId) /\ Ids(h) # <<>>
        /\ Head(Ids(h)) = Head(h).id /\ Ids(Tail(h)) = Tail(Ids(h))
    BY <1>5, <2>2, IdsOfBatch
  <2>4. ASSUME NEW j \in Clean
        PROVE  Once(Tail(Ids(h)), j) /\ (Head(Ids(h)) = j => j \notin ToSet(Tail(Ids(h))))
    BY <2>2, <2>3, OnceTail
  <2>5. ToSet(Ids(h)) = ToSet(Tail(Ids(h))) \cup {Head(Ids(h))}
    BY <2>3, TailElements
  <2>6. ToSet(Ids(Tail(h))) = {job.id : job \in ToSet(Tail(h))}
    BY <2>2, IdsOfBatch
  <2>7. IdsOf(w)' = ToSet(Tail(Ids(h)))
    BY <2>1, <2>3, <2>6 DEF IdsOf
  <2>8. /\ \A j \in Clean : Once(Ids(worker'[w].hand), j)
        /\ InHand(w).id \in Clean => InHand(w).id \notin IdsOf(w)'
        /\ IdsOf(w)' \subseteq IdsOf(w)
    BY <1>0, <2>1, <2>3, <2>4, <2>5, <2>7 DEF InHand
  <2> QED
    BY <1>c, <1>s, <2>1, <2>8 DEF HandsOnce
<1> QED
  BY <1>1, <1>2, <1>3, <1>4, <1>5, <1>6

\* No step makes a second copy of a clean job.
LEMMA CopyStep ==
  ASSUME IInv, CopyInv, [Next]_vars
  PROVE  CopyInv'
<1> USE DEF jobs, lists, workers, schedulers, replaying, history, others
<1>b. /\ WorkerOK /\ HandInv /\ PushInv /\ ReplayInv
      /\ ready \in Seq(JobId) /\ counter \in 0..MaxJobs
      /\ due \subseteq delayed /\ delayed \subseteq JobId
      /\ attempts \in [JobId -> 0..MaxAttempts]
      /\ dead \in [JobId -> Nat] /\ moving \in [Scheduler -> 0..MaxJobs]
      /\ push \in [Producer -> [at : {"look", "store", "note", "enqueue", "done"},
                                key : Key, id : 0..MaxJobs]]
      /\ replay \in [Operator -> [id : 0..MaxJobs, at : {"idle", "remove", "push", "copy"}]]
      /\ found \in [Scheduler -> SUBSET JobId]
  BY DEF IInv, TypeOK, WorkerOK
<1>i. /\ AtOneSpot /\ Numbered /\ ReadyOnce /\ DeadOnce /\ HandsOnce
      /\ CopyKnown
      /\ ignored \subseteq ignored'
  BY IgnoredGrows DEF CopyInv, OneCopy
<1>c. Clean' \subseteq Clean /\ Clean \subseteq JobId
  BY <1>i DEF Clean
<1>f. /\ ready' = ready => ReadyOnce'
      /\ dead' = dead => DeadOnce'
      /\ worker' = worker => HandsOnce' /\ \A v \in Worker : IdsOf(v)' = IdsOf(v)
      /\ UNCHANGED replay => CopyKnown'
  <2>1. ready' = ready => ReadyOnce'
    BY <1>c, <1>i DEF ReadyOnce
  <2>2. worker' = worker => HandsOnce' /\ \A v \in Worker : IdsOf(v)' = IdsOf(v)
    BY <1>c, <1>i DEF HandsOnce, IdsOf
  <2>3. dead' = dead => DeadOnce'
    BY <1>c, <1>i DEF DeadOnce
  <2> QED
    BY <1>i, <2>1, <2>2, <2>3 DEF CopyKnown
<1>e. \A X, to : UNCHANGED <<ready, delayed, dead>> => PutsOnLists(X, to)
  BY DEF PutsOnLists
<1>g. ASSUME NEW x \in JobId, x \in Clean => x \notin ToSet(ready), ready' = Append(ready, x)
      PROVE  ReadyOnce' /\ ToSet(ready)' = ToSet(ready) \cup {x}
  <2>1. ASSUME NEW j \in Clean PROVE Once(Append(ready, x), j)
    <3>1. Once(ready, j)
      BY <1>i DEF ReadyOnce
    <3> QED
      BY <1>b, <1>g, <3>1, OnceAppend
  <2>2. ReadyOnce'
    BY <1>c, <1>g, <2>1 DEF ReadyOnce
  <2> QED
    BY <1>b, <1>g, <2>2, AppendElements
<1>h. ASSUME ready # <<>>, ready' = Tail(ready)
      PROVE  /\ ReadyOnce' /\ Head(ready) \in JobId /\ Head(ready) \in ToSet(ready)
             /\ ToSet(ready)' \subseteq ToSet(ready)
             /\ Head(ready) \in Clean => Head(ready) \notin ToSet(ready)'
  <2>1. ASSUME NEW j \in Clean
        PROVE  Once(Tail(ready), j) /\ (Head(ready) = j => j \notin ToSet(Tail(ready)))
    <3>1. Once(ready, j)
      BY <1>i DEF ReadyOnce
    <3> QED
      BY <1>b, <1>h, <3>1, OnceTail
  <2>2. ReadyOnce'
    BY <1>c, <1>h, <2>1 DEF ReadyOnce
  <2> QED
    BY <1>b, <1>h, <2>1, <2>2, TailElements
<1>o. ASSUME NEW x \in Clean, NEW from \in Spots(x)
      PROVE  /\ from # <<"list", "ready">> => x \notin ToSet(ready)
             /\ from # <<"list", "dead">> => ~ (dead[x] > 0)
             /\ \A w \in Worker : from # <<"worker", w>> => x \notin IdsOf(w)
  <2>1. ASSUME NEW a, a \in Spots(x) PROVE a = from
    BY <1>i, <2>1 DEF AtOneSpot
  <2>2. /\ x \in ToSet(ready) => <<"list", "ready">> \in Spots(x)
        /\ dead[x] > 0 => <<"list", "dead">> \in Spots(x)
        /\ \A w \in Worker : x \in IdsOf(w) => <<"worker", w>> \in Spots(x)
    BY DEF Spots
  <2> QED
    BY <2>1, <2>2
<1>1. ASSUME NEW p \in Producer, Look(p) PROVE CopyInv'
  <2>1. push'[p].id = push[p].id /\ \A q \in Producer \ {p} : push'[q] = push[q]
    BY <1>1, <1>b DEF Look, PushGoes
  <2>8. PutsOnLists({}, <<>>) /\ PutsInHands({}, <<>>)
    BY <1>1, <1>b, <1>e, <1>f, <2>1 DEF Look, PushGoes, PutsInHands
  <2>9. AtOneSpot' /\ Numbered'
    BY <1>1, <1>i, <2>8, Taking DEF Look
  <2> QED
    BY <1>1, <1>f, <2>9 DEF Look, CopyInv, OneCopy
<1>2. ASSUME NEW p \in Producer, Store(p) PROVE CopyInv'
  <2>1. /\ counter' = counter + 1 /\ counter' \in JobId
        /\ push'[p].id = counter'
        /\ \A q \in Producer \ {p} : push'[q] = push[q]
    BY <1>2, <1>b, JobIds DEF Store, JobId
  <2>0. PICK n : n = counter'
    OBVIOUS
  <2>2. n \in Clean => Spots(n) = {}
    <3>1. n = counter + 1 /\ counter \in Nat
      BY <1>b, <2>0, <2>1, JobIds
    <3>2. n \in Clean /\ Spots(n) # {} => n <= counter
      BY <1>i DEF Numbered
    <3> QED
      BY <3>1, <3>2
  <2>3. PutsOnLists({n}, <<"producer", p>>) /\ PutsInHands({n}, <<"producer", p>>)
    BY <1>2, <1>b, <1>e, <1>f, <2>0, <2>1 DEF Store, PutsInHands, Put
  <2>4. ASSUME NEW j \in Clean
        PROVE  /\ j # n => Spots(j)' \subseteq Spots(j)
               /\ j = n => Spots(j)' \subseteq {<<"producer", p>>}
    BY <1>c, <2>2, <2>3, Putting
  <2>5. AtOneSpot' /\ Numbered'
    <3>1. n \in Nat /\ counter \in Nat /\ n = counter + 1 /\ counter' = n
      BY <1>b, <2>0, <2>1, JobIds
    <3>2. AtOneSpot'
      BY <1>c, <1>i, <2>4 DEF AtOneSpot
    <3>3. ASSUME NEW j \in Clean, Spots(j)' # {} PROVE j <= counter'
      <4>1. CASE j = n
        BY <3>1, <4>1
      <4>2. CASE j # n
        <5>1. Spots(j) # {}
          BY <2>4, <3>3, <4>2
        <5>2. j <= counter /\ j \in Nat
          BY <1>c, <1>i, <5>1, JobIds DEF Numbered
        <5> QED
          BY <3>1, <5>2
      <4> QED
        BY <4>1, <4>2
    <3> QED
      BY <1>c, <3>2, <3>3 DEF Numbered
  <2> QED
    BY <1>2, <1>f, <2>5 DEF Store, CopyInv, OneCopy
<1>3. ASSUME NEW p \in Producer, Note(p) PROVE CopyInv'
  <2>1. push'[p].id = push[p].id /\ \A q \in Producer \ {p} : push'[q] = push[q]
    BY <1>3, <1>b DEF Note, PushGoes
  <2>8. PutsOnLists({}, <<>>) /\ PutsInHands({}, <<>>)
    BY <1>3, <1>b, <1>e, <1>f, <2>1 DEF Note, PushGoes, PutsInHands
  <2>9. AtOneSpot' /\ Numbered'
    BY <1>3, <1>i, <2>8, Taking DEF Note
  <2> QED
    BY <1>3, <1>f, <2>9 DEF Note, CopyInv, OneCopy
<1>4. ASSUME NEW p \in Producer, Enqueue(p) PROVE CopyInv'
  <2>1. /\ push'[p].id = push[p].id /\ push'[p].at = "done"
        /\ \A q \in Producer \ {p} : push'[q] = push[q]
    BY <1>4, <1>b DEF Enqueue, PushGoes
  <2>0. PICK x : x = push[p].id
    OBVIOUS
  <2>2. x \in JobId /\ <<"producer", p>> \in Spots(x) /\ <<"producer", p>> \notin Spots(x)'
    BY <1>4, <1>b, <2>0, <2>1 DEF Enqueue, PushInv, Spots
  <2>3. x \in Clean => x \notin ToSet(ready)
    BY <1>o, <2>2
  <2>4. ASSUME ready' = Append(ready, x) /\ UNCHANGED delayed
        PROVE  AtOneSpot' /\ Numbered' /\ ReadyOnce'
    <3>1. ReadyOnce' /\ ToSet(ready)' = ToSet(ready) \cup {x}
      BY <1>g, <2>2, <2>3, <2>4
    <3>2. /\ PutsOnLists({x}, <<"list", "ready">>)
          /\ PutsInHands({x}, <<"list", "ready">>)
      BY <1>4, <1>f, <2>0, <2>1, <2>4, <3>1 DEF Enqueue, PutsOnLists, PutsInHands, Put
    <3>3. AtOneSpot' /\ Numbered'
      BY <1>4, <1>i, <2>2, <3>2, Passing DEF Enqueue
    <3> QED
      BY <3>1, <3>3
  <2>5. ASSUME delayed' = delayed \cup {x} /\ UNCHANGED ready
        PROVE  AtOneSpot' /\ Numbered' /\ ReadyOnce'
    <3>2. /\ PutsOnLists({x}, <<"list", "delayed">>)
          /\ PutsInHands({x}, <<"list", "delayed">>)
      BY <1>4, <1>f, <2>0, <2>1, <2>5 DEF Enqueue, PutsOnLists, PutsInHands, Put
    <3>3. AtOneSpot' /\ Numbered'
      BY <1>4, <1>i, <2>2, <3>2, Passing DEF Enqueue
    <3>4. ReadyOnce'
      BY <1>4, <1>f, <2>5 DEF Enqueue
    <3> QED
      BY <3>3, <3>4
  <2>6. AtOneSpot' /\ Numbered' /\ ReadyOnce'
    BY <1>4, <2>0, <2>4, <2>5 DEF Enqueue
  <2> QED
    BY <1>4, <1>f, <2>6 DEF Enqueue, CopyInv, OneCopy
<1>5. ASSUME NEW p \in Producer, PushErr(p) PROVE CopyInv'
  <2>1. push'[p].id = push[p].id /\ \A q \in Producer \ {p} : push'[q] = push[q]
    BY <1>5, <1>b DEF PushErr, PushGoes
  <2>8. PutsOnLists({}, <<>>) /\ PutsInHands({}, <<>>)
    BY <1>5, <1>b, <1>e, <1>f, <2>1 DEF PushErr, PushGoes, FaultLoses, PutsInHands
  <2>9. AtOneSpot' /\ Numbered'
    BY <1>5, <1>i, <2>8, Taking DEF PushErr
  <2> QED
    BY <1>5, <1>f, <2>9 DEF PushErr, CopyInv, OneCopy
<1>6. ASSUME NEW w \in Worker, Pop(w) PROVE CopyInv'
  <2>0. PICK x : x = Head(ready)
    OBVIOUS
  <2> DEFINE job == [id |-> x, attempts |-> attempts[x] + 1]
             h == worker[w].hand
  <2>1. /\ ReadyOnce' /\ x \in JobId /\ x \in ToSet(ready)
        /\ ToSet(ready)' \subseteq ToSet(ready) /\ (x \in Clean => x \notin ToSet(ready)')
    BY <1>6, <1>h, <2>0 DEF Pop
  <2>2. /\ worker'[w].hand = IF x \in stored THEN Append(h, job) ELSE h
        /\ \A v \in Worker \ {w} : worker'[v].hand = worker[v].hand
    BY <1>6, <1>b, <2>0 DEF Pop, WorkerOK
  <2>3. ASSUME x \notin stored PROVE AtOneSpot' /\ Numbered' /\ HandsOnce'
    <3>1. \A v \in Worker : worker'[v].hand = worker[v].hand
      BY <2>2, <2>3
    <3>2. HandsOnce' /\ \A v \in Worker : IdsOf(v)' = IdsOf(v)
      BY <1>c, <1>i, <3>1 DEF HandsOnce, IdsOf
    <3>3. PutsOnLists({}, <<>>) /\ PutsInHands({}, <<>>)
      BY <1>6, <2>1, <3>2 DEF Pop, PutsOnLists, PutsInHands
    <3> QED
      BY <1>6, <1>i, <3>2, <3>3, Taking DEF Pop
  <2>4. ASSUME x \in stored PROVE AtOneSpot' /\ Numbered' /\ HandsOnce'
    <3>1. /\ h \in Seq(Popped) /\ job \in Popped /\ job.id = x
          /\ worker'[w].hand = Append(h, job)
      BY <1>6, <1>b, <2>0, <2>2, <2>4, PoppedJob DEF WorkerOK, Pop
    <3>2. x \in Clean => <<"list", "ready">> \in Spots(x) /\ <<"list", "ready">> \notin Spots(x)'
      BY <2>1 DEF Spots
    <3>3. x \in Clean => x \notin IdsOf(w)
      BY <1>o, <3>2
    <3>4. /\ Ids(h) \in Seq(JobId) /\ ToSet(Ids(h)) = IdsOf(w)
          /\ Ids(Append(h, job)) = Append(Ids(h), x)
      BY <3>1, IdsOfBatch DEF IdsOf
    <3>5. /\ \A j \in Clean : Once(Append(Ids(h), x), j)
          /\ ToSet(Append(Ids(h), x)) = IdsOf(w) \cup {x}
      <4>1. ASSUME NEW j \in Clean PROVE Once(Append(Ids(h), x), j)
        <5>1. Once(Ids(h), j)
          BY <1>i DEF HandsOnce
        <5> QED
          BY <2>1, <3>3, <3>4, <5>1, OnceAppend
      <4> QED
        BY <2>1, <3>4, <4>1, AppendElements
    <3>6. Append(h, job) \in Seq(Popped)
      BY <3>1, AppendElements
    <3>7. IdsOf(w)' = IdsOf(w) \cup {x}
      <4>1. ToSet(Ids(Append(h, job))) = {y.id : y \in ToSet(Append(h, job))}
        BY <3>6, IdsOfBatch
      <4> QED
        BY <3>1, <3>4, <3>5, <4>1 DEF IdsOf
    <3>8. \A v \in Worker \ {w} : IdsOf(v)' = IdsOf(v)
      BY <2>2 DEF IdsOf
    <3>9. HandsOnce'
      BY <1>c, <1>i, <2>2, <3>1, <3>4, <3>5 DEF HandsOnce
    <3>10. PutsOnLists({x}, <<"worker", w>>) /\ PutsInHands({x}, <<"worker", w>>)
      BY <1>6, <2>1, <3>7, <3>8 DEF Pop, PutsOnLists, PutsInHands, Put
    <3>11. AtOneSpot' /\ Numbered'
      BY <1>6, <1>i, <2>1, <3>2, <3>10, Passing DEF Pop
    <3> QED
      BY <3>9, <3>11
  <2>5. AtOneSpot' /\ Numbered' /\ HandsOnce'
    BY <2>3, <2>4
  <2> QED
    BY <1>6, <1>f, <2>1, <2>5 DEF Pop, CopyInv, OneCopy
<1>26. ASSUME NEW w \in Worker, Empty(w) PROVE CopyInv'
  <2>1. HandsOnce' /\ \A v \in Worker : IdsOf(v)' \subseteq IdsOf(v)
    BY <1>26, <1>b, <1>i, HandsOnly
  <2>8. PutsOnLists({}, <<>>) /\ PutsInHands({}, <<>>)
    BY <1>26, <1>b, <1>e, <1>f, <2>1 DEF Empty, PutsInHands
  <2>9. AtOneSpot' /\ Numbered'
    BY <1>26, <1>i, <2>8, Taking DEF Empty
  <2> QED
    BY <1>26, <1>f, <2>1, <2>9 DEF Empty, CopyInv, OneCopy
<1>7. ASSUME NEW w \in Worker, Handle(w) PROVE CopyInv'
  <2>1. HandsOnce' /\ \A v \in Worker : IdsOf(v)' \subseteq IdsOf(v)
    BY <1>7, <1>b, <1>i, HandsOnly
  <2>8. PutsOnLists({}, <<>>) /\ PutsInHands({}, <<>>)
    BY <1>7, <1>b, <1>e, <1>f, <2>1 DEF Handle, PutsInHands
  <2>9. AtOneSpot' /\ Numbered'
    BY <1>7, <1>i, <2>8, Taking DEF Handle
  <2> QED
    BY <1>7, <1>f, <2>1, <2>9 DEF Handle, CopyInv, OneCopy
<1>8. ASSUME NEW w \in Worker, Ack(w) PROVE CopyInv'
  <2>1. HandsOnce' /\ \A v \in Worker : IdsOf(v)' \subseteq IdsOf(v)
    BY <1>8, <1>b, <1>i, HandsOnly DEF Ack, HandInv, At
  <2>8. PutsOnLists({}, <<>>) /\ PutsInHands({}, <<>>)
    BY <1>8, <1>b, <1>e, <1>f, <2>1 DEF Ack, PutsInHands
  <2>9. AtOneSpot' /\ Numbered'
    BY <1>8, <1>i, <2>8, Taking DEF Ack
  <2> QED
    BY <1>8, <1>f, <2>1, <2>9 DEF Ack, CopyInv, OneCopy
<1>9. ASSUME NEW w \in Worker, Fail(w) PROVE CopyInv'
  <2>1. HandsOnce' /\ \A v \in Worker : IdsOf(v)' \subseteq IdsOf(v)
    BY <1>9, <1>b, <1>i, HandsOnly DEF Fail, HandInv, At
  <2>8. PutsOnLists({}, <<>>) /\ PutsInHands({}, <<>>)
    BY <1>9, <1>b, <1>e, <1>f, <2>1 DEF Fail, PutsInHands
  <2>9. AtOneSpot' /\ Numbered'
    BY <1>9, <1>i, <2>8, Taking DEF Fail
  <2> QED
    BY <1>9, <1>f, <2>1, <2>9 DEF Fail, CopyInv, OneCopy
<1>10. ASSUME NEW w \in Worker, Bury(w) PROVE CopyInv'
  <2>0. PICK x : x = InHand(w).id
    OBVIOUS
  <2>1. worker[w].hand # <<>>
    BY <1>10, <1>b DEF Bury, HandInv, At
  <2>2. /\ HandsOnce' /\ \A v \in Worker : IdsOf(v)' \subseteq IdsOf(v)
        /\ x \in IdsOf(w) /\ (x \in Clean => x \notin IdsOf(w)')
    BY <1>10, <1>b, <1>i, <2>0, <2>1, HandsOnly DEF Bury
  <2>3. x \in JobId
    BY <1>b, <2>0, <2>1, NextJobType
  <2>4. x \in Clean => <<"worker", w>> \in Spots(x) /\ <<"worker", w>> \notin Spots(x)'
    BY <2>2 DEF Spots
  <2>5. dead' = [dead EXCEPT ![x] = @ + 1] /\ dead[x] \in Nat /\ (x \in Clean => dead[x] = 0)
    <3>1. x \in Clean => ~ (dead[x] > 0)
      BY <1>o, <2>4
    <3>2. dead[x] \in Nat
      BY <1>b, <2>3
    <3> QED
      BY <1>10, <2>0, <3>1, <3>2 DEF Bury
  <2>6. \A j \in JobId : dead'[j] = IF j = x THEN dead[x] + 1 ELSE dead[j]
    BY <1>b, <2>5
  <2>7. PutsOnLists({x}, <<"list", "dead">>) /\ PutsInHands({x}, <<"list", "dead">>)
    BY <1>10, <2>2, <2>6 DEF Bury, PutsOnLists, PutsInHands, Put
  <2>8. AtOneSpot' /\ Numbered'
    BY <1>10, <1>i, <2>3, <2>4, <2>7, Passing DEF Bury
  <2>9. DeadOnce'
    BY <1>c, <1>i, <2>5, <2>6 DEF DeadOnce
  <2> QED
    BY <1>10, <1>f, <2>2, <2>8, <2>9 DEF Bury, CopyInv, OneCopy
<1>11. ASSUME NEW w \in Worker, SetBack(w) PROVE CopyInv'
  <2>1. HandsOnce' /\ \A v \in Worker : IdsOf(v)' \subseteq IdsOf(v)
    BY <1>11, <1>b, <1>i, HandsOnly DEF SetBack
  <2>8. PutsOnLists({}, <<>>) /\ PutsInHands({}, <<>>)
    BY <1>11, <1>b, <1>e, <1>f, <2>1 DEF SetBack, PutsInHands
  <2>9. AtOneSpot' /\ Numbered'
    BY <1>11, <1>i, <2>8, Taking DEF SetBack
  <2> QED
    BY <1>11, <1>f, <2>1, <2>9 DEF SetBack, CopyInv, OneCopy
<1>12. ASSUME NEW w \in Worker, Delay(w) PROVE CopyInv'
  <2>0. PICK x : x = InHand(w).id
    OBVIOUS
  <2>1. worker[w].hand # <<>>
    BY <1>12, <1>b DEF Delay, HandInv, At
  <2>2. /\ HandsOnce' /\ \A v \in Worker : IdsOf(v)' \subseteq IdsOf(v)
        /\ x \in IdsOf(w) /\ (x \in Clean => x \notin IdsOf(w)')
    BY <1>12, <1>b, <1>i, <2>0, <2>1, HandsOnly DEF Delay
  <2>3. x \in JobId
    BY <1>b, <2>0, <2>1, NextJobType
  <2>4. x \in Clean => <<"worker", w>> \in Spots(x) /\ <<"worker", w>> \notin Spots(x)'
    BY <2>2 DEF Spots
  <2>5. ASSUME Backoff PROVE AtOneSpot' /\ Numbered' /\ ReadyOnce'
    <3>1. PutsOnLists({x}, <<"list", "delayed">>) /\ PutsInHands({x}, <<"list", "delayed">>)
      BY <1>12, <2>0, <2>2, <2>5 DEF Delay, Delayed, PutsOnLists, PutsInHands, Put
    <3>2. AtOneSpot' /\ Numbered'
      BY <1>12, <1>i, <2>3, <2>4, <3>1, Passing DEF Delay
    <3>3. ReadyOnce'
      BY <1>12, <1>f, <2>5 DEF Delay
    <3> QED
      BY <3>2, <3>3
  <2>6. ASSUME ~Backoff PROVE AtOneSpot' /\ Numbered' /\ ReadyOnce'
    <3>1. ReadyOnce' /\ ToSet(ready)' = ToSet(ready) \cup {x}
      <4>1. x \in Clean => x \notin ToSet(ready)
        BY <1>o, <2>4
      <4> QED
        BY <1>12, <1>g, <2>0, <2>3, <2>6, <4>1 DEF Delay
    <3>2. PutsOnLists({x}, <<"list", "ready">>) /\ PutsInHands({x}, <<"list", "ready">>)
      BY <1>12, <2>0, <2>2, <2>6, <3>1 DEF Delay, PutsOnLists, PutsInHands, Put
    <3>3. AtOneSpot' /\ Numbered'
      BY <1>12, <1>i, <2>3, <2>4, <3>2, Passing DEF Delay
    <3> QED
      BY <3>1, <3>3
  <2>8. AtOneSpot' /\ Numbered' /\ ReadyOnce'
    BY <2>5, <2>6
  <2> QED
    BY <1>12, <1>f, <2>2, <2>8 DEF Delay, CopyInv, OneCopy
<1>13. ASSUME NEW w \in Worker, Skip(w) PROVE CopyInv'
  <2>1. HandsOnce' /\ \A v \in Worker : IdsOf(v)' \subseteq IdsOf(v)
    BY <1>13, <1>b, <1>i, HandsOnly DEF Skip
  <2>8. PutsOnLists({}, <<>>) /\ PutsInHands({}, <<>>)
    BY <1>13, <1>b, <1>e, <1>f, <2>1 DEF Skip, PutsInHands
  <2>9. AtOneSpot' /\ Numbered'
    BY <1>13, <1>i, <2>8, Taking DEF Skip
  <2> QED
    BY <1>13, <1>f, <2>1, <2>9 DEF Skip, CopyInv, OneCopy
<1>14. ASSUME NEW w \in Worker, Crash(w) PROVE CopyInv'
  <2>1. HandsOnce' /\ \A v \in Worker : IdsOf(v)' \subseteq IdsOf(v)
    BY <1>14, <1>b, <1>i, HandsOnly DEF Crash
  <2>8. PutsOnLists({}, <<>>) /\ PutsInHands({}, <<>>)
    BY <1>14, <1>b, <1>e, <1>f, <2>1 DEF Crash, FaultLoses, PutsInHands
  <2>9. AtOneSpot' /\ Numbered'
    BY <1>14, <1>i, <2>8, Taking DEF Crash
  <2> QED
    BY <1>14, <1>f, <2>1, <2>9 DEF Crash, CopyInv, OneCopy
<1>15. ASSUME NEW w \in Worker, PopErr(w) PROVE CopyInv'
  <2>1. HandsOnce' /\ \A v \in Worker : IdsOf(v)' \subseteq IdsOf(v)
    BY <1>15, <1>b, <1>i, HandsOnly DEF PopErr
  <2>2. ReadyOnce' /\ ToSet(ready)' \subseteq ToSet(ready)
    BY <1>15, <1>f, <1>h DEF PopErr
  <2>8. PutsOnLists({}, <<>>) /\ PutsInHands({}, <<>>)
    BY <1>15, <2>1, <2>2 DEF PopErr, PutsOnLists, PutsInHands
  <2>9. AtOneSpot' /\ Numbered'
    BY <1>15, <1>i, <2>8, Taking DEF PopErr
  <2> QED
    BY <1>15, <1>f, <2>1, <2>2, <2>9 DEF PopErr, CopyInv, OneCopy
<1>16. ASSUME NEW w \in Worker, Signal(w) PROVE CopyInv'
  <2>8. PutsOnLists({}, <<>>) /\ PutsInHands({}, <<>>)
    BY <1>16, <1>b, <1>e, <1>f DEF Signal, FaultLoses, PutsInHands
  <2>9. AtOneSpot' /\ Numbered'
    BY <1>16, <1>i, <2>8, Taking DEF Signal
  <2> QED
    BY <1>16, <1>f, <2>9 DEF Signal, CopyInv, OneCopy
<1>17. ASSUME NEW s \in Scheduler, Find(s) PROVE CopyInv'
  <2>8. PutsOnLists({}, <<>>) /\ PutsInHands({}, <<>>)
    BY <1>17, <1>b, <1>e, <1>f DEF Find, PutsInHands
  <2>9. AtOneSpot' /\ Numbered'
    BY <1>17, <1>i, <2>8, Taking DEF Find
  <2> QED
    BY <1>17, <1>f, <2>9 DEF Find, CopyInv, OneCopy
<1>18. ASSUME NEW s \in Scheduler, NEW j \in JobId, TakeOff(s, j) PROVE CopyInv'
  <2>1. moving'[s] = j /\ \A t \in Scheduler \ {s} : moving'[t] = moving[t]
    BY <1>18, <1>b DEF TakeOff
  <2>2. PutsOnLists({j}, <<"scheduler", s>>) /\ PutsInHands({j}, <<"scheduler", s>>)
    BY <1>18, <1>f, <2>1 DEF TakeOff, PutsOnLists, PutsInHands, Put
  <2>3. ASSUME j \in delayed PROVE AtOneSpot' /\ Numbered'
    <3>1. j \notin delayed'
      BY <1>18 DEF TakeOff
    <3>2. <<"list", "delayed">> \in Spots(j) /\ <<"list", "delayed">> \notin Spots(j)'
      BY <2>3, <3>1 DEF Spots
    <3> QED
      BY <1>18, <1>i, <2>2, <3>2, Passing DEF TakeOff
  <2>4. ASSUME j \notin delayed PROVE AtOneSpot' /\ Numbered'
    <3>1. j \in ignored'
      BY <1>18, <2>4 DEF TakeOff
    <3> QED
      BY <1>18, <1>i, <2>2, <3>1, Copying DEF TakeOff
  <2>5. AtOneSpot' /\ Numbered'
    BY <2>3, <2>4
  <2>6. CopyKnown'
    BY <1>18, <1>f DEF TakeOff
  <2> QED
    BY <1>18, <1>f, <2>5, <2>6 DEF TakeOff, CopyInv, OneCopy
<1>19. ASSUME NEW s \in Scheduler, Move(s) PROVE CopyInv'
  <2>0. PICK x : x = moving[s]
    OBVIOUS
  <2>1. x \in JobId /\ x # 0
    BY <1>19, <1>b, <2>0, JobIds DEF Move
  <2>2. moving'[s] = 0 /\ \A t \in Scheduler \ {s} : moving'[t] = moving[t]
    BY <1>19, <1>b DEF Move
  <2>3. <<"scheduler", s>> \in Spots(x) /\ <<"scheduler", s>> \notin Spots(x)'
    BY <2>0, <2>1, <2>2 DEF Spots
  <2>4. x \in Clean => x \notin ToSet(ready)
    BY <1>o, <2>1, <2>3
  <2>5. ReadyOnce' /\ ToSet(ready)' = ToSet(ready) \cup {x}
    BY <1>19, <1>g, <2>0, <2>1, <2>4 DEF Move
  <2>6. PutsOnLists({x}, <<"list", "ready">>) /\ PutsInHands({x}, <<"list", "ready">>)
    BY <1>19, <1>f, <2>0, <2>2, <2>5 DEF Move, PutsOnLists, PutsInHands, Put
  <2>7. AtOneSpot' /\ Numbered'
    BY <1>19, <1>i, <2>1, <2>3, <2>6, Passing DEF Move
  <2> QED
    BY <1>19, <1>f, <2>5, <2>7 DEF Move, CopyInv, OneCopy
<1>20. ASSUME NEW s \in Scheduler, MoveErr(s) PROVE CopyInv'
  <2>1. /\ moving'[s] = 0 /\ \A t \in Scheduler \ {s} : moving'[t] = moving[t]
    BY <1>20, <1>b DEF MoveErr
  <2>8. PutsOnLists({}, <<>>) /\ PutsInHands({}, <<>>)
    BY <1>20, <1>b, <1>e, <1>f, <2>1 DEF MoveErr, FaultLoses, PutsInHands
  <2>9. AtOneSpot' /\ Numbered'
    BY <1>20, <1>i, <2>8, Taking DEF MoveErr
  <2> QED
    BY <1>20, <1>f, <2>9 DEF MoveErr, CopyInv, OneCopy
<1>21. ASSUME NEW j \in JobId, FallDue(j) PROVE CopyInv'
  <2>8. PutsOnLists({}, <<>>) /\ PutsInHands({}, <<>>)
    BY <1>21, <1>b, <1>e, <1>f DEF FallDue, PutsInHands
  <2>9. AtOneSpot' /\ Numbered'
    BY <1>21, <1>i, <2>8, Taking DEF FallDue
  <2> QED
    BY <1>21, <1>f, <2>9 DEF FallDue, CopyInv, OneCopy
<1>22. ASSUME NEW o \in Operator, NEW j \in JobId, Replay(o, j) PROVE CopyInv'
  <2>1. /\ replay'[o].at = "remove"
        /\ \A q \in Operator \ {o} : replay'[q] = replay[q]
    BY <1>22, <1>b DEF Replay
  <2>8. PutsOnLists({}, <<>>) /\ PutsInHands({}, <<>>)
    BY <1>22, <1>e, <1>f, <2>1 DEF Replay, PutsInHands
  <2>9. AtOneSpot' /\ Numbered'
    BY <1>22, <1>i, <2>8, Taking DEF Replay
  <2>10. CopyKnown'
    BY <1>i, <2>1 DEF CopyKnown
  <2> QED
    BY <1>22, <1>f, <2>9, <2>10 DEF Replay, CopyInv, OneCopy
<1>23. ASSUME NEW o \in Operator, Unbury(o) PROVE CopyInv'
  <2>0. PICK x : x = replay[o].id
    OBVIOUS
  <2>1. /\ x \in JobId /\ dead[x] \in Nat
        /\ replay'[o] = [id |-> x, at |-> IF dead[x] > 0 THEN "push" ELSE "copy"]
        /\ \A q \in Operator \ {o} : replay'[q] = replay[q]
    BY <1>23, <1>b, <2>0 DEF Unbury, ReplayInv
  <2>2. \A j \in JobId : dead'[j] = IF j = x /\ dead[x] > 0 THEN dead[x] - 1 ELSE dead[j]
    BY <1>23, <1>b, <2>0, <2>1 DEF Unbury, Unburied
  <2>3. DeadOnce'
    <3>1. ASSUME NEW j \in Clean PROVE dead'[j] <= 1
      <4>1. dead[j] <= 1 /\ dead[j] \in Nat /\ j \in JobId
        BY <1>b, <1>c, <1>i DEF DeadOnce
      <4> QED
        BY <2>2, <4>1
    <3> QED
      BY <1>c, <3>1 DEF DeadOnce
  <2>4. ASSUME dead[x] > 0 PROVE AtOneSpot' /\ Numbered' /\ CopyKnown'
    <3>1. replay'[o] = [id |-> x, at |-> "push"]
      BY <2>1, <2>4
    <3>2. x \in Clean => ~ (dead'[x] > 0)
      <4>1. x \in Clean => dead[x] = 1
        BY <1>i, <2>1, <2>4 DEF DeadOnce
      <4> QED
        BY <2>1, <2>2, <4>1
    <3>3. x \in Clean => <<"list", "dead">> \in Spots(x) /\ <<"list", "dead">> \notin Spots(x)'
      BY <2>4, <3>2 DEF Spots
    <3>4. \A j \in JobId : dead'[j] > 0 => dead[j] > 0
      BY <2>2, <2>4
    <3>5. PutsOnLists({x}, <<"operator", o>>) /\ PutsInHands({x}, <<"operator", o>>)
      BY <1>23, <1>f, <2>1, <3>1, <3>4 DEF Unbury, PutsOnLists, PutsInHands, Put
    <3>6. AtOneSpot' /\ Numbered'
      BY <1>23, <1>i, <2>1, <3>3, <3>5, Passing DEF Unbury
    <3>7. CopyKnown'
      BY <1>i, <2>1, <3>1 DEF CopyKnown
    <3> QED
      BY <3>6, <3>7
  <2>5. ASSUME ~ (dead[x] > 0) PROVE AtOneSpot' /\ Numbered' /\ CopyKnown'
    <3>1. replay'[o] = [id |-> x, at |-> "copy"] /\ x \in ignored'
      BY <1>23, <2>0, <2>1, <2>5 DEF Unbury
    <3>2. \A j \in JobId : dead'[j] = dead[j]
      BY <2>2, <2>5
    <3>3. PutsOnLists({}, <<>>) /\ PutsInHands({}, <<>>)
      BY <1>23, <1>f, <2>1, <3>1, <3>2 DEF Unbury, PutsOnLists, PutsInHands
    <3>4. AtOneSpot' /\ Numbered'
      BY <1>23, <1>i, <3>3, Taking DEF Unbury
    <3>5. CopyKnown'
      BY <1>i, <2>1, <3>1 DEF CopyKnown
    <3> QED
      BY <3>4, <3>5
  <2>6. AtOneSpot' /\ Numbered' /\ CopyKnown'
    BY <2>4, <2>5
  <2> QED
    BY <1>23, <1>f, <2>3, <2>6 DEF Unbury, CopyInv, OneCopy
<1>24. ASSUME NEW o \in Operator, Requeue(o) PROVE CopyInv'
  <2>0. PICK x : x = replay[o].id
    OBVIOUS
  <2>1. /\ x \in JobId /\ replay[o].at \in {"push", "copy"}
        /\ replay[o] = [id |-> x, at |-> replay[o].at]
        /\ replay'[o].at = "idle" /\ \A q \in Operator \ {o} : replay'[q] = replay[q]
    BY <1>24, <1>b, <2>0 DEF Requeue, ReplayInv
  <2>2. x \in Clean => <<"operator", o>> \in Spots(x) /\ <<"operator", o>> \notin Spots(x)'
    <3>1. x \in Clean => replay[o] = [id |-> x, at |-> "push"]
      BY <1>i, <2>0, <2>1 DEF CopyKnown, Clean
    <3> QED
      BY <2>1, <3>1 DEF Spots
  <2>3. x \in Clean => x \notin ToSet(ready)
    BY <1>o, <2>2
  <2>4. ReadyOnce' /\ ToSet(ready)' = ToSet(ready) \cup {x}
    BY <1>24, <1>g, <2>0, <2>1, <2>3 DEF Requeue
  <2>5. PutsOnLists({x}, <<"list", "ready">>) /\ PutsInHands({x}, <<"list", "ready">>)
    BY <1>24, <1>f, <2>1, <2>4 DEF Requeue, PutsOnLists, PutsInHands, Put
  <2>6. AtOneSpot' /\ Numbered'
    BY <1>24, <1>i, <2>1, <2>2, <2>5, Passing DEF Requeue
  <2>7. CopyKnown'
    BY <1>i, <2>1 DEF CopyKnown
  <2> QED
    BY <1>24, <1>f, <2>4, <2>6, <2>7 DEF Requeue, CopyInv, OneCopy
<1>27. ASSUME NEW o \in Operator, ReplayErr(o) PROVE CopyInv'
  <2>1. replay'[o].at = "idle" /\ \A q \in Operator \ {o} : replay'[q] = replay[q]
    BY <1>27, <1>b DEF ReplayErr
  <2>8. PutsOnLists({}, <<>>) /\ PutsInHands({}, <<>>)
    BY <1>27, <1>e, <1>f, <2>1 DEF ReplayErr, PutsInHands
  <2>9. AtOneSpot' /\ Numbered'
    BY <1>27, <1>i, <2>8, Taking DEF ReplayErr
  <2>10. CopyKnown'
    BY <1>i, <2>1 DEF CopyKnown
  <2> QED
    BY <1>27, <1>f, <2>9, <2>10 DEF ReplayErr, CopyInv, OneCopy
<1>25. ASSUME UNCHANGED vars PROVE CopyInv'
  <2>8. PutsOnLists({}, <<>>) /\ PutsInHands({}, <<>>)
    BY <1>25, <1>b, <1>e, <1>f DEF vars, PutsInHands
  <2>9. AtOneSpot' /\ Numbered'
    BY <1>25, <1>i, <2>8, Taking DEF vars
  <2> QED
    BY <1>25, <1>f, <2>9 DEF vars, CopyInv, OneCopy
<1> QED
  BY <1>1, <1>2, <1>3, <1>4, <1>5, <1>6, <1>7, <1>8, <1>9, <1>10, <1>11, <1>12,
     <1>13, <1>14, <1>15, <1>16, <1>17, <1>18, <1>19, <1>20, <1>21, <1>22, <1>23, <1>24, <1>25,
     <1>26, <1>27
  DEF Next, Push, Work, Schedule, RetryDead

\* The rest is so at the start.
LEMMA InitCopyInv == Init => CopyInv
<1> SUFFICES ASSUME Init PROVE CopyInv
  OBVIOUS
<1>1. ToSet(<<>>) = {} /\ DOMAIN <<>> = {} /\ DOMAIN Ids(<<>>) = {}
  BY DEF ToSet, Ids
<1>2. \A j \in JobId : Spots(j) = {}
  BY <1>1, JobIds DEF Init, Spots, IdsOf
<1>3. /\ Clean \subseteq JobId /\ ready = <<>> /\ \A j \in JobId : dead[j] = 0
      /\ \A w \in Worker : worker[w].hand = <<>>
      /\ \A o \in Operator : replay[o].at = "idle"
  BY DEF Init, Clean
<1>4. \A j : Once(<<>>, j) /\ Once(Ids(<<>>), j)
  BY <1>1 DEF Once
<1>5. ReadyOnce /\ HandsOnce
  BY <1>3, <1>4 DEF ReadyOnce, HandsOnce
<1>6. DeadOnce
  BY <1>3 DEF DeadOnce
<1>7. AtOneSpot /\ Numbered
  BY <1>2, <1>3 DEF AtOneSpot, Numbered
<1>8. CopyKnown
  BY <1>3 DEF CopyKnown
<1> QED
  BY <1>5, <1>6, <1>7, <1>8 DEF CopyInv, OneCopy

\* A job that zrem and lrem have always found is never in two places and never twice in
\* one, so that no two workers have it: whatever interleaves, whatever processes are lost
\* and whatever commands fail (OneCopy).
THEOREM CopiesNeedIgnoredAnswers == Spec => []OneCopy
<1>1. ASSUME IInv, CopyInv, [Next]_vars PROVE CopyInv'
  BY <1>1, CopyStep
<1>2. CopyInv => OneCopy
  BY DEF CopyInv
<1> QED
  BY <1>1, <1>2, Invariance, InitCopyInv, PTL DEF Spec
================================================================================

------------------------------- MODULE RedisQueue -------------------------------
(***************************************************************************)
(* The job queue on Redis (backend_redis.rs) and the workers that take     *)
(* from it (PriorityQueueWorker, worker.rs, with one queue).               *)
(*                                                                         *)
(* Every operation is a row of single Redis commands; each command that    *)
(* others can see is a step of its own.  A job that was popped is on no    *)
(* list until it is acked or failed, and reclaim_stale does nothing.       *)
(* Payloads are left out, and time: a delayed job falls due at any moment. *)
(***************************************************************************)
EXTENDS Integers, Sequences, SequencesExt

CONSTANTS
  Producer,     \* each pushes one job
  Worker,       \* PriorityQueueWorkers
  Scheduler,    \* delayed schedulers, one on every server
  Operator,     \* those who call retry_dead
  Key,          \* what pushes carry as dedupe_key
  NoKey,        \* None, which may be one of it
  BatchSize,    \* JobQueueConfig::batch_size
  MaxAttempts,  \* JobQueueConfig::max_attempts
  Backoff,      \* FALSE when backoff_base_secs or backoff_cap_secs is 0
  MaxJobs,      \* bound on the counter
  MaxFaults,    \* bound on lost processes and failed commands
  MaxReplays    \* bound on retry_dead

JobId == 1..MaxJobs

ASSUME ConstantsAssumption ==
  /\ BatchSize \in Nat \ {0}
  /\ Backoff \in BOOLEAN
  /\ {MaxAttempts, MaxJobs, MaxFaults, MaxReplays} \subseteq Nat

VARIABLES
  counter,   \* <prefix>:counter, the last id given out
  stored,    \* the ids with a <prefix>:job:<id>
  attempts,  \* the attempts written there
  ready,     \* the list <prefix>:ready, oldest first
  delayed,   \* the sorted set <prefix>:delayed
  due,       \* those of it whose time has come
  dead,      \* the list <prefix>:dead: how often each id is in it
  dedupe,    \* the hash <prefix>:dedupe:<kind>; 0 is no entry
  push,      \* the producers: where each is, its key and the id it has got
  worker,    \* the workers: where each is, what it has popped and in how many looks
  stopping,  \* the workers that have been told to stop
  found,     \* the schedulers: the ids each has still to move
  moving,    \* and the one it has taken off the sorted set; 0 is none
  replay,    \* the operators: the id each replays, and its step
  lost,      \* history: ids a process had in hand when it ended or gave up
  ignored,   \* history: ids zrem or lrem did not find, which are moved all the same
  faults, replays

jobs == <<counter, stored, attempts, dedupe>>
lists == <<ready, delayed, due, dead>>
workers == <<worker, stopping>>
schedulers == <<found, moving>>
replaying == <<replay, replays, ignored>>
history == <<lost, faults>>
others == <<workers, schedulers, replaying, history>>  \* but the producers
vars == <<jobs, lists, push, others>>

\* A job as pop hands it out.
Popped == [id : JobId, attempts : 1..(MaxAttempts + 1)]

\* What Redis and the processes hold is what the code can put there: attempts stay
\* below the dead-letter limit, ids are those of pushed jobs, batches within batch_size.
TypeOK ==
  /\ counter \in 0..MaxJobs
  /\ stored \subseteq JobId
  /\ attempts \in [JobId -> 0..MaxAttempts]
  /\ ready \in Seq(JobId)
  /\ due \subseteq delayed /\ delayed \subseteq JobId
  /\ dead \in [JobId -> Nat]
  /\ dedupe \in [Key -> 0..MaxJobs]
  /\ push \in [Producer -> [at : {"look", "store", "note", "enqueue", "done"},
                            key : Key, id : 0..MaxJobs]]
  /\ worker \in [Worker -> [at : {"pop", "work", "handle", "bury", "set", "delay", "gone"},
                            hand : Seq(Popped), looked : 0..BatchSize]]
  /\ \A w \in Worker : Len(worker[w].hand) <= BatchSize
  /\ stopping \subseteq Worker
  /\ found \in [Scheduler -> SUBSET JobId]
  /\ moving \in [Scheduler -> 0..MaxJobs]
  /\ replay \in [Operator -> [id : 0..MaxJobs, at : {"idle", "remove", "push", "copy"}]]
  /\ lost \subseteq JobId /\ ignored \subseteq JobId
  /\ faults \in 0..MaxFaults /\ replays \in 0..MaxReplays

Init ==
  /\ counter = 0 /\ stored = {} /\ ready = <<>> /\ delayed = {} /\ due = {}
  /\ attempts = [j \in JobId |-> 0]
  /\ dead = [j \in JobId |-> 0]
  /\ dedupe = [k \in Key |-> 0]
  /\ push \in [Producer -> [at : {"look"}, key : Key, id : {0}]]
  /\ worker = [w \in Worker |-> [at |-> "pop", hand |-> <<>>, looked |-> 0]]
  /\ stopping = {}
  /\ found = [s \in Scheduler |-> {}]
  /\ moving = [s \in Scheduler |-> 0]
  /\ replay = [o \in Operator |-> [id |-> 0, at |-> "idle"]]
  /\ lost = {} /\ ignored = {} /\ faults = 0 /\ replays = 0

--------------------------------------------------------------------------------
(* push *)

PushGoes(p, at) == push' = [push EXCEPT ![p].at = at]

\* hget: a job that was pushed with this key before is the answer, finished or not.
\* No command is sent without a key.
Known(p) == push[p].key # NoKey /\ dedupe[push[p].key] # 0

Look(p) ==
  /\ push[p].at = "look"
  /\ PushGoes(p, IF Known(p) THEN "done" ELSE "store")
  /\ UNCHANGED <<jobs, lists, others>>

\* incr, and set of a key nobody knows of yet.
Store(p) ==
  /\ push[p].at = "store" /\ counter < MaxJobs
  /\ counter' = counter + 1
  /\ stored' = stored \cup {counter'}
  /\ push' = [push EXCEPT ![p].id = counter',
                          ![p].at = IF push[p].key = NoKey THEN "enqueue" ELSE "note"]
  /\ UNCHANGED <<attempts, dedupe, lists, others>>

\* hset
Note(p) ==
  /\ push[p].at = "note"
  /\ dedupe' = [dedupe EXCEPT ![push[p].key] = push[p].id]
  /\ PushGoes(p, "enqueue")
  /\ UNCHANGED <<counter, stored, attempts, lists, others>>

\* lpush or zadd, by the time the job is to run.
Enqueue(p) ==
  /\ push[p].at = "enqueue"
  /\ \/ ready' = Append(ready, push[p].id) /\ UNCHANGED delayed
     \/ delayed' = delayed \cup {push[p].id} /\ UNCHANGED ready
  /\ PushGoes(p, "done")
  /\ UNCHANGED <<jobs, due, dead, others>>

--------------------------------------------------------------------------------
(* start_delayed_scheduler *)

FallDue(j) ==
  /\ j \in delayed \ due
  /\ due' = due \cup {j}
  /\ UNCHANGED <<jobs, ready, delayed, dead, push, others>>

\* zrangebyscore
Find(s) ==
  /\ found[s] = {} /\ moving[s] = 0
  /\ due # {}
  /\ found' = [found EXCEPT ![s] = due]
  /\ UNCHANGED <<jobs, lists, push, workers, moving, replaying, history>>

\* zrem, whose answer is not looked at: another scheduler may have been first.
TakeOff(s, j) ==
  /\ j \in found[s] /\ moving[s] = 0
  /\ delayed' = delayed \ {j}
  /\ due' = due \ {j}
  /\ found' = [found EXCEPT ![s] = @ \ {j}]
  /\ moving' = [moving EXCEPT ![s] = j]
  /\ ignored' = IF j \in delayed THEN ignored ELSE ignored \cup {j}
  /\ UNCHANGED <<jobs, ready, dead, push, workers, replay, replays, history>>

\* lpush
Move(s) ==
  /\ moving[s] # 0
  /\ ready' = Append(ready, moving[s])
  /\ moving' = [moving EXCEPT ![s] = 0]
  /\ UNCHANGED <<jobs, delayed, due, dead, push, workers, found, replaying, history>>

--------------------------------------------------------------------------------
(* PriorityQueueWorker::run and process_job *)

At(w, at) == worker[w].at = at
InHand(w) == Head(worker[w].hand)
Goes(w, at) == worker' = [worker EXCEPT ![w].at = at]

\* On to the next job of the batch, or to the next batch.
NextJob(w) ==
  LET rest == Tail(worker[w].hand) IN
    worker' = [worker EXCEPT ![w] = [at |-> IF rest = <<>> THEN "pop" ELSE "work",
                                     hand |-> rest, looked |-> 0]]

\* rpop, and get: a job that is gone is passed over, but counts.
Pop(w) ==
  LET j == Head(ready) IN
    /\ At(w, "pop") /\ ready # <<>>
    /\ worker[w].looked < BatchSize
    /\ w \in stopping => worker[w].looked > 0
    /\ ready' = Tail(ready)
    /\ worker' = [worker EXCEPT
                    ![w].hand = IF j \in stored
                                THEN Append(@, [id |-> j, attempts |-> attempts[j] + 1])
                                ELSE @,
                    ![w].looked = @ + 1]
    /\ UNCHANGED <<jobs, delayed, due, dead, push, stopping, schedulers, replaying, history>>

\* The batch is complete, or the list empty.
PoppedAll(w) == ready = <<>> \/ worker[w].looked = BatchSize

\* All that was popped is gone.
Empty(w) ==
  /\ At(w, "pop") /\ worker[w].hand = <<>> /\ worker[w].looked > 0
  /\ PoppedAll(w)
  /\ worker' = [worker EXCEPT ![w].looked = 0]
  /\ UNCHANGED <<jobs, lists, push, stopping, schedulers, replaying, history>>

\* Between two jobs, or before the first of a batch.
Between(w) ==
  \/ At(w, "work")
  \/ At(w, "pop") /\ worker[w].hand # <<>> /\ PoppedAll(w)

\* The handler is called.
Handle(w) ==
  /\ Between(w) /\ w \notin stopping
  /\ worker' = [worker EXCEPT ![w].at = "handle", ![w].looked = 0]
  /\ UNCHANGED <<jobs, lists, push, stopping, schedulers, replaying, history>>

\* The handler is Ok: del.
Ack(w) ==
  /\ At(w, "handle")
  /\ stored' = stored \ {InHand(w).id}
  /\ NextJob(w)
  /\ UNCHANGED <<counter, attempts, dedupe, lists, push, stopping, schedulers, replaying, history>>

\* Mutant: fail does not look at the number of attempts.
Again_Always(w, permanent) == ~permanent

\* A temporary error with attempts to spare.
Again(w, permanent) == ~permanent /\ InHand(w).attempts <= MaxAttempts

\* The handler answers an error, or its time is up, which is a temporary one.  fail
\* begins with get: if the job is gone there is nothing to do.
Fail(w) ==
  /\ At(w, "handle")
  /\ \E permanent \in BOOLEAN :
       IF InHand(w).id \in stored
       THEN Goes(w, IF Again(w, permanent) THEN "set" ELSE "bury")
       ELSE NextJob(w)
  /\ UNCHANGED <<jobs, lists, push, stopping, schedulers, replaying, history>>

\* lpush to the dead; what is stored stays as it was.
Bury(w) ==
  /\ At(w, "bury")
  /\ dead' = [dead EXCEPT ![InHand(w).id] = @ + 1]
  /\ NextJob(w)
  /\ UNCHANGED <<jobs, ready, delayed, due, push, stopping, schedulers, replaying, history>>

\* Mutant: fail does not write the attempts it is given.
Attempted_Not(w) == attempts[InHand(w).id]

Attempted(w) == InHand(w).attempts

\* set, which brings a job back that was acked in the meantime.
SetBack(w) ==
  /\ At(w, "set")
  /\ stored' = stored \cup {InHand(w).id}
  /\ attempts' = [attempts EXCEPT ![InHand(w).id] = Attempted(w)]
  /\ Goes(w, "delay")
  /\ UNCHANGED <<counter, dedupe, lists, push, stopping, schedulers, replaying, history>>

\* Mutant: zadd is forgotten.
Delayed_Not(j) == delayed

Delayed(j) == delayed \cup {j}

\* zadd, or lpush when there is no back-off.
Delay(w) ==
  /\ At(w, "delay")
  /\ IF Backoff
     THEN /\ delayed' = Delayed(InHand(w).id)
          /\ due' = due \ {InHand(w).id}
          /\ UNCHANGED ready
     ELSE /\ ready' = Append(ready, InHand(w).id)
          /\ UNCHANGED <<delayed, due>>
  /\ NextJob(w)
  /\ UNCHANGED <<jobs, dead, push, stopping, schedulers, replaying, history>>

--------------------------------------------------------------------------------
(* retry_dead *)

\* Somebody asks for it.  Nothing checks that the job is dead.
Replay(o, j) ==
  /\ replay[o].at = "idle" /\ replays < MaxReplays
  /\ replay' = [replay EXCEPT ![o] = [id |-> j, at |-> "remove"]]
  /\ replays' = replays + 1
  /\ UNCHANGED <<jobs, lists, push, workers, schedulers, ignored, history>>

\* Mutant: lrem is forgotten.
Unburied_Not(j) == dead

Unburied(j) == [dead EXCEPT ![j] = IF @ > 0 THEN @ - 1 ELSE 0]

\* lrem of one.  How many it removed is not looked at: at "push" the replay has the
\* job in hand, at "copy" it has none and goes on as if it had.
Unbury(o) ==
  LET j == replay[o].id IN
    /\ replay[o].at = "remove"
    /\ dead' = Unburied(j)
    /\ replay' = [replay EXCEPT ![o].at = IF dead[j] > 0 THEN "push" ELSE "copy"]
    /\ ignored' = IF dead[j] > 0 THEN ignored ELSE ignored \cup {j}
    /\ UNCHANGED <<jobs, ready, delayed, due, push, workers, schedulers, replays, history>>

\* lpush, with the attempts it has had
Requeue(o) ==
  /\ replay[o].at \in {"push", "copy"}
  /\ ready' = Append(ready, replay[o].id)
  /\ replay' = [replay EXCEPT ![o] = [id |-> 0, at |-> "idle"]]
  /\ UNCHANGED <<jobs, delayed, due, dead, push, workers, schedulers, replays, ignored, history>>

--------------------------------------------------------------------------------
(* What goes wrong: nobody else has what a process has in hand. *)

IdsOf(w) == {job.id : job \in ToSet(worker[w].hand)}

FaultLoses(ids) ==
  /\ faults < MaxFaults
  /\ faults' = faults + 1
  /\ lost' = lost \cup ids

Gone(w) == worker' = [worker EXCEPT ![w] = [at |-> "gone", hand |-> <<>>, looked |-> 0]]

\* The process ends, or ack or fail answers Err and run returns it.
Crash(w) ==
  /\ ~At(w, "gone")
  /\ FaultLoses(IdsOf(w))
  /\ Gone(w)
  /\ UNCHANGED <<jobs, lists, push, stopping, schedulers, replaying>>

\* rpop fails, or get after it: the jobs that were popped before are dropped too.
PopErr(w) ==
  /\ At(w, "pop") /\ worker[w].looked < BatchSize
  /\ \/ /\ FaultLoses(IdsOf(w))
        /\ UNCHANGED ready
     \/ /\ ready # <<>>
        /\ FaultLoses(IdsOf(w) \cup {Head(ready)})
        /\ ready' = Tail(ready)
  /\ worker' = [worker EXCEPT ![w].hand = <<>>, ![w].looked = 0]
  /\ UNCHANGED <<jobs, delayed, due, dead, push, stopping, schedulers, replaying>>

\* SIGTERM: counted as a fault because it takes a worker away.
Signal(w) ==
  /\ w \notin stopping /\ ~At(w, "gone")
  /\ FaultLoses({})
  /\ stopping' = stopping \cup {w}
  /\ UNCHANGED <<jobs, lists, push, worker, schedulers, replaying>>

\* The worker sees the signal between two jobs, skips the others and returns.
Skip(w) ==
  /\ w \in stopping
  /\ Between(w) \/ (At(w, "pop") /\ worker[w].looked = 0)
  /\ lost' = lost \cup IdsOf(w)
  /\ Gone(w)
  /\ UNCHANGED <<jobs, lists, push, stopping, schedulers, replaying, faults>>

\* A producer ends or gets an error half way.
PushErr(p) ==
  /\ push[p].at \in {"note", "enqueue"}
  /\ FaultLoses({push[p].id})
  /\ PushGoes(p, "done")
  /\ UNCHANGED <<jobs, lists, workers, schedulers, replaying>>

\* A command of a scheduler fails, or its server ends and another one starts: it
\* looks anew at the next tick.
MoveErr(s) ==
  /\ found[s] # {} \/ moving[s] # 0
  /\ FaultLoses({moving[s]} \ {0})
  /\ found' = [found EXCEPT ![s] = {}]
  /\ moving' = [moving EXCEPT ![s] = 0]
  /\ UNCHANGED <<jobs, lists, push, workers, replaying>>

\* lpush of a replay fails, or its process ends after lrem.
ReplayErr(o) ==
  /\ replay[o].at \in {"push", "copy"}
  /\ FaultLoses(IF replay[o].at = "push" THEN {replay[o].id} ELSE {})
  /\ replay' = [replay EXCEPT ![o] = [id |-> 0, at |-> "idle"]]
  /\ UNCHANGED <<jobs, lists, push, workers, schedulers, replays, ignored>>

--------------------------------------------------------------------------------
Push(p) == Look(p) \/ Store(p) \/ Note(p) \/ Enqueue(p)
Work(w) == Pop(w) \/ Empty(w) \/ Handle(w) \/ Ack(w) \/ Fail(w) \/ Bury(w) \/ SetBack(w)
             \/ Delay(w) \/ Skip(w)
Schedule(s) == Find(s) \/ (\E j \in JobId : TakeOff(s, j)) \/ Move(s)
RetryDead(o) == (\E j \in JobId : Replay(o, j)) \/ Unbury(o) \/ Requeue(o)

Next ==
  \/ \E p \in Producer : Push(p) \/ PushErr(p)
  \/ \E w \in Worker : Work(w) \/ Crash(w) \/ PopErr(w) \/ Signal(w)
  \/ \E s \in Scheduler : Schedule(s) \/ MoveErr(s)
  \/ \E j \in JobId : FallDue(j)
  \/ \E o \in Operator : RetryDead(o) \/ ReplayErr(o)

Spec == Init /\ [][Next]_vars

\* Every loop goes on, handlers end (they have a timeout) and time passes; a replay
\* that has begun is finished, unless ReplayErr ends it.
FairSpec ==
  /\ Spec
  /\ \A w \in Worker : WF_vars(Work(w))
  /\ \A s \in Scheduler : WF_vars(Schedule(s))
  /\ \A j \in JobId : WF_vars(FallDue(j))
  /\ \A p \in Producer : WF_vars(Push(p))
  /\ \A o \in Operator : WF_vars(Unbury(o) \/ Requeue(o))

--------------------------------------------------------------------------------
\* Where a job can be: on a list, or in the hand of a process.
Listed(j) == j \in ToSet(ready) \/ j \in delayed \/ dead[j] > 0

Held(j) ==
  \/ \E p \in Producer : push[p].id = j /\ push[p].at \in {"note", "enqueue"}
  \/ \E w \in Worker : j \in IdsOf(w)
  \/ \E s \in Scheduler : moving[s] = j
  \/ \E o \in Operator : replay[o] = [id |-> j, at |-> "push"]

\* A job that is stored is on a list or in somebody's hand, unless the process that
\* had it in hand failed or ended there: a worker or producer, a scheduler after zrem,
\* a replay after lrem.  Short of that the single commands that pass a job on, two
\* processes at once too, never drop it between them.
NothingVanishes == \A j \in stored : Listed(j) \/ Held(j) \/ j \in lost

\* Every job that is stored is finished, dead or lost at some time, as long as a
\* worker is left: it does not wait or go round for ever.
JobsSettle ==
  \A j \in JobId : j \in stored ~> \/ j \notin stored \/ dead[j] > 0 \/ j \in lost
                                   \/ \A w \in Worker : At(w, "gone")

\* What jobs.rs says of running jobs (lines 16 and 188): one whose worker does not
\* finish it is taken back and runs again.  On Redis reclaim_stale does nothing.
PoppedJobComesBack ==
  \A w \in Worker, j \in JobId : j \in IdsOf(w) ~> j \notin stored \/ Listed(j)

\* What jobs.rs says of workers (lines 13 and 166): no two have the same job.
ClaimedOnce == \A v, w \in Worker : v # w => IdsOf(v) \cap IdsOf(w) = {}

\* What enqueue says of dedupe_key (jobs.rs, lines 15 and 344): a push that repeats
\* another is answered with the job there is and makes none of its own.  Between hget
\* and hset a second producer finds no entry either.
KeyedOnce ==
  \A p, q \in Producer :
    p # q /\ push[p].key = push[q].key /\ push[p].key # NoKey => push[p].id = 0 \/ push[q].id = 0

\* The places where job j is.
Spots(j) ==
  ({"list"} \X {l \in {"ready", "delayed", "dead"} :
                  \/ l = "ready" /\ j \in ToSet(ready)
                  \/ l = "delayed" /\ j \in delayed
                  \/ l = "dead" /\ dead[j] > 0})
  \cup ({"producer"} \X {p \in Producer : push[p].id = j /\ push[p].at \in {"note", "enqueue"}})
  \cup ({"worker"} \X {w \in Worker : j \in IdsOf(w)})
  \cup ({"scheduler"} \X {s \in Scheduler : moving[s] = j})
  \cup ({"operator"} \X {o \in Operator : replay[o] = [id |-> j, at |-> "push"]})

Ids(hand) == [i \in DOMAIN hand |-> hand[i].id]
Once(seq, j) == \A i, k \in DOMAIN seq : seq[i] = j /\ seq[k] = j => i = k

\* The jobs that zrem and lrem have always found.
Clean == JobId \ ignored

AtOneSpot == \A j \in Clean : \A a, b \in Spots(j) : a = b
ReadyOnce == \A j \in Clean : Once(ready, j)
DeadOnce == \A j \in Clean : dead[j] <= 1
HandsOnce == \A j \in Clean, w \in Worker : Once(Ids(worker[w].hand), j)

\* A job is in one place at a time and there once, so that no two workers have it
\* (jobs.rs, line 13), unless an answer was ignored: zrem of a scheduler or lrem of a
\* replay did not find the job and it was pushed all the same.  Nothing else makes a
\* copy: not the races between single commands, no crash and no failed command.
OneCopy == AtOneSpot /\ ReadyOnce /\ DeadOnce /\ HandsOnce

\* What OneCopy rests on: ids are given out in turn, and a replay without a job in hand
\* is known.
Numbered == \A j \in Clean : Spots(j) # {} => j <= counter
CopyKnown == \A o \in Operator : replay[o].at = "copy" => replay[o].id \in ignored

CopyInv == OneCopy /\ Numbered /\ CopyKnown

--------------------------------------------------------------------------------
(* The inductive invariant behind the types and NothingVanishes *)

\* A worker past pop has a job, and what it sets back has attempts to spare; it has
\* popped no more than it has looked at.
HandInv ==
  \A w \in Worker :
    /\ worker[w].at \notin {"pop", "gone"} => worker[w].hand # <<>>
    /\ At(w, "pop") => Len(worker[w].hand) <= worker[w].looked
    /\ At(w, "set") => InHand(w).attempts <= MaxAttempts

\* Producers and the replays know the id they are about.
PushInv == \A p \in Producer : push[p].at \in {"note", "enqueue"} => push[p].id \in JobId
ReplayInv == \A o \in Operator : replay[o].at # "idle" => replay[o].id \in JobId

IInv == TypeOK /\ HandInv /\ PushInv /\ ReplayInv /\ NothingVanishes
================================================================================

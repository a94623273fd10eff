# Formal models of sz-rust

sz-rust is a web framework in Rust (axum and SZ-ORM, shaped after ThinkPHP): about 54 crates under
`packages/`, and `sz-rust-sz300`, a point-of-sale product built on them. Most crates transform data
(routing, validation, templates, code generation) or adapt external services. The parts whose
correctness depends on *when* things happen are few, and they are what this directory is about: the
job queue, the distributed transactions, the circuit breakers, the outbox, the workflow engine and
the token stores. Paths below are relative to `packages/`.

## 1. Inventory

### Parts with protocols of their own

**Job queue on the database** (`sz-rust-orm-facade/src/jobs.rs`, `jobs/backend_db.rs`).
*State*: the table `sz_jobs` (status, attempts, run_after, locked_until) and, in each worker loop,
the batch it claimed. *Operations*: `enqueue`, `enqueue_delayed`, `retry_dead`, and per round of
`run_worker` `reclaim_stale`, `pop`, a handler for each job, `ack` or `fail`. *Interaction*: any
number of producers and workers in any number of processes share the table and nothing else.
*Hard*: leases that run out while a worker still works, acks that come late, crashes and lost
commit answers, a bounded number of retries over all of that. *Correct if*: a job is claimed by one
worker at a time, tried a bounded number of times, run again after success only when a worker was
lost, and settled in the end.

**Job queue on Redis** (`jobs/backend_redis.rs`). The same interface over lists, a sorted set and
one key per job. *State*: `ready`, `delayed`, `dead`, one key per job, the counter and the dedupe
hash. *Operations*: those of the queue, and `move_expired_delayed` on every server. *Hard*: every
operation is several commands that interleave and may end between any two; a popped job is on no
list and `reclaim_stale` does nothing; `move_expired_delayed` ignores what `zrem` answers and
`retry_dead` what `lrem` answers, so a job may be in the queue twice. *Correct if*: a job is lost only
with the process that has it in hand, is in one place unless one of these two has copied it, and is
settled in the end. It does not keep what `jobs.rs` promises of every backend (section 3).

**Priority queue worker** (`jobs/worker.rs`). Drains several queues in the order of their priority
and looks at the shutdown flag between jobs. *Hard*: a signal in the middle of a batch.

**Saga** (`sz-rust-distributed-tx/src/saga.rs`; in use in `sz-rust-sz300/src/services/saga_order.rs`).
*State*: the step results and completed indices of one transaction, its row in `sz_dtx_log`, and what
the participants (order, stock, payment) have done. *Operations*: forward actions in order, at the
first failure compensations in reverse, each tried up to `compensate_retries` times; the log row is
written before and once more after. *Hard*: timeouts and answers that are lost after the participant
has acted, compensations that fail, crashes between any two steps. *Correct if*: the log never knows
less than the participants have done, and what the caller is told is true.

**TCC** (`tcc.rs`). *State*: the phase and the answers of the participants. *Operations*: try in
order; confirm in order if all reserved; else cancel in reverse. *Hard*: a call that times out may
have acted or act later; a confirm that fails half way leaves some committed. *Correct if*: the
outcome is true of every participant as far as the answers tell, and exactly true where they leave no doubt.

**Parallel saga** (`parallel_saga.rs`). *State*: the layers made of the dependency graph, the step
results, the set of marked compensations. *Operations*: sort, run a layer concurrently, compensate
backwards. *Hard*: a step fails while others of its layer run; cycles and unknown names in the graph.
*Correct if*: steps follow their dependencies and are undone before them, and the result is true.

**Transaction log** (`persistence.rs`). The log's in-memory store and `TxLogger`, whose `recover`
lists unfinished transactions. Nothing resumes them.

**Circuit breaker** (`sz-rust-middleware-facade/src/circuit_breaker.rs`). *State* behind one mutex:
Closed, Open or HalfOpen, a ring of 60 time buckets, when Open began, the results of the probes.
*Operations*: `can_request` before a request, `record_success` or `record_failure` after it. *Hard*:
requests are under way for any time and report in whatever state the breaker is by then, or never.
*Correct if*: it opens on the rate of the last window and nothing else, turns requests away only
while it cools down, and always tries again.

**Gateway breakers and limiters** (`sz-rust-api-gateway`): `slow_call_breaker.rs` (counts probes when
they start, so one that never reports keeps its place), `middleware.rs` (state and opened_at behind
separate locks), sliding window, leaky bucket and multi-dimension limits.

**Outbox** (`sz-rust-sz300/src/services/outbox.rs`). *State*: the rows of `outbox_event` and the
batch of each dispatcher. *Operations*: claim by lease, deliver, mark. *Hard*: one lease of 30 s for
up to 100 deliveries one after the other; marks by id alone; receivers that act and are not heard.
*Correct if*: what is marked delivered has arrived, a second arrival has a cause, and every event
settles.

**Workflow engine** (`sz-rust-workflow`). *State*: one instance with a version, its tasks.
*Operations*: `handle`, `start`, `suspend`, `resume`, `terminate`. *Hard*: tasks are read, checked and
updated without a lock, and creating those of the next node may fail half way; the instance has a
version whose result `advance_node` ignores and `suspend`/`resume`/`terminate` respect. *Correct if*:
no node is skipped, everybody is asked, and a halted instance is not moved by a call from before.

**Refresh tokens and sessions** (`sz-rust-auth-facade/src/refresh.rs`). Rotation, the limit on
devices and revocation over four stores that are updated one after the other.

**Smaller state machines**: key rotation (`sz-rust-key-rotation`), chunked upload
(`sz-rust-upload/src/chunk.rs`), the queue consumer and the shutdown manager
(`sz-rust-core/src/runtime`).

### Parts without

Routing, MVC, HTTP, validation, configuration, cache and session drivers, payment adapters, LLM and
RAG adapters, observability, code generation and CLI, plugin loader and marketplace, the business
addons and user interfaces. They are listed one by one, with the reason, under `components` in
`PROJECT.json`.

### How the parts interact

The saga of sz300 calls the orchestrator of `sz-rust-distributed-tx` and logs through its
`TxLogStore`. The job queue, the outbox and the log are separate tables with separate workers; no
component calls another's worker, so each can be modelled with its own database and clients. The
circuit breaker wraps HTTP handlers as middleware and shares nothing with the others. `hazards` in
`PROJECT.json` lists what can go wrong in each, at its line.

## 2. Modules

| Module | What it is |
| --- | --- |
| `JobLifecycle` | Abstract specification: what the queue promises about a job |
| `JobQueue` | The table and the worker loops; refines `JobLifecycle` when well sized |
| `MCJobQueue` | Worker symmetry for TLC |
| `JobQueueProofs` | Theorems about `JobQueue`, when it is well sized and in any configuration |
| `Saga` | One saga with its log row and its participants |
| `MCSaga` | The three steps of the order saga |
| `SagaProofs` | Theorems about `Saga` |
| `CircuitBreaker` | The breaker and the requests that pass through it |
| `CircuitBreakerProofs` | Theorems about `CircuitBreaker` |
| `Tcc`, `TccProofs` | One TCC transaction; theorems about it |
| `ParallelSaga`, `ParallelSagaProofs` | One parallel saga over any dependency graph; theorems about it |
| `MCParallelSaga` | All graphs over three steps |
| `Approval`, `ApprovalProofs` | One instance of an approval flow and concurrent calls; theorems about it |
| `MCApproval` | Two approval nodes, or one and-sign node, and the symmetry of tasks and calls |
| `Delivery` | Abstract specification: what the outbox promises about an event |
| `Outbox`, `OutboxProofs` | The outbox table, its dispatchers and the receiver, which refine `Delivery`; theorems about it |
| `RedisQueue`, `RedisQueueProofs` | Lists, keys and the processes of the queue on Redis with the priority worker; theorems about it |

### JobQueue

`status`, `attempts`, `delay`, `lockAge` are the columns of the table, with time relative to now:
`delay` is what is left until `run_after`, `lockAge` how long ago the lease was written (−1 when
`locked_until` is NULL). `pc`, `claim`, `outcome`, `elapsed` are the local state of each `run_worker`.
An action is one SQL statement or transaction, or the end of a handler:

| Action | Code |
| --- | --- |
| `Push` | `push`, from `enqueue` or `enqueue_delayed`; meeting a `dedupe_key` is a stuttering step |
| `RetryDead` | `retry_dead` |
| `ReclaimStale` | `reclaim_stale` |
| `Pop` | `pop`, the whole transaction |
| `LosePop` | `pop` that commits and returns an error |
| `Handle` | the handler returns, times out, or there is none |
| `Ack`, `Fail` | `ack`, `fail`: unconditional updates by id, then the next job |
| `Exit`, `Restart` | crash, an error of `ack`/`fail` (`?`), shutdown; a new process |
| `Tick` | the clock |

`done`, `losses` and `revives` only count for the properties. `Stalls` chooses between workers that keep
their timers (no handler outlives its timeout; `ack` and `fail` take no time worth counting) and workers that may
be arbitrarily slow. `WellSized` says that the timers are kept and a batch fits into two leases,
`BatchSize * HandlerTimeout <= 2 * Lease` (two, because `locked_until` is a lease ahead of the claim
and `reclaim_stale` waits for one more).

Left out: payload, kind and error text; `SKIP LOCKED` meeting a transaction that is rolled back later
(the rows it kept locked are skipped for one round); a failed statement that changed nothing
(a stuttering step or a repeated round).

### Saga

`pc`, `completed`, `todo`, `attempt` and `report` are the locals of the orchestrator and of
`create_with_saga`, `log` the state column of the row, `verdict` the result under way to the caller.
`effect[s]` is what the participant of step `s` has done: +1 for the forward action, −1 for every
compensation that is not idempotent. A call and its answer are separate actions (`Act`, then
`ForwardOk`, `ForwardErr` or `ForwardTimeout`), so an answer can be lost after the effect, and a call
that was dropped may be carried out later (`LateEffect`). `Leaky` steps may fail and leave their
effect; `Idempotent` ones may be compensated twice. A crash is possible everywhere, and nothing
follows it, as nothing in the code resumes a transaction.

Left out: the payload the steps hand on to each other; a `tx_log` of `None` (the callers give one);
`execute` without a log.

### CircuitBreaker

Each method is one action because it holds the mutex. The ring has `Buckets` buckets with an age
instead of an epoch, and one tick is one bucket width; a breaker method never sees the clock run
backwards (`Instant`). `inFlight` counts the requests let through that have not reported; they are not told
apart, as the code does not. `seen` (what was recorded, by age) and `admitted` are history variables
that the code does not have. `probe_results` is a number: a failure clears it, so only successes are
ever in it.

### Tcc

`answers[p]` is the `ParticipantResult` of `p` by call (try, confirm, cancel), `did[p]` the calls its
participant has carried out, `late` the calls nobody waits for any more. `At(p, c)` is the place in
the two loops and the cancel loop where the call is made; `AnswerOk`, `AnswerErr` and `Timeout` are
the ends of `run_with_timeout`; `TurnBack` starts `execute_cancel` with the participants the code picks
(`ToCancel`: those that reserved and are not known to have confirmed). `OutcomeTellsTruth` says no more
than the code can know: a participant whose answer left doubt (timed out, or `Leaky`) is excepted
and only one can be, as the first failure turns back. What is excepted there is not correct for that:
a participant may confirm too late for the timer and then be cancelled, against the comment above
`execute_confirm` (`CommittedStays`, which does not hold). `AtomicUnlessFailed` is about the outcomes whose
answers leave no doubt, and excepts nobody: `Completed` if and only if all have committed, `Cancelled`
if and only if all are free; what is left is `Failed`, where the first participants have committed and a
reservation stays only where its cancel answered Err.

### ParallelSaga

`AddLayer` is one round of `topological_groups`, `Refuse` its error; `deps` is chosen at the
beginning. Steps of the current layer (`level`) run concurrently and `Joined` is `join_all`: nothing
goes on before all have reported. `Mark`, `CompensateOk`, `CompensateErr` are the compensation loop;
within a layer its order is that of `join_all` and left open. The rest is as in `Saga`. The mark is set
before the loop that repeats the call, and each step is in the outer loop once, so it never finds a
step marked and does not hold up the repetitions: a compensation that works and answers Err works again, and the
step is reported `Compensated` although it has been undone twice. `VerdictTellsTruth` bounds that by the number of
retries; the promise itself is `CompensatedOnce` (run `parallel_saga_retried`).

### Approval

One instance with approval nodes in a row, each with its strategy and seats. A call is a row of
repository calls and each `.await` of one is a step: `Take`, `Load`, `Update`, `ListComplete` or
`ListOther`, `Create` for each task, `Save` for `handle`; `GiveOrder`, `SaveOrder` or `Conflict`,
`Invalidate` for the manager. `copy` is the instance the call read at its beginning and writes back
at its end. `Fail` ends a call anywhere. `agreed` is a history variable.

`EverybodyAsked` says that the tasks are there, not that they were there when somebody first agreed:
an and-sign node whose first approval comes before `create_tasks` is done is complete with one, and so
is one whose other tasks were transferred, as `transfer` creates no task for anybody. The docs ask for
all candidates (`AllCandidatesAgree`, run `approval_all_agree`, with approvals alone).

What the model also shows, and no run asserts, since no doc promises the opposite: a versioned write
that `advance_node` drops may be the one to the end, and the instance stays running with all tasks
done; a task left over at an or-sign node moves the instance back when handled; a completed instance
can be terminated; `add_sign` and `withdraw` count as approvals.

### Outbox

`leased` and `waiting` are `locked_until` and `next_retry_at` compared with the clock; `Lapse` and `Wake`
may come at any time, `Lapse` under a dispatcher too. `Claim` is one transaction; `seen` is the
`attempts` the row had before it. `DeliverUnheard` is a receiver that got the event and whose answer
was not 2xx, late or lost; the request may also still be under way (`late`) and arrive at any time
(`ArriveLate`). `excused` holds the events something went wrong with: a lapse under a
dispatcher, a lost dispatcher or mark, an unheard answer. `arrived` counts to two.
`Delivery` knows nothing of leases, back-off and batches. There an event that is not in doubt has one
holder, arrives once and is settled once; the events in doubt are the `excused` ones, the holders of
an event the dispatchers that have it in their batch.
`excused` allows a second arrival and a put-back after a lapse, as nothing in the code forbids them;
`Delivery` says that they have no other cause. `event.attempts` is the count before the claim, although
its comment says that it includes this one, so an event is tried `MAX_ATTEMPTS + 1` times
(`TriedWithinLimit` does not hold).

### RedisQueue

Each Redis command others can see is a step: `Look`, `Store`, `Note`, `Enqueue` of `push`; `Find`,
`TakeOff`, `Move` of `move_expired_delayed`; `Pop`, which is `rpop` with the `get` that follows; `Ack`;
`Fail`, `Bury` or `SetBack` and `Delay`; `Replay`, `Unbury`, `Requeue` of `retry_dead`. A batch ends when the
list is empty or `looked` has reached `batch_size`; a popped job that is gone counts (`Empty` if all were).
`Backoff` is FALSE for a back-off of zero, when `Delay` pushes to `ready` at once. `Handle`, `Skip` and
`Signal` are the worker and its signal; `Crash`, `PopErr`, `PushErr`, `MoveErr`, `ReplayErr` are what goes
wrong, between `lrem` and `lpush` of a replay too.

Between two commands the job is in nobody's hand but the process's: `hand`, `push`, `moving`, `replay`, and
`lost` when the process goes. `NothingVanishes` is the sum of these: nothing is lost but with a process
that has it in hand, and `zrem` without a look at its answer, two schedulers and two workers
with the same job in hand never drop a job, they only double it.

Several operators may replay, and any id: `retry_dead` does not ask whether the job is dead, and goes on
when `lrem` has removed nothing. Such a replay has no job in hand (`"copy"`). `move_expired_delayed`
goes on in the same way when `zrem` has. The history `ignored` has the ids that one of the two did not
find, and `OneCopy` is about the others, the `Clean` jobs: whatever else happens, they are in one place.
What is `lost` or has a copy is against `jobs.rs`, which speaks for both backends: `PoppedJobComesBack`
(crashed work is run again), `ClaimedOnce` (no two workers have a job) and `KeyedOnce` (a `dedupe_key`
makes one job) do not hold.
Not asserted: a dedupe entry stays after the job is acked, so a key is used once for ever; `fail` of
one of two copies sets the job key again after the `ack` of the other.

## 3. Runs

| Run | Shows |
| --- | --- |
| `jobqueue_sized` | Well sized, 2 jobs, 2 workers, batches of 2, one loss, one replay: types, `ExclusiveClaims`, `AttemptsBudget`, `RepeatsOnlyAfterLosses`, refinement of `JobLifecycle`, and `EveryJobSettles` |
| `jobqueue_stalls` | The same with stalling workers: what survives is `SucceededHasRun` and `AttemptsFence` |
| `saga_timed` | 3 steps, 3 attempts, timers: `LogTellsTruth`, `VerdictTellsTruth`, `UndosBounded`, `UndoInReverse`, `SagaEnds` |
| `breaker` | 3 buckets, cooldown 2, 2 probes, 3 requests at a time: `RingIsWindow`, `TripsOnRecentRate`, `OpenGivesWay` |
| `tcc` | 3 participants, one leaking, a timer: `OutcomeTellsTruth`, `OnlyAgreedCommits`, `AtomicUnlessFailed`, `TccEnds` |
| `parallel_saga` | Every graph over 3 steps, and one with unknown names: `DependenciesFirst`, `VerdictTellsTruth`, `DependentsUndoneFirst`, `RefusesCycles` (the sort against `Acyclic`), `EndsOrRefuses` |
| `parallel_saga_retried` | No timer, none leaking: `CompensatedOnce` is **violated** |
| `approval` | 2 requests, an or-sign and an and-sign node, 2 seats each: `NoNodeSkipped`, `EverybodyAsked`, `HaltedStaysPut` |
| `approval_all_agree` | 1 and-sign node, 2 seats, approvals only: `AllCandidatesAgree` is **violated** |
| `outbox` | 2 events, 2 dispatchers, batches of 2, one fault: refinement of `Delivery`, `EventsSettle` |
| `redis_queue` | 1 producer, 2 workers, 2 schedulers, 1 operator, batches of 2, one fault, one replay: `NothingVanishes`, `OneCopy`, `JobsSettle` |
| `redis_worker_lost` | 2 workers, one is lost: `PoppedJobComesBack` is **violated** |

### Where docs and code disagree

Three runs report a violation, described with the lines it contradicts under `findings` in
`PROJECT.json`:

* on Redis, a worker is told to stop with a popped job in hand, which is then on no list for ever, although
  `jobs.rs` (lines 16 and 188) says that such jobs are taken back (`redis_worker_lost`);
* the mark that is to make compensation idempotent is set outside the loop that repeats it, so the
  step reported `Compensated` has been undone twice (`parallel_saga_retried`);
* the first of two candidates approves while the task of the second is still being created, and the
  and-sign node is over (`approval_all_agree`).

There are eight more disagreements of a comment and the code. They are not among the runs of
`PROJECT.json`; each has a configuration that makes TLC print the trace in a few seconds:

| Configuration | Property | What the trace shows | What says otherwise |
| --- | --- | --- | --- |
| `JobQueueDefaults.cfg` | `ExclusiveClaims` | a batch may last longer than two leases with the default sizes, so a second worker claims what the first still has; nobody stalls or crashes | `jobs.rs:13` |
| `SagaOrder.cfg` | `CompensatedIsRolledBack` | `execute_compensate` visits completed steps only, and the one that failed half way keeps its rows | `saga_order.rs:631` |
| `CircuitBreakerProbes.cfg` | `ProbesAreLimited` | `can_request` compares with the probes that have reported, so more than `probe_requests` are let through | `circuit_breaker.rs:64` |
| `TccTimeout.cfg` | `CommittedStays` | a participant confirms, the timer fires before its answer, and it is cancelled | `tcc.rs:195` |
| `OutboxLimit.cfg` | `TriedWithinLimit` | `mark_failed` is given the attempts from before the claim: one delivery more than `MAX_ATTEMPTS` | `outbox.rs:33` |
| `RedisTwoSchedulers.cfg` | `ClaimedOnce` | two servers move one delayed job, as nobody looks at what `zrem` answers, and two workers have it | `jobs.rs:13`, `jobs.rs:166` |
| `RedisReplayed.cfg` | `ClaimedOnce` | a job that is not dead is replayed, as nobody looks at what `lrem` answers, and two workers have it | `jobs.rs:182`, `jobs.rs:372` |
| `RedisDedupe.cfg` | `KeyedOnce` | two producers look for a key before either has written it, and both make a job | `jobs.rs:15`, `jobs.rs:344` |

### Bounds, and why they are enough

*JobQueue.* Two workers are what a race needs, and two jobs what a batch with a tail needs; in
`JobQueueDefaults.cfg` three jobs make the batch longer than two leases. `MaxAttempts = 1` gives one
retry and then the dead letter; `MaxLosses` and `MaxRevives` of 1 are enough for a crash and a replay
to meet the retry limit. `AttemptBound` keeps `attempts` finite where overtaken
workers can pump it: in `jobqueue_stalls` a row with 3 attempts is not claimed again, in the sized run the
bound of 5 is never reached, as `AttemptsBudget` shows. Lease, timeout and backoff are one tick, the smallest
values for which "before", "at" and "after" a comparison differ.

*Saga.* Three steps as in the code, `Retries = 3` as in the code. Nothing is bounded otherwise.

*CircuitBreaker.* Three buckets have a current, an old and an oldest one and let the ring wrap;
`CountMax = 2` stands for the saturation of the counters (the history saturates alike, so that
the rates can be compared), `MaxInFlight = 3` is one request more than there are probes.

*Tcc, ParallelSaga.* Three participants or steps let one fail between two others; the graphs over
three steps hold every shape with a cycle, a chain, a fork and a join. Nothing is bounded otherwise.

*Approval.* Two calls are what a race needs; one of two nodes is or-sign and one and-sign; four task
ids are enough for both nodes once, or for one of them twice. `MaxVersion = 3` bounds the orders, not `handle`:
suspend, resume and one more, or two races. `add_sign` and `withdraw` are as `approve` and left out of the run.

*Outbox.* Two events are what order in a batch needs; `MaxAttempts = 1` gives a retry and a dead letter;
attempts past `MAX_ATTEMPTS` are not told apart by the code. One fault, besides lapses and unheard answers, which are not bounded.

*RedisQueue.* There is one job (`MaxJobs`) and one producer: jobs touch each other only through a batch, and
two copies of one job fill a batch of 2. Two schedulers and two workers are what doubles it and lets
the copies race; a replay of a job that is not dead makes a third copy. One fault leaves a worker to finish.
A second producer with the same key comes in `RedisDedupe.cfg`, a second replay in `RedisReplayed.cfg`.

### Fairness

*JobQueue.* Weak fairness of the clock and of each step of a live loop: tokio schedules every task,
`run_worker` puts a timeout around each handler, and a statement returns. No fairness of producers,
the operator, `Exit` or `Restart`. With `MaxLosses = 1` one of two workers stays, which is what
`EveryJobSettles` needs: a queue all of whose workers are gone settles nothing.

*Saga.* The task is scheduled and the store answers; a forward call is cut short by its timer, and a
compensation, which runs without one, is assumed to answer (with or without success). A participant is not assumed to act.

*CircuitBreaker.* Time goes on; requests keep arriving, and each ends or loses its client. Late
results are not assumed to stop.

*Tcc, ParallelSaga.* As for the saga; every call has the timer, compensations of the parallel saga
run without one and are assumed to answer (that they need not is a hazard no run shows). *Outbox.* The loop of `spawn_dispatcher` goes on, the handler
answers, time passes; receivers need never accept. *RedisQueue.* The loops go on, handlers end by their timeout,
time passes, and a replay that has begun is finished or fails (`ReplayErr`); not that anyone pushes, replays or signals. A
queue all of whose workers are gone settles nothing. *Approval* has no liveness: a flow waits for people.

## 4. Proofs

The theorems hold for every value of the constants that satisfies the `ConstantsAssumption` of the
module; the first five of `JobQueueProofs`, but for the types, also for `WellSized`.

**JobQueueProofs.** `ClaimsAreExclusive`, `AttemptsWithinBudget`, `RepeatsNeedLosses` and
`QueueImplementsLifecycle` rest on `IInv`. None of these is inductive by itself. The heart of `IInv`
is `HeldInTime`: a job in the batch of a worker was claimed so recently that the timeouts of all the
jobs the batch still has fit before `BatchSize * HandlerTimeout` ticks are over; with `WellSized` its lease
age is at most two leases and `reclaim_stale` cannot see it (`HeldNotReclaimable`). Hence nobody
else's `pop` finds it either, a held job is running under the number its holder read, and a late ack
does not exist. `AttemptsLeft` and `RepeatsLeft` say that what may be claimed or run again has
something of its budget to spare. There is a lemma for each action; the refinement maps
`holders[j]` to the workers that hold `j`, and every action to the abstract one of the life cycle or a stutter.

**SagaProofs.** `LogIsTrue`, `VerdictIsTrue`, `UndosAreBounded` and `UndosAreInReverse` rest on an
`IInv` of five named parts: `BookInv` (step results and the two loops agree), `EffectInv` (what the
effect of a step can be, given its result), `LoopInv` (the compensation loop has touched only the
step it is at, at most once per attempt), `AbandonedInv` (a call that may still take effect has not, and
only a crashed or timed-out saga has one) and `PhaseInv` (log, verdict and phase agree). There is one
lemma for each part.

**JobQueueProofs, in any configuration.** `SuccessIsEarned`, `LeasesAreOfRunningRows` and `AttemptsAreAFence` need no
assumption about sizes or timers. Their invariant `StallInv` adds one part to the first two
properties, `AckIsEarned`: a worker on its way to `ack` has a handler that returned Ok behind it, and
`ack` is the only way to `Succeeded`, late or not.

**CircuitBreakerProofs.** `RingIsWindow` is inductive on top of the types: `record` empties the bucket
it reuses (`RecordKeepsWindow`), and a tick turns the ring by one and ages every bucket by one, so
that the bucket that becomes current is either a full turn old or already stale
(`TickKeepsWindow`). `OnlyCoolingRejects` follows from the type of `probes` alone, the bound that
`record_success` keeps by closing the breaker in time. `OpensOnRecentRate` says that the sum over the
buckets the code takes is the sum over the window. `Total` counts pairs of a bucket and a number
instead of adding, so that the two sums are equal because there is a bijection between them, from
each age to the bucket that has it (`TotalByAge`), and no induction over the ring is needed.

**TccProofs.** `OutcomeIsTrue`, `CommitsAreAgreed` and `CancelsAreInReverse` rest on an `IInv` of four
parts besides the types: `OrderInv` (tries and confirms are answered in order), `PhaseInv` (the phase is what the answers make
it), `LoopInv` (the cancel loop has visited exactly what it has left behind) and `DidInv` (what a
participant can have done, given its answers and its late calls). `CertainIsTold` is about the outcomes
that no answer leaves in doubt: `DidIsAnswered` makes what a participant has done a matter of its
answers, `EndAnswers` says what these can be when the transaction is over, and `EndKinds` that each
participant is then committed, reserved or free. The theorem puts the phases next to these, `Failed`
included, and does not claim that `Failed` is all or nothing. It assumes nothing of the constants.

**ParallelSagaProofs.** `PlanInv` (the layers respect the graph), `GroupInv` (what has run is of layers up to
`level`), `LoopInv` and `EffectInv`. `OnlyCyclesRefused` needs `SortInv`, that no layer is empty and
whoever refuses finds nothing ready: in a graph without a cycle the remaining steps have a rank, the
one of least rank has all its dependencies in earlier layers, and so it would be ready.

**Termination.** `WorkDoesRunOut` of `SagaProofs`, `TccProofs` and `ParallelSagaProofs` is the part of
"it ends" that needs no fairness: `Work`, a natural number made of the phases left, the calls nobody
has answered, the attempts compensations have left and the calls still under way, is bounded by the
sizes and gets smaller with every step. Nothing in an orchestrator can therefore go round; what is
left to TLC is that it is not stuck before the end.

**Sound participants.** `SoundStepsRollBack` of `SagaProofs` is the other half of what `SagaOrder.cfg`
shows: if no step fails after it has acted, no timer cuts one short and every compensation may
be repeated, then `Compensated` does mean rolled back, for any number of steps. The order saga has
steps that break the first and the third. In a parallel saga nothing is left then but what is reported as
`CompensateFailed`.

**ApprovalProofs.** The heart is `CopyInv`: a copy whose version is still the stored one *is* the stored instance, so
a write that finds its version finds nothing changed. `GoalInv` counts what a call has created and has
yet to create, which makes `EverybodyAsked` survive a call that fails half way, because the write comes last.

**OutboxProofs.** `BatchInv` (as long as nothing went wrong with an event, one dispatcher has it,
under a lease), `ArrivedInv`, `AnswerInv` and `LateInv` (a request under way is of an event in doubt)
give `ArrivalsAccounted`, and `OutboxImplementsDelivery` action by action: `Claim` is the abstract claim
because what is claimable is in nobody's batch or in doubt, a mark is the abstract verdict because
the answer in hand is about what has arrived, and lapses, back-off and lost claims are `Doubt` or
stutter.

**RedisQueueProofs.** `NeverVanishes`: `NothingVanishes` is inductive once the places a job can be in are typed: `HandInv` (a
worker past `pop` has a job, and sets it back only with attempts to spare), `PushInv` and `ReplayInv` (an
id in transit is a job's). One lemma, `Keeping`, says that a step that leaves every job where it is but for
those in a set `X`, and puts each of `X` somewhere, keeps the property; each command is shown to be such a
step with the job it moves as `X`. A replay has the job in hand from `lrem` to `lpush`, and if it
fails there the job is `lost`; one for which `lrem` found nothing has none to lose.
`CopiesNeedIgnoredAnswers` is the converse: a job that `zrem` and `lrem` have always found (`Clean`) is at
one of its `Spots`, and there once, for any number of schedulers and operators. It needs `Numbered`
(ids not yet given out are nowhere) and `CopyKnown` (a replay that has no job in hand is of an id in
`ignored`, so that what it pushes is not `Clean`). `IgnoredGrows` makes a job that is clean after a step
clean before it. `Taking`, `Passing` and `Copying` are the lemmas for a step that only takes a job away,
for one that passes it on from one spot to another, and for one that pushes a job that is not clean.

**Model-checked only.** Liveness (`EveryJobSettles`, `SagaEnds`, `OpenGivesWay`, `TccEnds`,
`EndsOrRefuses`, `EventsSettle`, `JobsSettle`), as the prover does not treat fairness. Every safety
property of a passing run has a theorem. Conversely no run lists what `CancelsAreInReverse`,
`OnlyCoolingRejects`, `LeasesAreOfRunningRows` and `ArrivalsAccounted` state, of which the last two follow
from what the runs check, nor the theorems on termination and sound participants, which need other
constants than the runs have. TLC agrees with each of them on instances of two or three steps or
participants. The properties that do not hold are, of course, not theorems.

## 5. Plan

Done: `JobLifecycle` and `JobQueue`, `Saga`, `CircuitBreaker`, `Tcc`, `ParallelSaga`, `Approval`,
`Delivery` and `Outbox`, and `RedisQueue` with their runs and proofs. Left, in this order:

1. `OrderSaga`: several sagas over the shared stock of a good, composed of instances of `Saga`;
   stock is conserved by sagas that end compensated without a retry.
2. `TokenRotation`: refresh, device limit and revocation over separate stores.
3. An abstract commit that `Tcc` implements with certain participants, and an abstract custody of jobs
   that `RedisQueue` implements for the jobs no answer was ignored for.
4. The gateway breakers, chunked upload and the queue consumer of the runtime, whose hazards are listed
   and which no module covers.

### Not modelled

What is under "Parts without" keeps no state of its own, or only a look-up table behind one lock, and
translating it would give a model with nothing to interleave. Refresh tokens, gateway breakers,
key rotation, chunked upload and the runtime are state machines and not modelled yet. The priority worker over several queues is,
for each of them, the loop of `RedisQueue`; what the order of priorities promises (nothing about
starvation) is not modelled. In the workflow engine nodes that are not approvals are passed over by
`advance_node`, which does nothing about them.

## 6. Running

```
tlc -config JobQueueSized.cfg MCJobQueue
tlc -config SagaTimed.cfg MCSaga
tlc -config CircuitBreaker.cfg CircuitBreaker
tlc -config JobQueueStalls.cfg MCJobQueue
tlc -config Tcc.cfg Tcc
tlc -config ParallelSaga.cfg MCParallelSaga
tlc -config Approval.cfg MCApproval
tlc -config Outbox.cfg Outbox
tlc -config RedisQueue.cfg RedisQueue

# these report a violation
tlc -config RedisWorkerLost.cfg RedisQueue
tlc -config ParallelSagaRetried.cfg MCParallelSaga
tlc -config ApprovalAndSign.cfg MCApproval

# so do these, which are not among the runs
tlc -config JobQueueDefaults.cfg MCJobQueue
tlc -config SagaOrder.cfg MCSaga
tlc -config CircuitBreakerProbes.cfg CircuitBreaker
tlc -config TccTimeout.cfg Tcc
tlc -config OutboxLimit.cfg Outbox
tlc -config RedisTwoSchedulers.cfg RedisQueue
tlc -config RedisReplayed.cfg RedisQueue
tlc -config RedisDedupe.cfg RedisQueue

tlapm JobQueueProofs.tla
tlapm SagaProofs.tla
tlapm CircuitBreakerProofs.tla
tlapm TccProofs.tla
tlapm ParallelSagaProofs.tla
tlapm ApprovalProofs.tla
tlapm OutboxProofs.tla
tlapm RedisQueueProofs.tla
```

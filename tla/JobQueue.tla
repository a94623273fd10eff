-------------------------------- MODULE JobQueue --------------------------------
(***************************************************************************)
(* The database job queue of sz-rust-orm-facade: the sz_jobs table         *)
(* (jobs/backend_db.rs) and the worker loops that drain it                 *)
(* (JobQueue::run_worker in jobs.rs).                                      *)
(*                                                                         *)
(* Each SQL statement or transaction is one action; what happens between   *)
(* two of them is an interleaving point.  Time is counted in ticks: delay  *)
(* is what is left until run_after and lockAge how long ago locked_until   *)
(* was written, so no clock value is needed.  A job stands for a row, and  *)
(* its number for its place in ORDER BY created_at; an enqueue that meets  *)
(* the row of its dedupe_key leaves the table as it is: a stuttering step. *)
(***************************************************************************)
EXTENDS Integers, FiniteSets

CONSTANTS
  MaxJobs,         \* bound: rows the producers insert
  Worker,          \* the worker loops, over all processes
  BatchSize,       \* JobQueueConfig::batch_size
  MaxAttempts,     \* JobQueueConfig::max_attempts
  Lease,           \* JobQueueConfig::lease_seconds, in ticks
  HandlerTimeout,  \* JobQueueConfig::handler_timeout, in ticks
  BackoffBase,     \* JobQueueConfig::backoff_base_secs, in ticks
  BackoffCap,      \* JobQueueConfig::backoff_cap_secs, in ticks
  JitterPercent,   \* JobQueueConfig::jitter_ratio, in hundredths
  MaxDelay,        \* bound: the longest delay, of a backoff or of enqueue_delayed
  Stalls,          \* may a live worker or its database call be slower than its timers?
  MaxLosses,       \* bound: how often a worker loop ends or loses a batch it has claimed
  MaxRevives,      \* bound: how often the operator replays a dead job
  AttemptBound     \* bound: a row with this many attempts is not claimed again

ASSUME ConstantsAssumption ==
  /\ {MaxJobs, BatchSize, HandlerTimeout} \subseteq Nat \ {0}
  /\ {MaxAttempts, Lease, BackoffBase, BackoffCap, JitterPercent, MaxDelay,
      MaxLosses, MaxRevives, AttemptBound} \subseteq Nat
  /\ (100 + JitterPercent) * BackoffCap <= 100 * MaxDelay
  /\ Stalls \in BOOLEAN

VARIABLES
  \* the rows of sz_jobs
  status, attempts, delay, lockAge,
  \* each worker loop: where it stands, the jobs of its batch that are left
  \* (with the attempts read back by pop, 0 for the others), the verdict of the
  \* handler that just ended and how long the current handler has been running
  pc, claim, outcome, elapsed,
  \* history: how often the handler of a job returned Ok, and the bounded events
  done, losses, revives

rows == <<status, attempts, delay, lockAge>>
loops == <<pc, claim, outcome, elapsed>>
history == <<done, losses, revives>>
vars == <<status, attempts, delay, lockAge, pc, claim, outcome, elapsed,
          done, losses, revives>>

Job == 1..MaxJobs
Status == {"absent", "pending", "running", "succeeded", "dead"}
Phase == {"poll", "pop", "work", "report", "stopped"}
Outcome == {"ok", "temporary", "permanent"}
NotLocked == -1

TypeOK ==
  /\ status \in [Job -> Status]
  /\ attempts \in [Job -> Nat]
  /\ delay \in [Job -> Nat]
  /\ lockAge \in [Job -> Nat \cup {NotLocked}]
  /\ pc \in [Worker -> Phase]
  /\ claim \in [Worker -> [Job -> Nat]]
  /\ outcome \in [Worker -> Outcome]
  /\ elapsed \in [Worker -> Nat]
  /\ done \in [Job -> Nat]
  /\ losses \in Nat
  /\ revives \in Nat

Init ==
  /\ status = [j \in Job |-> "absent"]
  /\ attempts = [j \in Job |-> 0]
  /\ delay = [j \in Job |-> 0]
  /\ lockAge = [j \in Job |-> NotLocked]
  /\ pc = [w \in Worker |-> "poll"]
  /\ claim = [w \in Worker |-> [j \in Job |-> 0]]
  /\ outcome = [w \in Worker |-> "ok"]
  /\ elapsed = [w \in Worker |-> 0]
  /\ done = [j \in Job |-> 0]
  /\ losses = 0
  /\ revives = 0

--------------------------------------------------------------------------------
\* What the actions are built from.

\* The jobs left in the batch of worker w; the loop handles the oldest first.
Held(w) == {j \in Job : claim[w][j] # 0}
Current(w, j) == j \in Held(w) /\ \A k \in Held(w) : j <= k

\* Mutant: pop forgets to filter on the status.
Eligible_AnyUnfinished == {j \in Job : status[j] \in {"pending", "running"} /\ delay[j] = 0
                                        /\ attempts[j] < AttemptBound}

\* What pop's SELECT finds.
Eligible == {j \in Job : status[j] = "pending" /\ delay[j] = 0
                           /\ attempts[j] < AttemptBound}

\* The rows LIMIT batch_size lets through, oldest first.
Batch(S) ==
  /\ S \subseteq Eligible
  /\ Cardinality(S) <= BatchSize
  /\ S = Eligible \/ Cardinality(S) = BatchSize
  /\ \A j \in S, k \in Eligible \ S : j < k

\* Mutant: pop counts no further than max_attempts.
ClaimedAttempts_Capped(j) == IF attempts[j] < MaxAttempts THEN attempts[j] + 1 ELSE attempts[j]

\* What pop's UPDATE makes of the attempts, and reads back.
ClaimedAttempts(j) == attempts[j] + 1

\* Mutants: the row is reclaimed one lease after its claim; never.
Reclaimable_AtExpiry(j) == status[j] = "running" /\ lockAge[j] > Lease
Reclaimable_Never(j) == FALSE

\* reclaim_stale compares locked_until with now - lease, and locked_until is
\* already a lease ahead of the claim: two leases have to go by.
Reclaimable(j) == status[j] = "running" /\ lockAge[j] > 2 * Lease

\* backoff_delay_ms, rounded to ticks: base * 2^min(attempts, 6) up to the cap,
\* and up to JitterPercent more.
Backoff(n) ==
  LET grown == BackoffBase * 2 ^ (IF n < 6 THEN n ELSE 6)
      least == IF grown < BackoffCap THEN grown ELSE BackoffCap
  IN  {d \in 0..MaxDelay : least <= d /\ 100 * d <= (100 + JitterPercent) * least}

\* Mutants: one retry too many; a status that is none.
Verdict_OneMore(o, n) == IF o = "temporary" /\ n <= MaxAttempts + 1 THEN "pending" ELSE "dead"
Verdict_Misspelt(o, n) == IF o = "temporary" /\ n <= MaxAttempts THEN "pending" ELSE "failed"

\* fail retries a temporary error until max_attempts is exceeded.
Verdict(o, n) == IF o = "temporary" /\ n <= MaxAttempts THEN "pending" ELSE "dead"

\* The UPDATE that ends an attempt writes the status and drops the lease.
Settle(j, s) ==
  /\ status' = [status EXCEPT ![j] = s]
  /\ lockAge' = [lockAge EXCEPT ![j] = NotLocked]

--------------------------------------------------------------------------------
\* Producers and the operator.

\* enqueue and enqueue_delayed: a row is inserted.  created_at is read before the
\* INSERT runs, so rows need not appear in its order.
Push(j, d) ==
  /\ status[j] = "absent"
  /\ status' = [status EXCEPT ![j] = "pending"]
  /\ delay' = [delay EXCEPT ![j] = d]
  /\ UNCHANGED <<attempts, lockAge, loops, history>>

\* Mutant: retry_dead without its status filter.
RetryDead_AnyStatus(j) ==
  /\ revives < MaxRevives
  /\ status[j] # "absent"
  /\ Settle(j, "pending")
  /\ delay' = [delay EXCEPT ![j] = 0]
  /\ revives' = revives + 1
  /\ UNCHANGED <<attempts, loops, done, losses>>

\* retry_dead: a dead row is pending again, its attempts kept.
RetryDead(j) ==
  /\ revives < MaxRevives
  /\ status[j] = "dead"
  /\ Settle(j, "pending")
  /\ delay' = [delay EXCEPT ![j] = 0]
  /\ revives' = revives + 1
  /\ UNCHANGED <<attempts, loops, done, losses>>

--------------------------------------------------------------------------------
\* One round of a worker loop.

\* reclaim_stale.  A failed pop starts the round over, so it is also taken
\* from "pop"; a reclaim that fails starts the round over and changes nothing.
ReclaimStale(w) ==
  /\ pc[w] \in {"poll", "pop"}
  /\ status' = [j \in Job |-> IF Reclaimable(j) THEN "pending" ELSE status[j]]
  /\ lockAge' = [j \in Job |-> IF Reclaimable(j) THEN NotLocked ELSE lockAge[j]]
  /\ pc' = [pc EXCEPT ![w] = "pop"]
  /\ UNCHANGED <<attempts, delay, claim, outcome, elapsed, history>>

\* What the transaction of pop makes of the rows it selects.
MarkRunning(S) ==
  /\ status' = [j \in Job |-> IF j \in S THEN "running" ELSE status[j]]
  /\ lockAge' = [j \in Job |-> IF j \in S THEN 0 ELSE lockAge[j]]
  /\ attempts' = [j \in Job |-> IF j \in S THEN ClaimedAttempts(j) ELSE attempts[j]]

\* pop: one transaction selects, marks and reads back the batch.
Pop(w) ==
  /\ pc[w] = "pop"
  /\ \E S \in SUBSET Eligible :
       /\ Batch(S)
       /\ MarkRunning(S)
       /\ claim' = [claim EXCEPT ![w] =
                      [j \in Job |-> IF j \in S THEN ClaimedAttempts(j) ELSE 0]]
       /\ pc' = [pc EXCEPT ![w] = IF S = {} THEN "poll" ELSE "work"]
       /\ elapsed' = [elapsed EXCEPT ![w] = 0]
  /\ UNCHANGED <<delay, outcome, history>>

\* pop commits and fails all the same: the answer to the commit is lost, or a row
\* of the batch cannot be read (row_to_job).  The loop goes on to the next round
\* and the whole batch is left running.
LosePop(w) ==
  /\ pc[w] = "pop"
  /\ losses < MaxLosses
  /\ losses' = losses + 1
  /\ \E S \in SUBSET Eligible : Batch(S) /\ S # {} /\ MarkRunning(S)
  /\ pc' = [pc EXCEPT ![w] = "poll"]
  /\ UNCHANGED <<delay, claim, outcome, elapsed, done, revives>>

\* The handler of the current job ends: Ok, a temporary error (or the handler
\* timeout), a permanent one (or no handler for the job's kind).
Handle(w, j, o) ==
  /\ pc[w] = "work"
  /\ Current(w, j)
  /\ outcome' = [outcome EXCEPT ![w] = o]
  /\ done' = [done EXCEPT ![j] = IF o = "ok" THEN @ + 1 ELSE @]
  /\ pc' = [pc EXCEPT ![w] = "report"]
  /\ UNCHANGED <<rows, claim, elapsed, losses, revives>>

\* The loop goes on to the next job of its batch, or starts the next round.
NextJob(w, j) ==
  /\ claim' = [claim EXCEPT ![w][j] = 0]
  /\ pc' = [pc EXCEPT ![w] = IF Held(w) = {j} THEN "poll" ELSE "work"]
  /\ elapsed' = [elapsed EXCEPT ![w] = 0]
  /\ UNCHANGED outcome

\* Mutant: the loop acks whatever the handler returned.
Ack_AnyOutcome(w, j) ==
  /\ pc[w] = "report"
  /\ Current(w, j)
  /\ Settle(j, "succeeded")
  /\ NextJob(w, j)
  /\ UNCHANGED <<attempts, delay, history>>

\* ack: the row has succeeded, whatever its status was.
Ack(w, j) ==
  /\ pc[w] = "report"
  /\ outcome[w] = "ok"
  /\ Current(w, j)
  /\ Settle(j, "succeeded")
  /\ NextJob(w, j)
  /\ UNCHANGED <<attempts, delay, history>>

\* fail: back to the queue after a backoff or dead, whatever the row's status
\* was, judged by the attempts that pop read back.
Fail(w, j) ==
  /\ pc[w] = "report"
  /\ outcome[w] # "ok"
  /\ Current(w, j)
  /\ LET verdict == Verdict(outcome[w], claim[w][j])
     IN  /\ Settle(j, verdict)
         /\ \E d \in IF verdict = "pending" THEN Backoff(claim[w][j]) ELSE {0} :
              delay' = [delay EXCEPT ![j] = d]
  /\ NextJob(w, j)
  /\ UNCHANGED <<attempts, history>>

\* A worker loop ends and leaves its rows as they are: the process crashes, ack
\* or fail returns an error (run_worker's `?`), or the loop sees the shutdown flag.
Exit(w) ==
  /\ pc[w] # "stopped"
  /\ losses < MaxLosses
  /\ pc' = [pc EXCEPT ![w] = "stopped"]
  /\ claim' = [claim EXCEPT ![w] = [j \in Job |-> 0]]
  /\ elapsed' = [elapsed EXCEPT ![w] = 0]
  /\ losses' = losses + 1
  /\ UNCHANGED <<rows, outcome, done, revives>>

\* A new process runs the worker again.
Restart(w) ==
  /\ pc[w] = "stopped"
  /\ pc' = [pc EXCEPT ![w] = "poll"]
  /\ UNCHANGED <<rows, claim, outcome, elapsed, history>>

--------------------------------------------------------------------------------
\* A worker that keeps its timers: no handler outlives its timeout, and ack and
\* fail take no time worth counting.
OnTime(w) ==
  /\ pc[w] # "report"
  /\ pc[w] = "work" => elapsed[w] < HandlerTimeout

\* Time passes.  Ages past the last comparison are not told apart.
Tick ==
  /\ Stalls \/ \A w \in Worker : OnTime(w)
  /\ delay' = [j \in Job |-> IF delay[j] > 0 THEN delay[j] - 1 ELSE 0]
  /\ lockAge' = [j \in Job |-> IF lockAge[j] \in 0..(2 * Lease)
                               THEN lockAge[j] + 1 ELSE lockAge[j]]
  /\ elapsed' = [w \in Worker |-> IF pc[w] = "work" /\ elapsed[w] < HandlerTimeout
                                  THEN elapsed[w] + 1 ELSE elapsed[w]]
  /\ UNCHANGED <<status, attempts, pc, claim, outcome, history>>

Report(w) == \E j \in Job : Ack(w, j) \/ Fail(w, j)

Next ==
  \/ \E j \in Job, d \in 0..MaxDelay : Push(j, d)
  \/ \E j \in Job : RetryDead(j)
  \/ \E w \in Worker : ReclaimStale(w)
  \/ \E w \in Worker : Pop(w)
  \/ \E w \in Worker : LosePop(w)
  \/ \E w \in Worker, j \in Job, o \in Outcome : Handle(w, j, o)
  \/ \E w \in Worker : Report(w)
  \/ \E w \in Worker : Exit(w)
  \/ \E w \in Worker : Restart(w)
  \/ Tick

\* The runtime schedules every live loop, each handler ends (run_worker puts a
\* timeout around it), statements return and time goes on.  Nothing makes a
\* producer or the operator act, or restarts a worker.
Fairness ==
  /\ WF_vars(Tick)
  /\ \A w \in Worker :
       /\ WF_vars(pc[w] = "poll" /\ ReclaimStale(w))
       /\ WF_vars(Pop(w))
       /\ WF_vars(\E j \in Job, o \in Outcome : Handle(w, j, o))
       /\ WF_vars(Report(w))

Spec == Init /\ [][Next]_vars
FairSpec == Spec /\ Fairness

--------------------------------------------------------------------------------
\* Properties.

\* A configuration under which a live worker is done with its batch before
\* any of its rows can be reclaimed.  The defaults (10 jobs, 30 s, 60 s) are not one.
WellSized == ~Stalls /\ BatchSize * HandlerTimeout <= 2 * Lease

\* Claiming is safe for several workers (jobs.rs, line 13): no job sits
\* in the batches of two live workers at the same time.
ExclusiveClaims ==
  \A j \in Job : \A v, w \in Worker : j \in Held(v) /\ j \in Held(w) => v = w

\* max_attempts bounds the retries (jobs.rs, line 243) across any mix of backoff,
\* crash recovery and replay: a row is claimed at most max_attempts + 1 times,
\* and once more for each claim that lost its worker and each replay.
AttemptsBudget == \A j \in Job : attempts[j] <= MaxAttempts + 1 + losses + revives

\* Only a worker that goes away between its handler's Ok and its ack makes a
\* successful handler run again.
RepeatsOnlyAfterLosses == \A j \in Job : done[j] <= 1 + losses

\* A row is succeeded only if its handler returned Ok, even when late acks and
\* failures of overtaken workers overwrite each other.
SucceededHasRun == \A j \in Job : status[j] = "succeeded" => done[j] > 0

\* A row has a lease exactly while it is running: a running row without
\* one would never be reclaimed, and a pending row with one could not say whose it is.
LeasedIffRunning ==
  \A j \in Job : (status[j] = "running") = (lockAge[j] # NotLocked)

\* However late a worker is, it never shares a claim: two workers that
\* both hold a job read back different attempts, so the number could fence.
AttemptsFence ==
  \A j \in Job : \A v, w \in Worker :
    /\ claim[v][j] <= attempts[j]
    /\ v # w /\ j \in Held(v) => claim[v][j] # claim[w][j]

\* The queue implements the life cycle it promises.
Lifecycle == INSTANCE JobLifecycle WITH
  state <- status,
  holders <- [j \in Job |-> {w \in Worker : j \in Held(w)}]
ImplementsLifecycle == Lifecycle!Spec

\* Crash recovery and bounded retries: a job that was enqueued is settled in the
\* end, although its worker may go away with it.
Settled(j) == status[j] \in {"succeeded", "dead"}
EveryJobSettles == \A j \in Job : status[j] = "pending" ~> Settled(j)

--------------------------------------------------------------------------------
\* The inductive invariant of a WellSized configuration (JobQueueProofs).

\* Only a loop at work holds jobs, a held job is running under the holder's
\* number, and it was claimed so recently that the timeouts of the jobs
\* the batch still has fit before BatchSize timeouts are over.
HeldInTime ==
  \A w \in Worker :
    /\ elapsed[w] <= HandlerTimeout
    /\ \A j \in Held(w) :
         /\ pc[w] \in {"work", "report"}
         /\ status[j] = "running"
         /\ claim[w][j] = attempts[j]
         /\ lockAge[j] + Cardinality(Held(w)) * HandlerTimeout
              <= BatchSize * HandlerTimeout + elapsed[w]

Unheld(j) == \A w \in Worker : j \notin Held(w)

\* Whatever may be claimed again has an attempt to spare.
AttemptsLeft ==
  \A j \in Job :
    /\ status[j] = "absent" => attempts[j] = 0
    /\ status[j] = "pending" \/ (status[j] = "running" /\ Unheld(j))
         => attempts[j] <= MaxAttempts + losses + revives

\* Worker w has an Ok of job j that it has not acked yet.
Unacked(w, j) == pc[w] = "report" /\ outcome[w] = "ok" /\ Current(w, j)

\* Whatever may run again has used at most one Ok for each worker that went away.
RepeatsLeft ==
  \A j \in Job :
    status[j] # "succeeded" /\ (\A w \in Worker : ~Unacked(w, j)) => done[j] <= losses

IInv ==
  /\ TypeOK
  /\ LeasedIffRunning
  /\ ExclusiveClaims
  /\ HeldInTime
  /\ AttemptsBudget /\ AttemptsLeft
  /\ RepeatsOnlyAfterLosses /\ RepeatsLeft

--------------------------------------------------------------------------------
\* The inductive invariant of any configuration (StallInvariant in JobQueueProofs).

\* An Ok that is about to be acked has been counted.
AckIsEarned == \A w \in Worker, j \in Job : Unacked(w, j) => done[j] > 0

StallInv == TypeOK /\ LeasedIffRunning /\ AttemptsFence /\ SucceededHasRun /\ AckIsEarned
================================================================================

------------------------------ MODULE JobLifecycle ------------------------------
(***************************************************************************)
(* What the reliable job queue of sz-rust-orm-facade promises about a job, *)
(* without leases, clocks or batches: a job is claimed by one worker at a  *)
(* time, only its holder settles it, it goes back to the queue behind the  *)
(* holder's back only when that worker is gone, a finished job stays       *)
(* finished, and a dead one comes back only by the operator's replay.      *)
(* The promises are those of the header of jobs.rs (lines 10 to 17).       *)
(***************************************************************************)
CONSTANTS Job,     \* the jobs that may be enqueued
          Worker   \* the worker loops

VARIABLES state,   \* state[j]: where job j is in its life
          holders  \* holders[j]: the live workers that have claimed j

vars == <<state, holders>>

State == {"absent", "pending", "running", "succeeded", "dead"}

Init ==
  /\ state = [j \in Job |-> "absent"]
  /\ holders = [j \in Job |-> {}]

\* A producer enqueues a job.
Submit(j) ==
  /\ state[j] = "absent"
  /\ state' = [state EXCEPT ![j] = "pending"]
  /\ UNCHANGED holders

\* Worker w claims a batch of pending jobs, all at once.
Claim(w, S) ==
  /\ \A j \in S : state[j] = "pending" /\ holders[j] = {}
  /\ state' = [j \in Job |-> IF j \in S THEN "running" ELSE state[j]]
  /\ holders' = [j \in Job |-> IF j \in S THEN {w} ELSE holders[j]]

\* A batch is claimed, and nobody gets it.
Lose(S) ==
  /\ \A j \in S : state[j] = "pending" /\ holders[j] = {}
  /\ state' = [j \in Job |-> IF j \in S THEN "running" ELSE state[j]]
  /\ UNCHANGED holders

\* The only holder of a running job finishes it, buries it or requeues it.
Settle(w, j, verdict) ==
  /\ state[j] = "running"
  /\ holders[j] = {w}
  /\ verdict \in {"succeeded", "dead", "pending"}
  /\ state' = [state EXCEPT ![j] = verdict]
  /\ holders' = [holders EXCEPT ![j] = {}]

\* A worker goes away and with it everything it had claimed.
Abandon(w) ==
  /\ holders' = [j \in Job |-> holders[j] \ {w}]
  /\ UNCHANGED state

\* Running jobs that nobody holds any more are put back into the queue.
Recover(S) ==
  /\ \A j \in S : state[j] = "running" /\ holders[j] = {}
  /\ state' = [j \in Job |-> IF j \in S THEN "pending" ELSE state[j]]
  /\ UNCHANGED holders

\* The operator replays a dead job.
Revive(j) ==
  /\ state[j] = "dead"
  /\ state' = [state EXCEPT ![j] = "pending"]
  /\ UNCHANGED holders

Next ==
  \/ \E j \in Job : Submit(j) \/ Revive(j)
  \/ \E w \in Worker, S \in SUBSET Job : Claim(w, S)
  \/ \E w \in Worker, j \in Job, v \in State : Settle(w, j, v)
  \/ \E w \in Worker : Abandon(w)
  \/ \E S \in SUBSET Job : Lose(S) \/ Recover(S)

Spec == Init /\ [][Next]_vars
================================================================================

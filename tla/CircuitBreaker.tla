----------------------------- MODULE CircuitBreaker -----------------------------
(***************************************************************************)
(* The circuit breaker of sz-rust-middleware-facade (circuit_breaker.rs):  *)
(* its three states, the ring of buckets behind the error rate, and the    *)
(* requests the middleware lets through, which report back in any order,   *)
(* in whatever state the breaker is by then, or never.                     *)
(*                                                                         *)
(* Time is counted in bucket widths and relative to now: a bucket has an   *)
(* age instead of an epoch, and openFor is the time since opened_at.  Each *)
(* method holds the mutex throughout and is one action.                    *)
(***************************************************************************)
EXTENDS Integers, FiniteSets

CONSTANTS
  Buckets,         \* STAT_BUCKETS: stat_window in bucket widths
  Cooldown,        \* CircuitBreakerConfig::cooldown, in bucket widths
  ProbeRequests,   \* CircuitBreakerConfig::probe_requests
  ThresholdParts,  \* CircuitBreakerConfig::error_threshold is ThresholdParts
  ThresholdWhole,  \*   out of ThresholdWhole
  CountMax,        \* bound: where the counters of a bucket saturate (u32::MAX)
  MaxInFlight      \* bound: requests under way at the same time

ASSUME ConstantsAssumption ==
  /\ {Buckets, Cooldown, ProbeRequests, ThresholdParts, ThresholdWhole, CountMax,
      MaxInFlight} \subseteq Nat \ {0}
  /\ ThresholdParts <= ThresholdWhole

VARIABLES
  state,     \* CircuitBreakerInner::state
  slot,      \* the bucket the current epoch falls into
  ring,      \* the buckets
  openFor,   \* time since opened_at, no further than is compared
  probes,    \* the length of probe_results (only successes are ever in it)
  inFlight,  \* requests let through that have not reported back
  seen,      \* history: the results recorded since the breaker last closed, by age
  admitted   \* history: requests let through since HalfOpen began, up to one too many

breaker == <<state, slot, ring, openFor, probes>>
vars == <<state, slot, ring, openFor, probes, inFlight, seen, admitted>>

State == {"Closed", "Open", "HalfOpen"}
Slot == 0..(Buckets - 1)
Count == 0..CountMax
Stale == Buckets
Empty == [age |-> Stale, successes |-> 0, failures |-> 0]
Nothing == [successes |-> 0, failures |-> 0]

TypeOK ==
  /\ state \in State
  /\ slot \in Slot
  /\ ring \in [Slot -> [age : 0..Stale, successes : Count, failures : Count]]
  /\ openFor \in 0..Cooldown
  /\ probes \in 0..(ProbeRequests - 1)
  /\ inFlight \in 0..MaxInFlight
  /\ seen \in [Slot -> [successes : Count, failures : Count]]
  /\ admitted \in 0..(ProbeRequests + 1)

Init ==
  /\ state = "Closed"
  /\ slot = 0
  /\ ring = [b \in Slot |-> Empty]
  /\ openFor = 0
  /\ probes = 0
  /\ inFlight = 0
  /\ seen = [a \in Slot |-> Nothing]
  /\ admitted = 0

--------------------------------------------------------------------------------
\* The statistics.

Plus1(n) == IF n < CountMax THEN n + 1 ELSE n

Counted(counts, ok) ==
  IF ok THEN [counts EXCEPT !.successes = Plus1(@)]
        ELSE [counts EXCEPT !.failures = Plus1(@)]

\* Mutant: a bucket is not emptied before it is used again.
Record_KeepsOld(ok) == [ring EXCEPT ![slot] = Counted([@ EXCEPT !.age = 0], ok)]

\* ErrorWindow::record: a bucket of an earlier round is emptied first.
Record(ok) ==
  [ring EXCEPT ![slot] =
     Counted(IF @.age = 0 THEN @ ELSE [Empty EXCEPT !.age = 0], ok)]

\* The rate of failures over all results is at the threshold or above.
TooMany(failures, total) ==
  total > 0 /\ failures * ThresholdWhole >= ThresholdParts * total

\* The sum of count over all slots: how many things there are if slot s has count[s].
Total(count) == Cardinality({x \in Slot \X (1..CountMax) : x[2] <= count[x[1]]})

\* ErrorWindow::snapshot and the test of record_failure, on the buckets of r.
Trips(r) ==
  LET recent(b) == r[b].age < Buckets
      failures == Total([b \in Slot |-> IF recent(b) THEN r[b].failures ELSE 0])
      successes == Total([b \in Slot |-> IF recent(b) THEN r[b].successes ELSE 0])
  IN  TooMany(failures, failures + successes)

--------------------------------------------------------------------------------
\* What can_request answers, but for the change of state.
Allowed ==
  \/ state = "Closed"
  \/ state = "Open" /\ openFor >= Cooldown
  \/ state = "HalfOpen" /\ probes < ProbeRequests

\* A request arrives and can_request lets it through; the first one after the
\* cooldown makes the breaker half open.
Admit ==
  /\ Allowed
  /\ inFlight < MaxInFlight
  /\ inFlight' = inFlight + 1
  /\ IF state = "Open"
     THEN state' = "HalfOpen" /\ probes' = 0 /\ admitted' = 1
     ELSE /\ admitted' = IF state = "HalfOpen" /\ admitted <= ProbeRequests
                         THEN admitted + 1 ELSE admitted
          /\ UNCHANGED <<state, probes>>
  /\ UNCHANGED <<slot, ring, openFor, seen>>

\* Mutant: being turned away starts the cooldown again.
Reject_Prolongs ==
  /\ ~Allowed
  /\ openFor' = 0
  /\ UNCHANGED <<state, slot, ring, probes, inFlight, seen, admitted>>

\* A request arrives and is answered 503.
Reject ==
  /\ ~Allowed
  /\ UNCHANGED vars

\* Mutant: one success more than probe_requests.
Enough_OneMore(successes) == successes > ProbeRequests

\* As many probes have succeeded as it takes to close.
Enough(successes) == successes >= ProbeRequests

\* record_success: a request ends without a server error.
RecordSuccess ==
  /\ inFlight > 0
  /\ inFlight' = inFlight - 1
  /\ \/ /\ state = "Closed"
        /\ ring' = Record(TRUE)
        /\ seen' = [seen EXCEPT ![0] = Counted(@, TRUE)]
        /\ UNCHANGED <<state, openFor, probes>>
     \/ /\ state = "HalfOpen" /\ ~Enough(probes + 1)
        /\ probes' = probes + 1
        /\ UNCHANGED <<state, openFor, ring, seen>>
     \/ /\ state = "HalfOpen" /\ Enough(probes + 1)
        /\ state' = "Closed"
        /\ ring' = [b \in Slot |-> Empty]
        /\ seen' = [a \in Slot |-> Nothing]
        /\ openFor' = 0
        /\ probes' = 0
     \/ state = "Open" /\ UNCHANGED <<state, ring, openFor, probes, seen>>
  /\ UNCHANGED <<slot, admitted>>

\* Open starts, or starts again.
Open == state' = "Open" /\ openFor' = 0

\* record_failure: a request ends with a server error.
RecordFailure ==
  /\ inFlight > 0
  /\ inFlight' = inFlight - 1
  /\ \/ /\ state = "Closed"
        /\ ring' = Record(FALSE)
        /\ seen' = [seen EXCEPT ![0] = Counted(@, FALSE)]
        /\ IF Trips(ring') THEN Open ELSE UNCHANGED <<state, openFor>>
        /\ UNCHANGED probes
     \/ /\ state = "HalfOpen"
        /\ Open
        /\ probes' = 0
        /\ UNCHANGED <<ring, seen>>
     \/ state = "Open" /\ UNCHANGED <<state, openFor, probes, ring, seen>>
  /\ UNCHANGED <<slot, admitted>>

\* The client is gone, the middleware's future is dropped: nothing is recorded.
Cancel ==
  /\ inFlight > 0
  /\ inFlight' = inFlight - 1
  /\ UNCHANGED <<breaker, seen, admitted>>

\* Time passes by a bucket width.
Tick ==
  /\ slot' = (slot + 1) % Buckets
  /\ ring' = [b \in Slot |-> [ring[b] EXCEPT !.age = IF @ < Stale THEN @ + 1 ELSE @]]
  /\ openFor' = IF state = "Open" /\ openFor < Cooldown THEN openFor + 1 ELSE openFor
  /\ seen' = [a \in Slot |-> IF a = 0 THEN Nothing ELSE seen[a - 1]]
  /\ UNCHANGED <<state, probes, inFlight, admitted>>

Next == Admit \/ Reject \/ RecordSuccess \/ RecordFailure \/ Cancel \/ Tick

\* Time goes on, requests keep arriving, and each ends or loses its client.
Fairness ==
  /\ WF_vars(Tick)
  /\ WF_vars(Admit)
  /\ WF_vars(RecordSuccess \/ RecordFailure \/ Cancel)

Spec == Init /\ [][Next]_vars
FairSpec == Spec /\ Fairness

--------------------------------------------------------------------------------
\* Properties.

\* The ring of buckets loses no result of the statistics window and keeps none that
\* is older (lines 35 to 41): a failure opens a closed breaker exactly when the
\* results recorded in the last Buckets bucket widths are at the threshold.
TripsOnRecentRate ==
  [][state = "Closed" /\ RecordFailure =>
       LET failures == Total([a \in Slot |-> seen'[a].failures])
           successes == Total([a \in Slot |-> seen'[a].successes])
       IN  (state' = "Open") = TooMany(failures, failures + successes)]_vars

\* The bucket that the epoch a bucket widths ago fell into.
BucketOf(a) == IF a <= slot THEN slot - a ELSE slot + Buckets - a

\* The same of each bucket, at any time: it holds what has been recorded since the
\* breaker last closed in the epoch of its age, and whatever is older does not count.
RingIsWindow ==
  \A a \in Slot :
    LET bucket == ring[BucketOf(a)]
    IN  \/ bucket.age = a
           /\ seen[a] = [successes |-> bucket.successes, failures |-> bucket.failures]
        \/ bucket.age = Stale /\ seen[a] = Nothing

\* Nobody is turned away for any reason but a running cooldown.  The breaker has
\* a branch that rejects in HalfOpen (line 218): it is never taken, and so
\* a half open breaker cannot lock itself up while its probes hang.
RejectsOnlyWhileCooling == ~Allowed => state = "Open" /\ openFor < Cooldown

\* The breaker always gets its chance to recover: an open one lets a request
\* through again, however many requests it turns away and however many late
\* failures come in meanwhile.
OpenGivesWay == state = "Open" ~> state = "HalfOpen"

\* What the configuration promises (line 64): HalfOpen lets through as many requests as
\* probe_requests says.
ProbesAreLimited == state = "HalfOpen" => admitted <= ProbeRequests
================================================================================

--------------------------------- MODULE Outbox ---------------------------------
(***************************************************************************)
(* The outbox dispatchers of sz300 (outbox.rs): each claims a batch of     *)
(* events under a lease, delivers them one after the other and marks them. *)
(*                                                                         *)
(* Time is left out: a lease may lapse and a back-off may end whenever     *)
(* they run, the lease also while its batch is being worked off, for it is *)
(* one lease of 30 seconds for up to 100 deliveries of up to 5.  A row     *)
(* does not say who has claimed it, and the marks do not ask.              *)
(***************************************************************************)
EXTENDS Integers, FiniteSets

CONSTANTS
  NEvents,      \* the rows of outbox_event
  Dispatcher,   \* the instances of the service, one dispatcher each
  Limit,        \* LIMIT of a claim (100)
  MaxAttempts,  \* MAX_ATTEMPTS (10)
  MaxFaults     \* bound on crashes and lost answers of the database

Event == 1..NEvents

ASSUME ConstantsAssumption ==
  /\ NEvents \in Nat
  /\ Limit \in Nat \ {0}
  /\ MaxAttempts \in Nat \ {0}
  /\ MaxFaults \in Nat

VARIABLES
  status,    \* column status: 0, 1, 2
  attempts,  \* column attempts; more than Exhausted are the same to the program
  leased,    \* is locked_until in the future?
  waiting,   \* is next_retry_at in the future?
  batch,     \* what each dispatcher has claimed and not yet marked
  seen,      \* the attempts each claim has read
  answer,    \* what the handler has answered about the event in hand
  arrived,   \* the receiver: how often each event has arrived; twice stands for more
  late,      \* events with a request nobody waits for any more that may still arrive
  excused,   \* history: the events something went wrong with
  faults

rows == <<status, attempts, leased, waiting>>
vars == <<rows, batch, seen, answer, arrived, late, excused, faults>>

Exhausted == MaxAttempts + 1

\* Rows, batches and answers are what the dispatcher can put there; a claim counts one
\* attempt, up to the number past which nothing depends on it.
TypeOK ==
  /\ status \in [Event -> {"pending", "delivered", "dead"}]
  /\ attempts \in [Event -> 0..Exhausted]
  /\ leased \in [Event -> BOOLEAN]
  /\ waiting \in [Event -> BOOLEAN]
  /\ batch \in [Dispatcher -> SUBSET Event]
  /\ seen \in [Dispatcher -> [Event -> 0..Exhausted]]
  /\ answer \in [Dispatcher -> {"none", "ok", "err"}]
  /\ arrived \in [Event -> 0..2]
  /\ late \subseteq Event
  /\ excused \subseteq Event
  /\ faults \in 0..MaxFaults

Init ==
  /\ status = [e \in Event |-> "pending"]
  /\ attempts = [e \in Event |-> 0]
  /\ leased = [e \in Event |-> FALSE]
  /\ waiting = [e \in Event |-> FALSE]
  /\ batch = [d \in Dispatcher |-> {}]
  /\ seen = [d \in Dispatcher |-> [e \in Event |-> 0]]
  /\ answer = [d \in Dispatcher |-> "none"]
  /\ arrived = [e \in Event |-> 0]
  /\ late = {}
  /\ excused = {}
  /\ faults = 0

--------------------------------------------------------------------------------
(* claim_pending *)

\* Mutant: the lease is not looked at.
Claimable_Leased == {e \in Event : status[e] = "pending" /\ ~waiting[e]}

Claimable == {e \in Event : status[e] = "pending" /\ ~waiting[e] /\ ~leased[e]}

\* ORDER BY id LIMIT
Claimed == {e \in Claimable : Cardinality({f \in Claimable : f < e}) < Limit}

\* Mutant: a claim is not counted.
Counted_Not(n) == n

Counted(n) == IF n < Exhausted THEN n + 1 ELSE n

\* The rows of a claim that is committed.
Lease ==
  /\ attempts' = [e \in Event |-> IF e \in Claimed THEN Counted(attempts[e]) ELSE attempts[e]]
  /\ leased' = [e \in Event |-> leased[e] \/ e \in Claimed]
  /\ UNCHANGED <<status, waiting>>

\* What the events say of their attempts is from before this claim.
Claim(d) ==
  /\ batch[d] = {}
  /\ Claimed # {}
  /\ Lease
  /\ batch' = [batch EXCEPT ![d] = Claimed]
  /\ seen' = [seen EXCEPT ![d] = [e \in Event |-> IF e \in Claimed THEN attempts[e] ELSE 0]]
  /\ UNCHANGED <<answer, arrived, late, excused, faults>>

\* The commit is done but its answer is lost: nobody has the events.
ClaimLost(d) ==
  /\ batch[d] = {}
  /\ Claimed # {}
  /\ faults < MaxFaults
  /\ faults' = faults + 1
  /\ Lease
  /\ UNCHANGED <<batch, seen, answer, arrived, late, excused>>

--------------------------------------------------------------------------------
(* dispatch_once *)

\* The batch is worked off in the order of the ids.
InHand(d, e) == e \in batch[d] /\ \A f \in batch[d] : e <= f

Arrive(e) == arrived' = [arrived EXCEPT ![e] = IF @ < 2 THEN @ + 1 ELSE @]

\* The event arrives and the receiver says so.
DeliverOk(d, e) ==
  /\ InHand(d, e)
  /\ answer[d] = "none"
  /\ Arrive(e)
  /\ answer' = [answer EXCEPT ![d] = "ok"]
  /\ UNCHANGED <<rows, batch, seen, late, excused, faults>>

\* It does not arrive.
DeliverErr(d, e) ==
  /\ InHand(d, e)
  /\ answer[d] = "none"
  /\ answer' = [answer EXCEPT ![d] = "err"]
  /\ UNCHANGED <<rows, batch, seen, arrived, late, excused, faults>>

\* It arrives, or will after the client has given up, but the answer is late, lost or
\* not 2xx: the dispatcher takes that for a failure.
DeliverUnheard(d, e) ==
  /\ InHand(d, e)
  /\ answer[d] = "none"
  /\ \/ Arrive(e) /\ UNCHANGED late
     \/ late' = late \cup {e} /\ UNCHANGED arrived
  /\ answer' = [answer EXCEPT ![d] = "err"]
  /\ excused' = excused \cup {e}
  /\ UNCHANGED <<rows, batch, seen, faults>>

\* A request whose timer has fired reaches the receiver after all.
ArriveLate(e) ==
  /\ e \in late
  /\ Arrive(e)
  /\ late' = late \ {e}
  /\ UNCHANGED <<rows, batch, seen, answer, excused, faults>>

MarkDelivered(e) ==
  /\ status' = [status EXCEPT ![e] = "delivered"]
  /\ leased' = [leased EXCEPT ![e] = FALSE]
  /\ UNCHANGED <<attempts, waiting>>

\* Mutant: an event that is given up gets a status that is none.
MarkFailed_Expired(e, tries) ==
  /\ status' = [status EXCEPT ![e] = IF tries >= MaxAttempts THEN "expired" ELSE "pending"]
  /\ waiting' = [waiting EXCEPT ![e] = TRUE]
  /\ leased' = [leased EXCEPT ![e] = FALSE]
  /\ UNCHANGED attempts

\* By id alone, whatever the row has become since the claim.
MarkFailed(e, tries) ==
  /\ status' = [status EXCEPT ![e] = IF tries >= MaxAttempts THEN "dead" ELSE "pending"]
  /\ waiting' = [waiting EXCEPT ![e] = IF tries >= MaxAttempts THEN @ ELSE TRUE]
  /\ leased' = [leased EXCEPT ![e] = FALSE]
  /\ UNCHANGED attempts

\* The mark the answer calls for.
Write(d, e) ==
  \/ answer[d] = "ok" /\ MarkDelivered(e)
  \/ answer[d] = "err" /\ MarkFailed(e, seen[d][e])

Mark(d, e) ==
  /\ InHand(d, e)
  /\ answer[d] # "none"
  /\ Write(d, e)
  /\ batch' = [batch EXCEPT ![d] = @ \ {e}]
  /\ seen' = [seen EXCEPT ![d][e] = 0]
  /\ answer' = [answer EXCEPT ![d] = "none"]
  /\ UNCHANGED <<arrived, late, excused, faults>>

\* What a dispatcher leaves when its process ends, or when dispatch_once returns the
\* error of a mark: the rest of the batch waits for its leases to lapse.
Drop(d) ==
  /\ batch[d] # {}
  /\ faults < MaxFaults
  /\ faults' = faults + 1
  /\ excused' = excused \cup batch[d]
  /\ batch' = [batch EXCEPT ![d] = {}]
  /\ seen' = [seen EXCEPT ![d] = [e \in Event |-> 0]]
  /\ answer' = [answer EXCEPT ![d] = "none"]
  /\ UNCHANGED <<arrived, late>>

Crash(d) == Drop(d) /\ UNCHANGED rows

\* The mark is written and its answer is lost.
MarkLost(d, e) ==
  /\ InHand(d, e)
  /\ answer[d] # "none"
  /\ Write(d, e)
  /\ Drop(d)

--------------------------------------------------------------------------------
(* Time *)

Lapse(e) ==
  /\ leased[e]
  /\ leased' = [leased EXCEPT ![e] = FALSE]
  /\ excused' = IF \E d \in Dispatcher : e \in batch[d] THEN excused \cup {e} ELSE excused
  /\ UNCHANGED <<status, attempts, waiting, batch, seen, answer, arrived, late, faults>>

Wake(e) ==
  /\ waiting[e]
  /\ waiting' = [waiting EXCEPT ![e] = FALSE]
  /\ UNCHANGED <<status, attempts, leased, batch, seen, answer, arrived, late, excused, faults>>

--------------------------------------------------------------------------------
Deliver(d, e) == DeliverOk(d, e) \/ DeliverErr(d, e) \/ DeliverUnheard(d, e)
DispatchOnce(d, e) == Deliver(d, e) \/ Mark(d, e)
Fault(d) == ClaimLost(d) \/ Crash(d) \/ \E e \in Event : MarkLost(d, e)

Next ==
  \/ \E d \in Dispatcher : Claim(d) \/ Fault(d) \/ \E e \in Event : DispatchOnce(d, e)
  \/ \E e \in Event : ArriveLate(e) \/ Lapse(e) \/ Wake(e)

Spec == Init /\ [][Next]_vars

\* The loop of spawn_dispatcher goes on, the handler answers (the webhook client has
\* a timeout), and time passes.
FairSpec ==
  /\ Spec
  /\ \A d \in Dispatcher : WF_vars(Claim(d)) /\ WF_vars(\E e \in Event : DispatchOnce(d, e))
  /\ \A e \in Event : WF_vars(Lapse(e)) /\ WF_vars(Wake(e))

--------------------------------------------------------------------------------
\* What is marked as delivered has arrived, and it has arrived more than once only
\* if a lease lapsed under its dispatcher, a dispatcher was lost or an answer was:
\* two dispatchers never work on an event otherwise, whatever order they claim,
\* fail, back off and mark in.
ArrivalsAreAccountedFor ==
  \A e \in Event :
    /\ status[e] = "delivered" => arrived[e] > 0
    /\ arrived[e] > 1 => e \in excused

\* The outbox implements the delivery it promises: whatever order dispatchers claim,
\* fail, back off, lose their lease and mark in, an event arrives once and is settled
\* once unless one of the three causes of doubt has come up for it.
Promise == INSTANCE Delivery WITH
  fate <- status,
  arrivals <- arrived,
  holders <- [e \in Event |-> {d \in Dispatcher : e \in batch[d]}],
  doubted <- excused
ImplementsDelivery == Promise!Spec

\* Every event is delivered or dead in the end and stays so, although overtaken
\* dispatchers put back to pending what others have finished.
EventsSettle == \A e \in Event : <>[](status[e] # "pending")

\* What mark_failed promises with its threshold (line 382) for attempts that include
\* the one that has failed (line 33): an event nothing else went wrong with is tried
\* MAX_ATTEMPTS times.  The attempts it is given are those before the claim, so there
\* is one more.
TriedWithinLimit == \A e \in Event \ excused : attempts[e] <= MaxAttempts

--------------------------------------------------------------------------------
(* The inductive invariant behind it *)

\* As long as nothing goes wrong with an event one dispatcher has it, under a lease.
BatchInv ==
  \A d \in Dispatcher, e \in Event : e \in batch[d] /\ e \notin excused =>
    /\ leased[e] /\ status[e] = "pending"
    /\ \A other \in Dispatcher : e \in batch[other] => other = d

\* It has then arrived at most once, and if it has it is marked or about to be.
ArrivedInv ==
  \A e \in Event : e \notin excused /\ arrived[e] # 0 =>
    /\ arrived[e] = 1
    /\ \/ status[e] = "delivered"
       \/ \E d \in Dispatcher : InHand(d, e) /\ answer[d] = "ok"

\* An answer is about the event in hand, and "ok" says that it has arrived.
AnswerInv ==
  \A d \in Dispatcher :
    /\ batch[d] = {} => answer[d] = "none"
    /\ answer[d] = "ok" => \A e \in Event : InHand(d, e) => arrived[e] > 0

\* A request that may still arrive is of an event in doubt.
LateInv == late \subseteq excused

IInv == TypeOK /\ BatchInv /\ ArrivedInv /\ AnswerInv /\ LateInv /\ ArrivalsAreAccountedFor
================================================================================

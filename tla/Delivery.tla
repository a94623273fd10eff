-------------------------------- MODULE Delivery --------------------------------
(***************************************************************************)
(* What the outbox of sz300 promises about an event (outbox.rs, lines 4 to *)
(* 10), without leases, back-off or batches: an event arrives exactly once *)
(* before it is marked as delivered and not at all before it is given up,  *)
(* and what is settled stays so - unless the event is in doubt.  Doubt has *)
(* three causes: somebody else may take the event from the dispatcher that *)
(* has it, a dispatcher is lost with it, or its receiver is not heard.  An *)
(* event in doubt may arrive again and be settled again, but is never      *)
(* marked as delivered without having arrived.                             *)
(***************************************************************************)
EXTENDS Naturals

CONSTANTS Event,       \* the events of the outbox
          Dispatcher   \* who may deliver them

VARIABLES fate,      \* pending, delivered, or dead: given up
          arrivals,  \* how often each event has arrived; twice stands for more
          holders,   \* holders[e]: the dispatchers that have claimed e
          doubted    \* the events in doubt

vars == <<fate, arrivals, holders, doubted>>

Fate == {"pending", "delivered", "dead"}

Init ==
  /\ fate = [e \in Event |-> "pending"]
  /\ arrivals = [e \in Event |-> 0]
  /\ holders = [e \in Event |-> {}]
  /\ doubted = {}

\* Dispatcher d claims a batch of events that nobody has.
Claim(d, S) ==
  /\ \A e \in S : fate[e] = "pending" /\ (e \in doubted \/ holders[e] = {})
  /\ holders' = [e \in Event |-> IF e \in S THEN holders[e] \cup {d} ELSE holders[e]]
  /\ UNCHANGED <<fate, arrivals, doubted>>

\* An event that is neither settled nor in doubt has not arrived before.
Fresh(e) == fate[e] = "pending" /\ arrivals[e] = 0

\* The event arrives, from its holder, and is in doubt if the holder does not hear so.
Reach(e) ==
  /\ e \in doubted \/ (Fresh(e) /\ holders[e] # {})
  /\ arrivals' = [arrivals EXCEPT ![e] = IF @ < 2 THEN @ + 1 ELSE @]
  /\ doubted' \in {doubted, doubted \cup {e}}
  /\ UNCHANGED <<fate, holders>>

\* A holder cannot tell whether the event has arrived or will, or it is not the only one
\* any more that may claim it.
Doubt(e) ==
  /\ holders[e] # {}
  /\ doubted' = doubted \cup {e}
  /\ UNCHANGED <<fate, arrivals, holders>>

\* The verdict that holder d of event e may pass.
Verdict(d, e, verdict) ==
  /\ d \in holders[e]
  /\ verdict = "delivered" => arrivals[e] > 0
  /\ e \notin doubted => /\ fate[e] = "pending" /\ holders[e] = {d}
                         /\ arrivals[e] = IF verdict = "delivered" THEN 1 ELSE 0

Judge(d, e) == \E v \in Fate : Verdict(d, e, v) /\ fate' = [fate EXCEPT ![e] = v]

\* A holder settles the event or puts it back.
Settle(d, e) ==
  /\ Judge(d, e)
  /\ holders' = [holders EXCEPT ![e] = @ \ {d}]
  /\ UNCHANGED <<arrivals, doubted>>

\* A dispatcher goes away, it may be while it settles an event, and everything it has
\* claimed is in doubt.
Abandon(d) ==
  /\ UNCHANGED fate \/ \E e \in Event : Judge(d, e)
  /\ holders' = [e \in Event |-> holders[e] \ {d}]
  /\ doubted' = doubted \cup {e \in Event : d \in holders[e]}
  /\ UNCHANGED arrivals

Next ==
  \/ \E d \in Dispatcher, S \in SUBSET Event : Claim(d, S)
  \/ \E e \in Event : Reach(e) \/ Doubt(e)
  \/ \E d \in Dispatcher, e \in Event : Settle(d, e)
  \/ \E d \in Dispatcher : Abandon(d)

Spec == Init /\ [][Next]_vars
================================================================================

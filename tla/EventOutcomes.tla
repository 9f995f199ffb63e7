---------------------------- MODULE EventOutcomes ----------------------------
(***************************************************************************)
(* What the queue of Stripe events promises (api/_lib/stripe-events.ts),    *)
(* with no word of workers, leases or attempts: an event is accepted once,  *)
(* its money work may be committed from then on, its projection only after  *)
(* that, and it is given one outcome, for good: settled when both are       *)
(* committed, or a dead letter at any time.                                 *)
(***************************************************************************)
CONSTANTS Events

VARIABLES
    outcome,    \* "none" before the event, then "open" until its outcome
    granted,    \* events whose money work is committed
    projected   \* events materialised in the commerce ledger

vars == <<outcome, granted, projected>>

Init ==
    /\ outcome = [e \in Events |-> "none"]
    /\ granted = {} /\ projected = {}

Accept(e) ==
    /\ outcome[e] = "none"
    /\ outcome' = [outcome EXCEPT ![e] = "open"]
    /\ UNCHANGED <<granted, projected>>

\* A worker that was given up may still commit, whatever the outcome.
Grant(e) ==
    /\ outcome[e] # "none"
    /\ granted' = granted \cup {e}
    /\ UNCHANGED <<outcome, projected>>

Project(e) ==
    /\ e \in granted
    /\ projected' = projected \cup {e}
    /\ UNCHANGED <<outcome, granted>>

Settle(e) ==
    /\ outcome[e] = "open"
    /\ e \in granted \cap projected
    /\ \E how \in {"processed", "ignored"} : outcome' = [outcome EXCEPT ![e] = how]
    /\ UNCHANGED <<granted, projected>>

\* One statement may bury several events.
Bury(es) ==
    /\ \A e \in es : outcome[e] = "open"
    /\ outcome' = [e \in Events |-> IF e \in es THEN "dead_letter" ELSE outcome[e]]
    /\ UNCHANGED <<granted, projected>>

Next ==
    \/ \E e \in Events : Accept(e) \/ Grant(e) \/ Project(e) \/ Settle(e)
    \/ \E es \in SUBSET Events : Bury(es)

Spec == Init /\ [][Next]_vars
=============================================================================

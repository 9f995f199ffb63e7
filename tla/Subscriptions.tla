--------------------------- MODULE Subscriptions ---------------------------
(***************************************************************************)
(* One Stripe subscription and the licence it pays for (api/_lib/account.ts, *)
(* entitlement.ts and the dispatch of stripe-events.ts).                     *)
(*                                                                           *)
(* Stripe owns the subscription and its invoices and sends an event for      *)
(* every change.  A worker that handles an event reads the subscription as   *)
(* it is THEN, later the invoice, and writes in a transaction later still;   *)
(* the licence row keeps a watermark, the time and id of the newest event    *)
(* applied.  "upgrade" is a subscription sold by an upgrade-pricing intent,  *)
(* "legacy" one that an allowlist of prices admits.                          *)
(***************************************************************************)
EXTENDS Naturals, FiniteSets, Sequences

CONSTANTS
    Kind,           \* "upgrade" or "legacy"
    Workers,
    MaxEvents,      \* bound: events Stripe sends
    Ids,            \* bound: what tells the events of one second apart
    Changes,        \* bound: what may become of the subscription
    None

VARIABLES
    stripe,     \* the subscription: status, cancellation, whether it verifies, invoices
    clock,      \* the second Stripe is in
    events,     \* the events sent: [id, at, change, type, invoice] and whether they are settled
    worker,     \* what each worker holds of the event it handles
    licence,    \* the licence row, or None
    credential  \* whether the licence has a live token

vars == <<stripe, clock, events, worker, licence, credential>>

Statuses == {"none", "active", "past_due", "unpaid", "canceled"}
EventTypes == {"checkout.session.completed", "customer.subscription.created",
               "customer.subscription.updated", "customer.subscription.deleted",
               "invoice.paid", "invoice.payment_failed"}
Reasons == {"subscription_active", "subscription_past_due", "subscription_unpaid",
            "subscription_canceled", "subscription_deleted", "invoice_payment_failed",
            "invoice_payment_recovered", "subscription_cancel_at_period_end",
            "subscription_paid_period_ended", "legacy_unverified"}

SubscriptionAssumption ==
    /\ Kind \in {"upgrade", "legacy"} /\ MaxEvents \in Nat /\ Ids \subseteq Nat
    /\ None \notin [status : {"active", "suspended", "revoked"}, reason : Reasons, at : Nat, id : Nat]

TypeOK ==
    /\ stripe.status \in Statuses /\ stripe.end \in 0..(MaxEvents + 1) /\ stripe.verifies \in BOOLEAN
    /\ \A i \in DOMAIN stripe.paid : stripe.paid[i] \in BOOLEAN
    /\ clock \in 0..MaxEvents
    /\ Cardinality(events) <= MaxEvents
    /\ \A e \in events : e.type \in EventTypes /\ e.at <= clock
                         /\ e.state \in {"pending", "processed", "ignored", "dead"}
    /\ \A w \in Workers : worker[w].stage \in {"idle", "subscription", "invoice"}
    /\ licence # None => /\ licence.status \in {"active", "suspended", "revoked"}
                         /\ licence.reason \in Reasons
                         /\ \E e \in events : licence.at = e.at /\ licence.id = e.id
    /\ credential \in BOOLEAN

Idle == [stage |-> "idle"]
NoSubscription == [status |-> "none", end |-> 0, verifies |-> TRUE, paid |-> <<>>]

Init ==
    /\ stripe = NoSubscription /\ clock = 0 /\ events = {}
    /\ worker = [w \in Workers |-> Idle]
    /\ licence = None /\ credential = FALSE

-----------------------------------------------------------------------------
(* Stripe.  The events of a change carry its second, which several changes   *)
(* may share, and ids, which differ and say nothing of any order; "change"    *)
(* counts the changes, and no event carries it.  "end" is the second a         *)
(* cancelled subscription is paid until, 0 if it is not cancelled.             *)
Sent(types, invoice) ==
    LET n == Cardinality(events) IN
    /\ n + Cardinality(types) <= MaxEvents
    /\ clock' \in {clock, clock + 1} \ {0}
    /\ \E id \in [types -> {k \in Ids : \A e \in events : e.at = clock' => e.id # k}] :
         /\ \A x, y \in types : id[x] = id[y] => x = y
         /\ events' = events \cup
              {[id |-> id[x], at |-> clock', change |-> n + 1, type |-> x, state |-> "pending",
                invoice |-> invoice] : x \in types}

\* e is of the last change; e has the greatest watermark.
Latest(e) == \A f \in events : f.change <= e.change
Newest(e) == \A f \in events : f.at < e.at \/ (f.at = e.at /\ f.id <= e.id)

Live == stripe.status \in {"active", "past_due", "unpaid"}

\* The buyer pays: Stripe makes the subscription and its first invoice.
Subscribe ==
    /\ stripe.status = "none"
    /\ stripe' = [stripe EXCEPT !.status = "active", !.paid = <<TRUE>>]
    /\ Sent({"checkout.session.completed", "customer.subscription.created"}, 1)
    /\ UNCHANGED <<worker, licence, credential>>

\* A renewal: a new invoice, paid at once or failed.
Renew(paid) ==
    /\ (IF paid THEN "renew" ELSE "fail") \in Changes /\ stripe.status = "active" /\ stripe.end = 0
    /\ stripe' = [stripe EXCEPT !.status = IF paid THEN "active" ELSE "past_due",
                                !.paid = Append(@, paid)]
    /\ Sent(IF paid THEN {"invoice.paid"}
            ELSE {"invoice.payment_failed", "customer.subscription.updated"}, Len(stripe.paid) + 1)
    /\ UNCHANGED <<worker, licence, credential>>

\* A failed invoice is paid after all.
Recover ==
    /\ stripe.status \in {"past_due", "unpaid"}
    /\ stripe' = [stripe EXCEPT !.status = "active",
                                !.paid = [i \in DOMAIN @ |-> TRUE]]
    /\ Sent({"invoice.paid", "customer.subscription.updated"}, Len(stripe.paid))
    /\ UNCHANGED <<worker, licence, credential>>

\* The buyer cancels at the end of the period, the subscription changes in some
\* other respect, dunning gives up, or it ends.
CancelLater ==
    /\ "cancel" \in Changes /\ stripe.status = "active" /\ stripe.end = 0
    /\ Sent({"customer.subscription.updated"}, Len(stripe.paid))
    /\ stripe' = [stripe EXCEPT !.end = clock' + 1]
    /\ UNCHANGED <<worker, licence, credential>>
\* In Stripe's portal, before the period is over.
Resume ==
    /\ stripe.status = "active" /\ clock < stripe.end
    /\ Sent({"customer.subscription.updated"}, Len(stripe.paid))
    /\ stripe' = [stripe EXCEPT !.end = 0]
    /\ UNCHANGED <<worker, licence, credential>>
Touch ==
    /\ stripe.status = "active" /\ stripe.end # 0 /\ UNCHANGED stripe
    /\ Sent({"customer.subscription.updated"}, Len(stripe.paid))
    /\ UNCHANGED <<worker, licence, credential>>
GiveUp ==
    /\ stripe.status = "past_due" /\ stripe' = [stripe EXCEPT !.status = "unpaid"]
    /\ Sent({"customer.subscription.updated"}, Len(stripe.paid))
    /\ UNCHANGED <<worker, licence, credential>>
End ==
    /\ "end" \in Changes /\ Live /\ stripe' = [stripe EXCEPT !.status = "canceled"]
    /\ Sent({"customer.subscription.deleted"}, Len(stripe.paid))
    /\ UNCHANGED <<worker, licence, credential>>

\* Somebody archives the price or the product, or drops it from the allowlist.
Archive ==
    /\ "archive" \in Changes /\ Live /\ stripe.verifies
    /\ stripe' = [stripe EXCEPT !.verifies = FALSE]
    /\ UNCHANGED <<clock, events, worker, licence, credential>>

-----------------------------------------------------------------------------
(* The worker: three reads of Stripe apart from the transaction. *)

\* A claim of the queue can lapse, so that an event may have several workers.
ReadSubscription(w) ==
    \E e \in events :
      /\ worker[w].stage = "idle" /\ e.state = "pending"
      /\ worker' = [worker EXCEPT ![w] =
           [stage |-> "subscription", event |-> e, status |-> stripe.status,
            end |-> stripe.end, latest |-> Len(stripe.paid)]]
      /\ UNCHANGED <<stripe, clock, events, licence, credential>>

\* The invoice the event names, the first one, or the subscription's latest.
InvoiceOf(e, latest) ==
    CASE e.type \in {"invoice.paid", "invoice.payment_failed"} -> e.invoice
      [] e.type = "checkout.session.completed" -> 1
      [] OTHER -> latest

ReadInvoice(w) ==
    /\ worker[w].stage = "subscription"
    /\ worker' = [worker EXCEPT ![w] =
         [stage |-> "invoice", event |-> @.event, status |-> @.status, end |-> @.end,
          paid |-> stripe.paid[InvoiceOf(@.event, @.latest)], verifies |-> stripe.verifies,
          found |-> licence # None]]
    /\ UNCHANGED <<stripe, clock, events, licence, credential>>

\* verifyUpgradePricingSubscriptionTruth, of what can change under the worker.
Truthful(r) ==
    /\ r.verifies
    /\ r.event.type \in {"checkout.session.completed", "invoice.paid"} => r.paid
    /\ r.event.type = "invoice.payment_failed" => ~r.paid

\* Mutant: the older event wins.
OlderWins(e) == licence = None \/ e.at < licence.at
\* shouldApplyStripeEventWatermark
Newer(e) ==
    \/ licence = None
    \/ e.at > licence.at
    \/ e.at = licence.at /\ e.id > licence.id

Terminal == {"subscription_canceled", "subscription_deleted"}

StatusReason(status) ==
    CASE status = "active" -> "subscription_active"
      [] status = "past_due" -> "subscription_past_due"
      [] status = "unpaid" -> "subscription_unpaid"
      [] status = "canceled" -> "subscription_canceled"

\* planUpgradePricingSubscriptionTransition
Transition(r) ==
    LET deleted == r.event.type = "customer.subscription.deleted"
        ended == licence # None /\ licence.reason \in Terminal
        over == r.status \in {"canceled", "unpaid"}
        failed == r.event.type = "invoice.payment_failed" IN
    IF deleted \/ ended \/ over
    THEN [status |-> "revoked",
          reason |-> IF deleted THEN "subscription_deleted" ELSE StatusReason(r.status)]
    ELSE IF failed \/ r.status = "past_due" \/ ~r.paid
    THEN [status |-> "suspended",
          reason |-> IF failed THEN "invoice_payment_failed" ELSE StatusReason(r.status)]
    ELSE IF r.end # 0 /\ r.end <= r.event.at
    THEN [status |-> "revoked", reason |-> "subscription_paid_period_ended"]
    ELSE [status |-> "active",
          reason |-> IF r.end # 0 THEN "subscription_cancel_at_period_end"
                     ELSE IF licence # None /\ licence.status = "suspended"
                          THEN "invoice_payment_recovered" ELSE "subscription_active"]

\* Mutants: the row is stamped with the present; a denial keeps its credentials.
WriteNow(r, to) ==
    IF Newer(r.event)
    THEN /\ licence' = [status |-> to.status, reason |-> to.reason, at |-> clock, id |-> r.event.id]
         /\ credential' = (credential /\ to.status = "active")
    ELSE UNCHANGED <<licence, credential>>
WriteKeeping(r, to) ==
    IF Newer(r.event)
    THEN /\ licence' = [status |-> to.status, reason |-> to.reason,
                        at |-> r.event.at, id |-> r.event.id]
         /\ UNCHANGED credential
    ELSE UNCHANGED <<licence, credential>>
\* The row is inserted, or updated by a newer event only; a row that is not
\* active loses its credentials.
Write(r, to) ==
    IF Newer(r.event)
    THEN /\ licence' = [status |-> to.status, reason |-> to.reason,
                        at |-> r.event.at, id |-> r.event.id]
         /\ credential' = (credential /\ to.status = "active")
    ELSE UNCHANGED <<licence, credential>>

Settled(e, state) == events' = (events \ {e}) \cup {[e EXCEPT !.state = state]}

\* reconcileUpgradePricingSubscription under its locks
Reconcile(w) ==
    LET r == worker[w] IN
    /\ Kind = "upgrade" /\ r.stage = "invoice" /\ r.event \in events /\ Truthful(r)
    /\ Write(r, Transition(r)) /\ Settled(r.event, "processed")
    /\ worker' = [worker EXCEPT ![w] = Idle]
    /\ UNCHANGED <<stripe, clock>>

\* What does not verify is thrown: the event waits for another attempt or, its
\* attempts spent, for an operator.
Refuse(w) ==
    LET r == worker[w] IN
    /\ Kind = "upgrade" /\ r.stage = "invoice" /\ r.event \in events /\ ~Truthful(r)
    /\ \/ UNCHANGED events
       \/ Settled(r.event, "dead")
    /\ worker' = [worker EXCEPT ![w] = Idle]
    /\ UNCHANGED <<stripe, clock, licence, credential>>

\* A worker whose event another worker settled: it writes all the same.
ReconcileLate(w) ==
    LET r == worker[w] IN
    /\ Kind = "upgrade" /\ r.stage = "invoice" /\ r.event \notin events /\ Truthful(r)
    /\ Write(r, Transition(r))
    /\ worker' = [worker EXCEPT ![w] = Idle]
    /\ UNCHANGED <<stripe, clock, events>>

-----------------------------------------------------------------------------
(* The legacy subscription.  Whether a licence exists is read before the    *)
(* transaction, and an inactive subscription without one is left alone.     *)
LegacyTarget(r) ==
    IF ~r.verifies THEN [status |-> "revoked", reason |-> "legacy_unverified"]
    ELSE [status |-> IF r.status = "active" THEN "active" ELSE "revoked",
          reason |-> StatusReason(r.status)]

\* The dispatch: an invoice of a legacy subscription is nobody's event.
Legacy(w) == Kind = "legacy" /\ worker[w].event.type \in
    {"checkout.session.completed", "customer.subscription.created",
     "customer.subscription.updated", "customer.subscription.deleted"}

\* quarantineExistingLegacySubscription, and the early answer for no licence
LegacyIgnore(w) ==
    LET r == worker[w] IN
    /\ Kind = "legacy" /\ r.stage = "invoice"
    /\ \/ ~Legacy(w)
       \/ r.verifies /\ r.status # "active" /\ ~r.found
       \/ ~r.verifies /\ licence = None
    /\ IF r.event \in events THEN Settled(r.event, "ignored") ELSE UNCHANGED events
    /\ worker' = [worker EXCEPT ![w] = Idle]
    /\ UNCHANGED <<stripe, clock, licence, credential>>

\* upsertLicenseFromSubscription
LegacyUpsert(w) ==
    LET r == worker[w] IN
    /\ Kind = "legacy" /\ r.stage = "invoice" /\ Legacy(w)
    /\ IF r.verifies THEN r.found \/ r.status = "active" ELSE licence # None
    /\ Write(r, LegacyTarget(r))
    /\ IF r.event \in events THEN Settled(r.event, "processed") ELSE UNCHANGED events
    /\ worker' = [worker EXCEPT ![w] = Idle]
    /\ UNCHANGED <<stripe, clock>>

-----------------------------------------------------------------------------
\* A worker stops half-way; its event is claimed again.
Die(w) ==
    /\ worker[w].stage # "idle" /\ worker' = [worker EXCEPT ![w] = Idle]
    /\ UNCHANGED <<stripe, clock, events, licence, credential>>

\* The app activates or refreshes (module DeviceLicense).
Issue ==
    /\ licence # None /\ licence.status = "active" /\ credential' = TRUE
    /\ UNCHANGED <<stripe, clock, events, worker, licence>>

Next ==
    \/ Subscribe \/ Recover \/ CancelLater \/ Resume \/ Touch \/ GiveUp \/ End \/ Archive \/ Issue
    \/ \E paid \in BOOLEAN : Renew(paid)
    \/ \E w \in Workers :
         \/ ReadSubscription(w) \/ ReadInvoice(w) \/ Reconcile(w) \/ ReconcileLate(w)
         \/ Refuse(w) \/ LegacyIgnore(w) \/ LegacyUpsert(w) \/ Die(w)

Spec == Init /\ [][Next]_vars

-----------------------------------------------------------------------------
Entitled == licence # None /\ licence.status = "active"

\* Once every event is acknowledged the licence says what Stripe says: the
\* newest event was applied with a read at least as new, however the workers
\* interleaved.  An event that waits for an operator is what else there may be,
\* and the watermark must rank an event of the last change first: of changes of
\* one second it may not, since it compares ids then (entitlement.ts).
SettledAgrees ==
    (/\ \E e \in events : Newest(e) /\ Latest(e)
     /\ \A e \in events : e.state \in {"processed", "ignored"}
     /\ \A w \in Workers : worker[w].stage = "idle")
    => /\ stripe.status = "active" /\ stripe.end = 0 /\ stripe.verifies => Entitled
       /\ stripe.status # "active" => ~Entitled

\* A licence that is not active has no live token, whichever event took it.
DeniedHasNoCredential == credential => Entitled

\* An ended subscription never comes back ("only canonical paid recovery can
\* reactivate a non-terminal subscription", entitlement.ts): once the event of
\* its end is processed, unless an event of the same second has a greater id.
EndIsFinal ==
    [][\A e \in events :
          e.type = "customer.subscription.deleted" /\ e.state = "processed" /\ Newest(e)'
             => ~Entitled']_vars
=============================================================================

------------------------- MODULE OneTimeEntitlement -------------------------
(***************************************************************************)
(* The lifecycle of one one-time purchase: Checkout, refunds and disputes   *)
(* at Stripe, and the licence row that api/_lib/account.ts keeps in step    *)
(* with them through planOneTimeEntitlementTransition (entitlement.ts).     *)
(*                                                                          *)
(* A reader is a Stripe event in the hands of a worker, or a visit of the   *)
(* Checkout return page or an activation poll, which has no event.  Each    *)
(* fetches the facts from Stripe with no lock held, the Charge first and    *)
(* its disputes after, and then applies them in one transaction.  Between   *)
(* the three steps Stripe and the other readers go on, and events reach     *)
(* workers in any order.  What protects the row is its watermark: the       *)
(* (created, id) pair of the newest event applied.                          *)
(*                                                                          *)
(* The reasons payment_paid, partial_refund, refund_failed_recovered and    *)
(* dispute_won are one, "paid".  The payment itself has succeeded.  The     *)
(* credentials an inactive row loses are in DeviceLicense.                  *)
(***************************************************************************)
EXTENDS Integers, FiniteSets

CONSTANTS
    MaxEvents,   \* bound: events Stripe sends about this payment
    Visits,      \* page visits and polls that fulfil without an event
    Paid,        \* amount paid
    Disputes,    \* disputes the charge may meet
    MaxReading,  \* bound: readers that hold facts at once
    SameSecond   \* whether Stripe may stamp two events with one second

ASSUME EntitlementAssumption ==
    /\ MaxEvents \in Nat \ {0} /\ Paid \in Nat \ {0} /\ MaxReading \in Nat
    /\ SameSecond \in BOOLEAN
    /\ Visits \cap (1..MaxEvents) = {}

VARIABLES
    refunded,   \* amount_refunded of the Charge
    dispute,    \* status of each dispute, "none" before it is opened
    clock,      \* Stripe's clock in seconds
    events,     \* the events sent: id |-> type and second of creation
    license,    \* the row of sidestream_licenses
    mark,       \* its watermark, <<0, 0>> for none
    reader,     \* what a reader has fetched so far
    handled,    \* events whose row in the queue is settled
    missed      \* those among them that found no licence and were ignored

vars == <<refunded, dispute, clock, events, license, mark, reader, handled, missed>>
stripe == <<refunded, dispute, clock, events>>

EventIds == 1..MaxEvents
Readers == EventIds \cup Visits
Types == {"checkout", "refund", "refund_failed", "dispute", "updated"}
Dispositions == {"none", "open", "won", "lost"}
Reasons == {"paid", "full_refund", "dispute_lost", "dispute_open"}

NoLicense == [status |-> "none", reason |-> "none"]

Idle == [stage |-> "idle", refunded |-> 0, disputed |-> FALSE, dispute |-> "none"]

\* Types; the watermark is that of an event Stripe has sent.
TypeOK ==
    /\ refunded \in 0..Paid
    /\ dispute \in [Disputes -> Dispositions]
    /\ clock \in Nat
    /\ DOMAIN events \subseteq EventIds
    /\ \A e \in DOMAIN events : events[e] \in [type : Types, created : 1..clock]
    /\ license \in [status : {"active", "suspended", "revoked"},
                    reason : Reasons] \cup {NoLicense}
    /\ mark = <<0, 0>> \/ \E e \in DOMAIN events : mark = <<events[e].created, e>>
    /\ reader \in [Readers -> [stage : {"idle", "charge", "facts"},
                               refunded : 0..Paid, disputed : BOOLEAN,
                               dispute : Dispositions]]
    /\ missed \subseteq handled
    /\ handled \subseteq DOMAIN events

-----------------------------------------------------------------------------
\* Stripe changes the payment and sends an event about it, under an id that
\* says nothing about its age; ids only decide between events of one second.
FreshIds ==
    LET unused == EventIds \ DOMAIN events
    IN IF SameSecond THEN unused ELSE {e \in unused : \A f \in unused : e <= f}

Send(type) ==
    /\ clock' \in (IF SameSecond THEN {clock, clock + 1} ELSE {clock + 1})
    /\ \E e \in FreshIds :
         events' = [x \in DOMAIN events \cup {e} |->
                      IF x = e THEN [type |-> type, created |-> clock']
                      ELSE events[x]]
    /\ UNCHANGED <<license, mark, reader, handled, missed>>

Refund ==
    /\ \E total \in refunded + 1 .. Paid : refunded' = total
    /\ Send("refund")
    /\ UNCHANGED dispute

\* Some of the refunds fail: the money is the merchant's again.
FailRefund ==
    /\ refunded > 0
    /\ \E total \in 0 .. refunded - 1 : refunded' = total
    /\ Send("refund_failed")
    /\ UNCHANGED dispute

MoveDispute(q) ==
    /\ \/ dispute[q] = "none" /\ dispute' = [dispute EXCEPT ![q] = "open"]
       \/ /\ dispute[q] = "open"
          /\ \E outcome \in {"won", "lost"} :
               dispute' = [dispute EXCEPT ![q] = outcome]
    /\ Send("dispute")
    /\ UNCHANGED refunded

\* charge.updated: anything else about the Charge changed.
UpdateCharge == Send("updated") /\ UNCHANGED <<refunded, dispute>>

\* The payment succeeded and the checkout event is out.
Init ==
    /\ refunded = 0
    /\ dispute = [q \in Disputes |-> "none"]
    /\ clock = 1
    /\ \E e \in (IF SameSecond THEN EventIds ELSE {1}) :
         events = [x \in {e} |-> [type |-> "checkout", created |-> 1]]
    /\ license = NoLicense
    /\ mark = <<0, 0>>
    /\ reader = [r \in Readers |-> Idle]
    /\ handled = {}
    /\ missed = {}

-----------------------------------------------------------------------------
\* retrieveCanonicalPaymentFacts, first the Charge ...
FetchCharge(r) ==
    /\ r \in Visits \/ r \in DOMAIN events \ handled
    /\ reader[r].stage = "idle"
    /\ Cardinality({x \in Readers : reader[x].stage # "idle"}) < MaxReading
    /\ reader' = [reader EXCEPT ![r] =
         [stage |-> "charge", refunded |-> refunded,
          disputed |-> \E q \in Disputes : dispute[q] # "none",
          dispute |-> "none"]]
    /\ UNCHANGED <<stripe, license, mark, handled, missed>>

\* ... then, if the Charge is disputed, its disputes: the worst of them counts.
Canonical ==
    LET statuses == {dispute[q] : q \in Disputes}
    IN IF "lost" \in statuses THEN "lost"
       ELSE IF "open" \in statuses THEN "open"
       ELSE IF "won" \in statuses THEN "won" ELSE "none"

FetchDisputes(r) ==
    /\ reader[r].stage = "charge"
    /\ reader' = [reader EXCEPT ![r].stage = "facts",
                                ![r].dispute =
                    IF reader[r].disputed THEN Canonical ELSE "none"]
    /\ UNCHANGED <<stripe, license, mark, handled, missed>>

\* A reader dies or a call of it fails; an event is claimed again later.
GiveUp(r) ==
    /\ reader[r].stage # "idle"
    /\ reader' = [reader EXCEPT ![r] = Idle]
    /\ UNCHANGED <<stripe, license, mark, handled, missed>>

-----------------------------------------------------------------------------
\* planOneTimeEntitlementTransition: the row the facts call for, given the
\* reason it has; losses and full refunds are sticky.
Recovers(r) ==
    /\ r \in EventIds
    /\ events[r].type = "refund_failed"
    /\ reader[r].refunded < Paid

\* Mutants: the row's own reason is not looked at; any event lifts a refund.
StickyNever(r) == "none"

StickyUntilRefundReturns(r) ==
    IF license.reason = "full_refund" /\ reader[r].refunded < Paid
    THEN "none" ELSE license.reason

Sticky(r) ==
    IF license.reason = "full_refund" /\ Recovers(r)
    THEN "none" ELSE license.reason

Row(status, reason) == [status |-> status, reason |-> reason]

Plan(r) ==
    CASE Sticky(r) = "dispute_lost" -> Row("revoked", "dispute_lost")
      [] Sticky(r) = "full_refund" -> Row("revoked", "full_refund")
      [] OTHER ->
           CASE reader[r].refunded >= Paid -> Row("revoked", "full_refund")
             [] reader[r].refunded < Paid /\ reader[r].dispute = "lost"
                  -> Row("revoked", "dispute_lost")
             [] reader[r].refunded < Paid /\ reader[r].dispute = "open"
                  -> Row("suspended", "dispute_open")
             [] reader[r].refunded < Paid /\ reader[r].dispute \in {"none", "won"}
                  -> IF Sticky(r) = "dispute_open" /\ reader[r].dispute = "none"
                     THEN Row("suspended", "dispute_open")
                     ELSE Row("active", "paid")

\* shouldApplyStripeEventWatermark.
Stamp(e) == <<events[e].created, e>>

\* Mutant: the watermark of the row is not compared.
NewerAlways(e) == TRUE

Newer(e) ==
    \/ mark[1] < events[e].created
    \/ mark[1] = events[e].created /\ mark[2] < e

\* Whether upsertLicenseFromOneTimeCheckoutSession applies the plan to a row
\* that exists: an event must be newer, a visit never brings access back.
\* Mutant: a visit may.
AppliesAnyVisit(r) == IF r \in Visits THEN TRUE ELSE Newer(r)

Applies(r) ==
    IF r \in Visits
    THEN license.status = "active" \/ Plan(r).status # "active"
    ELSE Newer(r)

\* What fulfils a Checkout Session, not an event about its payment.
Fulfilling == Visits \cup {e \in DOMAIN events : events[e].type = "checkout"}

Store(r) ==
    /\ license' = Plan(r)
    /\ mark' = IF r \in Visits THEN mark ELSE Stamp(r)

\* Mutant: the row of an ignored event is left to be claimed again.
FinishFound(r) ==
    /\ reader[r].stage = "facts"
    /\ reader' = [reader EXCEPT ![r] = Idle]
    /\ handled' = handled \cup
         IF license = NoLicense THEN {r} \cap Fulfilling \cap EventIds
         ELSE {r} \cap EventIds

Finish(r) ==
    /\ reader[r].stage = "facts"
    /\ reader' = [reader EXCEPT ![r] = Idle]
    /\ handled' = handled \cup ({r} \cap EventIds)

\* fulfillCheckoutSession: the row is inserted, or brought up to date.
Fulfil(r) ==
    /\ Finish(r)
    /\ r \in Fulfilling
    /\ \/ license = NoLicense /\ Store(r)
       \/ license # NoLicense /\ Applies(r) /\ Store(r)
       \/ license # NoLicense /\ ~Applies(r) /\ UNCHANGED <<license, mark>>
    /\ UNCHANGED <<stripe, missed>>

\* reconcileOneTimePaymentLifecycle: an event about a payment with no licence
\* yet is ignored, and its queue row is settled all the same.
Reconcile(r) ==
    /\ Finish(r)
    /\ r \notin Fulfilling
    /\ \/ /\ license = NoLicense
          /\ missed' = missed \cup {r}
          /\ UNCHANGED <<license, mark>>
       \/ license # NoLicense /\ Applies(r) /\ Store(r) /\ UNCHANGED missed
       \/ /\ license # NoLicense /\ ~Applies(r)
          /\ UNCHANGED <<license, mark, missed>>
    /\ UNCHANGED stripe

-----------------------------------------------------------------------------
Next ==
    \/ Refund
    \/ FailRefund
    \/ \E q \in Disputes : MoveDispute(q)
    \/ UpdateCharge
    \/ \E r \in Readers : FetchCharge(r)
    \/ \E r \in Readers : FetchDisputes(r)
    \/ \E r \in Readers : GiveUp(r)
    \/ \E r \in Readers : Fulfil(r)
    \/ \E r \in Readers : Reconcile(r)

Spec == Init /\ [][Next]_vars

-----------------------------------------------------------------------------
(* Properties *)

\* Nothing is under way: every event has been handled and no reader holds
\* facts it has yet to apply.
Quiet ==
    /\ handled = DOMAIN events
    /\ \A r \in Readers : reader[r].stage = "idle"

\* The newest second has one event, so its id decides nothing.
Untied ==
    \A e, f \in DOMAIN events :
        events[e].created = clock /\ events[f].created = clock => e = f

\* When the last event about a payment is handled, whatever order the events
\* came in and whatever facts their readers saw, a payment that is refunded in
\* full, lost, or in an open dispute gives no access.  Events handled before
\* there was a licence are left out (see FullRefundRevokes), and so are events
\* that share the newest second: their ids may put the older one last.
NoAccessAgainstFacts ==
    Quiet /\ missed = {} /\ Untied /\ license.status = "active"
        => refunded < Paid /\ Canonical \notin {"open", "lost"}

\* A lost dispute is never undone, by no event, visit or retry.
LostIsFinal ==
    [][license.reason = "dispute_lost" => license' = license]_vars

\* Access that was taken comes back only with an event newer than all those
\* applied: never from a visit, a repeated event or one that was overtaken.
RevivedOnlyByNewerEvent ==
    [][license.status \in {"suspended", "revoked"} /\ license'.status = "active"
         => \/ mark[1] < mark'[1]
            \/ mark[1] = mark'[1] /\ mark[2] < mark'[2]]_vars

\* A full refund is undone only by a refund.failed event whose worker saw the
\* Charge with less than the full amount refunded.
RefundUndoneOnlyByFailure ==
    [][license.reason = "full_refund" /\ license'.reason # "full_refund"
         => \E r \in DOMAIN events : Recovers(r) /\ mark' = Stamp(r)]_vars

\* docs/paid-acquisition-contract.md: a successful full refund sets the
\* entitlement revoked, once all that is known about it has been handled.
FullRefundRevokes ==
    Quiet /\ license # NoLicense /\ refunded = Paid => license.status # "active"

\* README.md: refund.failed restores access when Stripe shows less refunded
\* than paid (no dispute ever opened, and the licence known throughout).
FailedRefundRestores ==
    /\ Quiet /\ missed = {} /\ refunded < Paid /\ Canonical = "none"
    /\ \E e \in handled : events[e].type = "refund_failed"
    => license.status = "active"
=============================================================================

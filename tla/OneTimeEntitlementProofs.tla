--------------------- MODULE OneTimeEntitlementProofs ---------------------
(***************************************************************************)
(* Proofs about OneTimeEntitlement, for any number of events, visits and    *)
(* disputes, any amount, and events with or without seconds of their own.   *)
(* Only Fulfil and Reconcile write the licence, and both write Plan of a    *)
(* reader or nothing: what the plan may be is shown once, for both.         *)
(* Below, what follows a licence that is sold by the year or by the month:   *)
(* AnnualReminders, whose rows and mails are the state of MailInv, and       *)
(* Subscriptions, for both kinds, with SubInv.                               *)
(***************************************************************************)
EXTENDS OneTimeEntitlement, Sequences, FiniteSetTheorems, TLAPS

\* The rows there are: each reason goes with one status.
LicenseRows ==
    {NoLicense, Row("active", "paid"), Row("suspended", "dispute_open"),
     Row("revoked", "full_refund"), Row("revoked", "dispute_lost")}

\* Who holds facts is a visit or has an event that was sent: an event settled
\* by a reader exists, and so does the one the watermark becomes.
ReadersExist ==
    \A r \in Readers : reader[r].stage # "idle" => r \in Visits \cup DOMAIN events

IInv ==
    /\ TypeOK
    /\ clock >= 1
    /\ license \in LicenseRows
    /\ ReadersExist

-----------------------------------------------------------------------------
\* The plan is a row there may be, and keeps a lost dispute and, unless a
\* failed refund is seen, a full refund.
LEMMA PlanIsRow ==
    ASSUME IInv, NEW r \in Readers
    PROVE  /\ Plan(r) \in LicenseRows \ {NoLicense}
           /\ license.reason = "dispute_lost" => Plan(r) = license
           /\ license.reason = "full_refund" /\ ~Recovers(r) => Plan(r) = license
<1>1. reader[r].refunded \in 0..Paid /\ reader[r].dispute \in Dispositions
    BY DEF IInv, TypeOK
<1>2. Paid \in Nat
    BY EntitlementAssumption DEF EntitlementAssumption
<1>3. license \in LicenseRows
    BY DEF IInv
<1>4. Plan(r) \in LicenseRows \ {NoLicense}
    BY <1>1, <1>2, SMT DEF Plan, LicenseRows, NoLicense, Row, Dispositions
<1>5. license.reason = "dispute_lost" => Plan(r) = license
    BY <1>3 DEF Plan, Sticky, LicenseRows, NoLicense, Row
<1>6. license.reason = "full_refund" /\ ~Recovers(r) => Plan(r) = license
    BY <1>3 DEF Plan, Sticky, LicenseRows, NoLicense, Row
<1> QED
    BY <1>4, <1>5, <1>6

\* What Fulfil and Reconcile have in common: the licence and its watermark
\* stay, or the plan of a reader is stored that applies or finds no row.
LEMMA ApplySteps ==
    ASSUME NEW r \in Readers, Fulfil(r) \/ Reconcile(r)
    PROVE  \/ UNCHANGED <<license, mark>>
           \/ (license = NoLicense \/ Applies(r)) /\ Store(r)
    BY DEF Fulfil, Reconcile

LEMMA OtherSteps ==
    ASSUME [Next]_vars, ~\E r \in Readers : Fulfil(r) \/ Reconcile(r)
    PROVE  UNCHANGED <<license, mark>>
    BY DEF Next, vars, Refund, FailRefund, MoveDispute, UpdateCharge, Send,
           FetchCharge, FetchDisputes, GiveUp

-----------------------------------------------------------------------------
LEMMA InitInv == Init => IInv
<1> SUFFICES ASSUME Init PROVE IInv
    OBVIOUS
<1>1. PICK e \in EventIds :
        events = [x \in {e} |-> [type |-> "checkout", created |-> 1]]
  <2>1. 1 \in EventIds
      BY EntitlementAssumption DEF EntitlementAssumption, EventIds
  <2> QED
      BY <2>1 DEF Init
<1>2. DOMAIN events \subseteq EventIds
        /\ \A x \in DOMAIN events : events[x] \in [type : Types, created : 1..clock]
    BY <1>1 DEF Init, Types
<1> QED
    BY <1>2, EntitlementAssumption
    DEF Init, IInv, TypeOK, ReadersExist, LicenseRows, EntitlementAssumption,
        Dispositions, Idle, NoLicense

\* Stripe sends an event: nothing here moves but its own side.
LEMMA SendInv ==
    ASSUME IInv, NEW type \in Types, Send(type),
           refunded' \in 0..Paid, dispute' \in [Disputes -> Dispositions]
    PROVE  IInv'
<1>1. PICK e \in FreshIds :
        events' = [x \in DOMAIN events \cup {e} |->
                     IF x = e THEN [type |-> type, created |-> clock']
                     ELSE events[x]]
    BY DEF Send
<1>2. e \in EventIds /\ e \notin DOMAIN events
    BY <1>1 DEF FreshIds
<1>3. clock \in Nat /\ clock' \in Nat /\ clock <= clock'
    BY DEF Send, IInv, TypeOK
<1>4. /\ DOMAIN events' = DOMAIN events \cup {e}
      /\ events'[e] = [type |-> type, created |-> clock']
      /\ \A x \in DOMAIN events : events'[x] = events[x]
    BY <1>1, <1>2
<1>5. UNCHANGED <<license, mark, reader, handled, missed>>
    BY DEF Send
<1>6. clock' >= 1
    BY <1>3 DEF IInv
<1> QED
    BY <1>2, <1>3, <1>4, <1>5, <1>6 DEF IInv, TypeOK, ReadersExist

LEMMA RefundInv == ASSUME IInv, Refund PROVE IInv'
<1>1. refunded' \in 0..Paid
    BY EntitlementAssumption DEF Refund, IInv, TypeOK, EntitlementAssumption
<1> QED
    BY <1>1, SendInv DEF Refund, IInv, TypeOK, Types

LEMMA FailRefundInv == ASSUME IInv, FailRefund PROVE IInv'
<1>1. refunded' \in 0..Paid
    BY EntitlementAssumption DEF FailRefund, IInv, TypeOK, EntitlementAssumption
<1> QED
    BY <1>1, SendInv DEF FailRefund, IInv, TypeOK, Types

LEMMA MoveDisputeInv ==
    ASSUME IInv, NEW q \in Disputes, MoveDispute(q) PROVE IInv'
<1>1. dispute' \in [Disputes -> Dispositions]
    BY DEF MoveDispute, IInv, TypeOK, Dispositions
<1> QED
    BY <1>1, SendInv DEF MoveDispute, IInv, TypeOK, Types

LEMMA UpdateChargeInv == ASSUME IInv, UpdateCharge PROVE IInv'
    BY SendInv DEF UpdateCharge, IInv, TypeOK, Types

\* A reader fetches, or gives up.
LEMMA FetchChargeInv ==
    ASSUME IInv, NEW r \in Readers, FetchCharge(r) PROVE IInv'
<1>1. r \in Visits \cup DOMAIN events
    BY DEF FetchCharge
<1>2. reader' \in [Readers -> [stage : {"idle", "charge", "facts"},
                              refunded : 0..Paid, disputed : BOOLEAN,
                              dispute : Dispositions]]
    BY DEF FetchCharge, IInv, TypeOK, Dispositions
<1> QED
    BY <1>1, <1>2 DEF FetchCharge, IInv, TypeOK, ReadersExist, stripe

LEMMA FetchDisputesInv ==
    ASSUME IInv, NEW r \in Readers, FetchDisputes(r) PROVE IInv'
<1>1. reader[r].stage # "idle"
    BY DEF FetchDisputes
<1>2. Canonical \in Dispositions
    BY DEF Canonical, Dispositions
<1>3. reader' \in [Readers -> [stage : {"idle", "charge", "facts"},
                              refunded : 0..Paid, disputed : BOOLEAN,
                              dispute : Dispositions]]
  <2>1. reader[r] \in [stage : {"idle", "charge", "facts"}, refunded : 0..Paid,
                      disputed : BOOLEAN, dispute : Dispositions]
      BY DEF IInv, TypeOK
  <2>2. (IF reader[r].disputed THEN Canonical ELSE "none") \in Dispositions
      BY <1>2 DEF Dispositions
  <2>3. reader' = [reader EXCEPT ![r] =
          [[@ EXCEPT !.stage = "facts"] EXCEPT !.dispute =
             IF reader[r].disputed THEN Canonical ELSE "none"]]
      BY DEF FetchDisputes, IInv, TypeOK
  <2> QED
      BY <2>1, <2>2, <2>3 DEF IInv, TypeOK
<1>4. \A x \in Readers : reader'[x].stage # "idle" => reader[x].stage # "idle"
    BY <1>1 DEF FetchDisputes, IInv, TypeOK
<1> QED
    BY <1>3, <1>4 DEF FetchDisputes, IInv, TypeOK, ReadersExist, stripe

LEMMA GiveUpInv == ASSUME IInv, NEW r \in Readers, GiveUp(r) PROVE IInv'
<1>1. reader' \in [Readers -> [stage : {"idle", "charge", "facts"},
                              refunded : 0..Paid, disputed : BOOLEAN,
                              dispute : Dispositions]]
    BY EntitlementAssumption
    DEF GiveUp, IInv, TypeOK, Dispositions, Idle, EntitlementAssumption
<1>2. \A x \in Readers : reader'[x].stage # "idle" => reader[x].stage # "idle"
    BY DEF GiveUp, IInv, TypeOK, Idle
<1> QED
    BY <1>1, <1>2 DEF GiveUp, IInv, TypeOK, ReadersExist, stripe

\* A reader applies what it fetched.
LEMMA FinishInv ==
    ASSUME IInv, NEW r \in Readers, Finish(r), missed' \subseteq missed \cup {r},
           r \in Visits => missed' = missed
    PROVE  /\ missed' \subseteq handled'
           /\ handled' \subseteq DOMAIN events
           /\ reader' \in [Readers -> [stage : {"idle", "charge", "facts"},
                              refunded : 0..Paid, disputed : BOOLEAN,
                              dispute : Dispositions]]
           /\ \A x \in Readers :
                reader'[x].stage # "idle" => reader[x].stage # "idle"
<1>1. r \in Visits \cup DOMAIN events
    BY DEF Finish, IInv, ReadersExist
<1>2. {r} \cap EventIds \subseteq DOMAIN events
    BY <1>1, EntitlementAssumption DEF EntitlementAssumption, EventIds
<1>3. missed' \subseteq handled'
    BY <1>1 DEF Finish, IInv, TypeOK, Readers
<1>4. handled' \subseteq DOMAIN events
    BY <1>2 DEF Finish, IInv, TypeOK
<1>5. reader' \in [Readers -> [stage : {"idle", "charge", "facts"},
                              refunded : 0..Paid, disputed : BOOLEAN,
                              dispute : Dispositions]]
    BY EntitlementAssumption
    DEF Finish, IInv, TypeOK, Dispositions, Idle, EntitlementAssumption
<1>6. \A x \in Readers : reader'[x].stage # "idle" => reader[x].stage # "idle"
    BY DEF Finish, IInv, TypeOK, Idle
<1> QED
    BY <1>3, <1>4, <1>5, <1>6

LEMMA ApplyInv ==
    ASSUME IInv, NEW r \in Readers, Fulfil(r) \/ Reconcile(r)
    PROVE  IInv'
<1>1. UNCHANGED stripe /\ Finish(r)
    BY DEF Fulfil, Reconcile
<1>2. missed' \subseteq missed \cup {r} /\ (r \in Visits => missed' = missed)
    BY DEF Fulfil, Reconcile, Fulfilling
<1>3. r \in Visits \cup DOMAIN events
    BY <1>1 DEF Finish, IInv, ReadersExist
<1>4. license' \in LicenseRows
    BY ApplySteps, PlanIsRow DEF Store, IInv
<1>5. mark' = mark \/ (r \in DOMAIN events /\ mark' = <<events[r].created, r>>)
    BY <1>3, ApplySteps DEF Store, Stamp
<1>6. license' \in [status : {"active", "suspended", "revoked"},
                    reason : Reasons] \cup {NoLicense}
    BY <1>4 DEF LicenseRows, Row, Reasons
<1>7. TypeOK'
    BY <1>1, <1>2, <1>5, <1>6, FinishInv DEF IInv, TypeOK, stripe
<1>8. ReadersExist'
    BY <1>1, <1>2, FinishInv DEF IInv, ReadersExist, stripe
<1> QED
    BY <1>1, <1>4, <1>7, <1>8 DEF IInv, stripe

LEMMA NextInv == IInv /\ [Next]_vars => IInv'
<1> SUFFICES ASSUME IInv, [Next]_vars PROVE IInv'
    OBVIOUS
<1>1. CASE Refund
    BY <1>1, RefundInv
<1>2. CASE FailRefund
    BY <1>2, FailRefundInv
<1>3. CASE \E q \in Disputes : MoveDispute(q)
    BY <1>3, MoveDisputeInv
<1>4. CASE UpdateCharge
    BY <1>4, UpdateChargeInv
<1>5. CASE \E r \in Readers : FetchCharge(r)
    BY <1>5, FetchChargeInv
<1>6. CASE \E r \in Readers : FetchDisputes(r)
    BY <1>6, FetchDisputesInv
<1>7. CASE \E r \in Readers : GiveUp(r)
    BY <1>7, GiveUpInv
<1>8. CASE \E r \in Readers : Fulfil(r)
    BY <1>8, ApplyInv
<1>9. CASE \E r \in Readers : Reconcile(r)
    BY <1>9, ApplyInv
<1>10. CASE UNCHANGED vars
    BY <1>10 DEF vars, IInv, TypeOK, ReadersExist, Canonical
<1> QED
    BY <1>1, <1>2, <1>3, <1>4, <1>5, <1>6, <1>7, <1>8, <1>9, <1>10 DEF Next

LEMMA Invariance == Spec => []IInv
    BY InitInv, NextInv, PTL DEF Spec

-----------------------------------------------------------------------------
\* Types hold, and the watermark is always that of an event that was sent.
THEOREM TypeCorrect == Spec => []TypeOK
<1>1. IInv => TypeOK
    BY DEF IInv
<1> QED
    BY <1>1, Invariance, PTL

\* Once a lost dispute has revoked a licence (planOneTimeEntitlementTransition)
\* no event, visit or retry changes the row.
THEOREM LostFinal == Spec => LostIsFinal
<1>1. IInv /\ [Next]_vars /\ license.reason = "dispute_lost" => license' = license
  <2> SUFFICES ASSUME IInv, [Next]_vars, license.reason = "dispute_lost"
               PROVE  license' = license
      OBVIOUS
  <2>1. CASE \E r \in Readers : Fulfil(r) \/ Reconcile(r)
      BY <2>1, ApplySteps, PlanIsRow DEF Store
  <2>2. CASE ~\E r \in Readers : Fulfil(r) \/ Reconcile(r)
      BY <2>2, OtherSteps
  <2> QED
      BY <2>1, <2>2
<1>2. IInv /\ [Next]_vars => [license.reason = "dispute_lost" => license' = license]_vars
    BY <1>1
<1> QED
    BY <1>2, Invariance, PTL DEF Spec, LostIsFinal

\* Access that was taken returns only with an event whose stamp is above the
\* watermark (shouldApplyStripeEventWatermark); a visit never brings it back.
THEOREM RevivedByNewer == Spec => RevivedOnlyByNewerEvent
<1> DEFINE Revived == license.status \in {"suspended", "revoked"}
                        /\ license'.status = "active"
           Above == \/ mark[1] < mark'[1]
                    \/ mark[1] = mark'[1] /\ mark[2] < mark'[2]
<1>1. IInv /\ [Next]_vars /\ Revived => Above
  <2> SUFFICES ASSUME IInv, [Next]_vars, Revived PROVE Above
      OBVIOUS
  <2>1. PICK r \in Readers : Fulfil(r) \/ Reconcile(r)
      BY OtherSteps
  <2>2. license # NoLicense
      BY DEF NoLicense
  <2>3. Applies(r) /\ Store(r)
      BY <2>1, <2>2, ApplySteps
  <2>4. license' = Plan(r)
      BY <2>3 DEF Store
  <2>5. r \notin Visits
      BY <2>3, <2>4 DEF Applies
  <2>6. Newer(r) /\ mark' = <<events[r].created, r>>
      BY <2>3, <2>5 DEF Applies, Store, Stamp
  <2> QED
      BY <2>6 DEF Newer
<1>2. IInv /\ [Next]_vars => [Revived => Above]_vars
    BY <1>1
<1>3. Spec => [][Revived => Above]_vars
    BY <1>2, Invariance, PTL DEF Spec
<1> QED
    BY <1>3 DEF RevivedOnlyByNewerEvent

\* A full refund is lifted only in the hands of a refund.failed event whose
\* reader saw less than the full amount refunded.
THEOREM RefundUndoneByFailure == Spec => RefundUndoneOnlyByFailure
<1> DEFINE Undone == license.reason = "full_refund" /\ license'.reason # "full_refund"
           ByFailure == \E r \in DOMAIN events : Recovers(r) /\ mark' = Stamp(r)
<1>1. IInv /\ [Next]_vars /\ Undone => ByFailure
  <2> SUFFICES ASSUME IInv, [Next]_vars, Undone PROVE ByFailure
      OBVIOUS
  <2>1. PICK r \in Readers : Fulfil(r) \/ Reconcile(r)
      BY OtherSteps
  <2>2. license # NoLicense
      BY DEF NoLicense
  <2>3. Store(r)
      BY <2>1, <2>2, ApplySteps
  <2>4. Recovers(r)
      BY <2>3, PlanIsRow DEF Store
  <2>5. r \in EventIds /\ r \notin Visits
      BY <2>4, EntitlementAssumption DEF Recovers, EventIds, EntitlementAssumption
  <2>6. r \in DOMAIN events
      BY <2>1, <2>5 DEF Fulfil, Reconcile, Finish, IInv, ReadersExist
  <2> QED
      BY <2>3, <2>4, <2>5, <2>6 DEF Store
<1>2. IInv /\ [Next]_vars => [Undone => ByFailure]_vars
    BY <1>1
<1>3. Spec => [][Undone => ByFailure]_vars
    BY <1>2, Invariance, PTL DEF Spec
<1> QED
    BY <1>3 DEF RefundUndoneOnlyByFailure

-----------------------------------------------------------------------------
(* No access against the facts.  The watermark is above every event that was *)
(* settled, the newest event's reader holds what Stripe still says, and a    *)
(* licence that bears the newest event's stamp was planned from that.        *)

\* No reader of an event ever left it settled and above the watermark.
SettledBelowMark == \A e \in handled \ missed : ~Newer(e)

NoRowNoMark == license = NoLicense => mark = <<0, 0>>

NewestIsThere == \E e \in DOMAIN events : events[e].created = clock

Disputed == \E q \in Disputes : dispute[q] # "none"

\* What the reader of the newest event has fetched is not out of date: Stripe
\* changes nothing without a newer event.
NewestReaderIsFresh ==
    Untied => \A e \in DOMAIN events : events[e].created = clock =>
        /\ reader[e].stage = "charge" =>
             reader[e].refunded = refunded /\ reader[e].disputed = Disputed
        /\ reader[e].stage = "facts" =>
             reader[e].refunded = refunded /\ reader[e].dispute = Canonical

\* Access under the newest event's stamp accords with the facts.
NewestStampIsTrue ==
    Untied => \A e \in DOMAIN events :
        events[e].created = clock /\ mark = Stamp(e) /\ license.status = "active"
          => refunded < Paid /\ Canonical \notin {"open", "lost"}

FactsInv ==
    /\ IInv
    /\ SettledBelowMark
    /\ NoRowNoMark
    /\ NewestIsThere
    /\ NewestReaderIsFresh
    /\ NewestStampIsTrue

LEMMA FactsInit == Init => FactsInv
<1> SUFFICES ASSUME Init PROVE FactsInv
    OBVIOUS
<1>1. PICK e \in EventIds :
        events = [x \in {e} |-> [type |-> "checkout", created |-> 1]]
  <2>1. 1 \in EventIds
      BY EntitlementAssumption DEF EntitlementAssumption, EventIds
  <2> QED
      BY <2>1 DEF Init
<1>2. IInv
    BY InitInv
<1>3. \A x \in DOMAIN events : reader[x].stage = "idle"
    BY <1>1 DEF Init, Readers, Idle
<1>4. NewestIsThere
    BY <1>1 DEF Init, NewestIsThere
<1>5. NewestStampIsTrue
    BY DEF Init, NewestStampIsTrue, NoLicense
<1> QED
    BY <1>2, <1>3, <1>4, <1>5
    DEF Init, FactsInv, SettledBelowMark, NoRowNoMark, NewestReaderIsFresh

\* A new event is untouched: no reader has it and no row bears its stamp.
LEMMA FactsSend ==
    ASSUME FactsInv, NEW type \in Types, Send(type),
           refunded' \in 0..Paid, dispute' \in [Disputes -> Dispositions]
    PROVE  FactsInv'
<1>1. PICK e \in FreshIds :
        events' = [x \in DOMAIN events \cup {e} |->
                     IF x = e THEN [type |-> type, created |-> clock']
                     ELSE events[x]]
    BY DEF Send
<1>2. e \in EventIds /\ e \notin DOMAIN events /\ e \notin Visits /\ e \in Nat \ {0}
    BY <1>1, EntitlementAssumption DEF FreshIds, EntitlementAssumption, EventIds
<1>3. /\ DOMAIN events' = DOMAIN events \cup {e}
      /\ events'[e] = [type |-> type, created |-> clock']
      /\ \A x \in DOMAIN events : events'[x] = events[x]
    BY <1>1, <1>2
<1>4. UNCHANGED <<license, mark, reader, handled, missed>>
    BY DEF Send
<1>5. IInv'
    BY SendInv DEF FactsInv
<1>6. SettledBelowMark'
  <2>1. handled \subseteq DOMAIN events
      BY DEF FactsInv, IInv, TypeOK
  <2> QED
      BY <1>3, <1>4, <2>1 DEF FactsInv, SettledBelowMark, Newer
<1>7. NewestIsThere'
    BY <1>3 DEF NewestIsThere
<1>8. Untied' => \A x \in DOMAIN events' : events'[x].created = clock' => x = e
    BY <1>3 DEF Untied
<1>9. reader'[e].stage = "idle"
  <2>1. e \in Readers
      BY <1>2 DEF Readers
  <2> QED
      BY <1>2, <1>4, <2>1 DEF FactsInv, IInv, ReadersExist
<1>10. NewestReaderIsFresh'
    BY <1>8, <1>9 DEF NewestReaderIsFresh
<1>11. mark' # Stamp(e)'
    BY <1>2, <1>4 DEF FactsInv, IInv, TypeOK, Stamp
<1>12. NewestStampIsTrue'
    BY <1>8, <1>11 DEF NewestStampIsTrue
<1> QED
    BY <1>4, <1>5, <1>6, <1>7, <1>10, <1>12 DEF FactsInv, NoRowNoMark

\* While Stripe, the row and the queue stay as they are, only what a reader
\* holds is at stake.
LEMMA FactsReader ==
    ASSUME FactsInv, IInv', UNCHANGED stripe, UNCHANGED <<license, mark, handled, missed>>,
           NewestReaderIsFresh'
    PROVE  FactsInv'
  BY DEF FactsInv, stripe, SettledBelowMark, NoRowNoMark, NewestIsThere, NewestStampIsTrue,
         Newer, Stamp, Untied, Canonical

LEMMA FactsFetchCharge ==
    ASSUME FactsInv, NEW r \in Readers, FetchCharge(r) PROVE FactsInv'
<1>1. UNCHANGED stripe /\ UNCHANGED <<license, mark, handled, missed>>
    BY DEF FetchCharge
<1>2. IInv'
    BY FetchChargeInv DEF FactsInv
<1>3. /\ reader'[r].stage = "charge" /\ reader'[r].refunded = refunded
      /\ reader'[r].disputed = Disputed
      /\ \A x \in Readers : x # r => reader'[x] = reader[x]
    BY DEF FetchCharge, FactsInv, IInv, TypeOK, Disputed
<1>4. NewestReaderIsFresh'
  <2>1. DOMAIN events \subseteq Readers
      BY DEF FactsInv, IInv, TypeOK, Readers
  <2>2. Disputed' = Disputed /\ Canonical' = Canonical /\ Untied' = Untied
      BY <1>1 DEF stripe, Disputed, Canonical, Untied
  <2>3. UNCHANGED <<refunded, clock, events>>
      BY <1>1 DEF stripe
  <2> QED
      BY <1>3, <2>1, <2>2, <2>3 DEF FactsInv, NewestReaderIsFresh
<1> QED
    BY <1>1, <1>2, <1>4, FactsReader

LEMMA FactsFetchDisputes ==
    ASSUME FactsInv, NEW r \in Readers, FetchDisputes(r) PROVE FactsInv'
<1>1. UNCHANGED stripe /\ UNCHANGED <<license, mark, handled, missed>>
    BY DEF FetchDisputes
<1>2. IInv'
    BY FetchDisputesInv DEF FactsInv
<1>3. /\ reader[r].stage = "charge"
      /\ reader'[r].stage = "facts" /\ reader'[r].refunded = reader[r].refunded
      /\ reader'[r].dispute = IF reader[r].disputed THEN Canonical ELSE "none"
      /\ \A x \in Readers : x # r => reader'[x] = reader[x]
    BY DEF FetchDisputes, FactsInv, IInv, TypeOK
<1>4. ~Disputed => Canonical = "none"
    BY DEF Disputed, Canonical
<1>5. NewestReaderIsFresh'
  <2>1. DOMAIN events \subseteq Readers
      BY DEF FactsInv, IInv, TypeOK, Readers
  <2>2. Disputed' = Disputed /\ Canonical' = Canonical /\ Untied' = Untied
      BY <1>1 DEF stripe, Disputed, Canonical, Untied
  <2> SUFFICES ASSUME Untied, NEW e \in DOMAIN events, events[e].created = clock
               PROVE  /\ reader'[e].stage = "charge" =>
                           reader'[e].refunded = refunded /\ reader'[e].disputed = Disputed
                      /\ reader'[e].stage = "facts" =>
                           reader'[e].refunded = refunded /\ reader'[e].dispute = Canonical
      BY <1>1, <2>2 DEF stripe, NewestReaderIsFresh
  <2>3. /\ reader[e].stage = "charge" =>
             reader[e].refunded = refunded /\ reader[e].disputed = Disputed
        /\ reader[e].stage = "facts" =>
             reader[e].refunded = refunded /\ reader[e].dispute = Canonical
      BY DEF FactsInv, NewestReaderIsFresh
  <2>4. CASE e = r
    <3>1. reader[r].disputed = Disputed /\ reader[r].refunded = refunded
        BY <1>3, <2>3, <2>4
    <3>2. reader'[r].dispute = Canonical
        BY <1>3, <1>4, <3>1
    <3> QED
        BY <1>3, <2>4, <3>1, <3>2
  <2>5. CASE e # r
      BY <1>3, <2>1, <2>3, <2>5
  <2> QED
      BY <2>4, <2>5
<1> QED
    BY <1>1, <1>2, <1>5, FactsReader

LEMMA FactsGiveUp ==
    ASSUME FactsInv, NEW r \in Readers, GiveUp(r) PROVE FactsInv'
<1>1. UNCHANGED stripe /\ UNCHANGED <<license, mark, handled, missed>>
    BY DEF GiveUp
<1>2. IInv'
    BY GiveUpInv DEF FactsInv
<1>3. /\ reader'[r].stage = "idle"
      /\ \A x \in Readers : x # r => reader'[x] = reader[x]
    BY DEF GiveUp, FactsInv, IInv, TypeOK, Idle
<1>4. NewestReaderIsFresh'
  <2>1. DOMAIN events \subseteq Readers
      BY DEF FactsInv, IInv, TypeOK, Readers
  <2>2. Disputed' = Disputed /\ Canonical' = Canonical /\ Untied' = Untied
      BY <1>1 DEF stripe, Disputed, Canonical, Untied
  <2>3. UNCHANGED <<refunded, clock, events>>
      BY <1>1 DEF stripe
  <2> QED
      BY <1>3, <2>1, <2>2, <2>3 DEF FactsInv, NewestReaderIsFresh
<1> QED
    BY <1>1, <1>2, <1>4, FactsReader

\* The mark only rises: what lies below it stays below it.
LEMMA MarkRises ==
    ASSUME IInv, NEW e \in DOMAIN events, NEW r \in DOMAIN events, ~Newer(e), Newer(r),
           mark' = Stamp(r), events' = events
    PROVE  ~Newer(e)'
<1>1. events[e].created \in Nat /\ events[r].created \in Nat /\ e \in Nat /\ r \in Nat
    BY EntitlementAssumption DEF IInv, TypeOK, EventIds, EntitlementAssumption
<1>2. mark[1] \in Nat /\ mark[2] \in Nat
    BY EntitlementAssumption DEF IInv, TypeOK, EventIds, EntitlementAssumption
<1> QED
    BY <1>1, <1>2 DEF Newer, Stamp

LEMMA FactsApply ==
    ASSUME FactsInv, NEW r \in Readers, Fulfil(r) \/ Reconcile(r)
    PROVE  FactsInv'
<1>1. UNCHANGED stripe /\ Finish(r) /\ IInv /\ IInv'
    BY ApplyInv DEF Fulfil, Reconcile, FactsInv
<1>2. r \in Visits \cup DOMAIN events /\ DOMAIN events \subseteq Readers
    BY <1>1 DEF Finish, IInv, ReadersExist, TypeOK, Readers
<1>3. \A x \in Visits : x \notin DOMAIN events
    BY EntitlementAssumption DEF EntitlementAssumption, FactsInv, IInv, TypeOK, EventIds
<1>4. /\ reader[r].stage = "facts" /\ reader'[r].stage = "idle"
      /\ \A x \in Readers : x # r => reader'[x] = reader[x]
    BY <1>1 DEF Finish, IInv, TypeOK, Idle
<1>5. \/ UNCHANGED <<license, mark>> /\ (r \notin Visits => license = NoLicense \/ ~Newer(r))
      \/ (license = NoLicense \/ Applies(r)) /\ Store(r)
  <2>1. ASSUME r \notin Visits, license # NoLicense, ~Applies(r) PROVE ~Newer(r)
      BY <2>1 DEF Applies
  <2>2. \/ license = NoLicense /\ (Store(r) \/ UNCHANGED <<license, mark>>)
        \/ license # NoLicense /\ Applies(r) /\ Store(r)
        \/ license # NoLicense /\ ~Applies(r) /\ UNCHANGED <<license, mark>>
      BY DEF Fulfil, Reconcile
  <2> QED
      BY <2>1, <2>2
<1>6. license = NoLicense => handled \subseteq missed
  <2>1. ASSUME license = NoLicense, NEW e \in handled \ missed PROVE FALSE
    <3>1. mark = <<0, 0>> /\ ~Newer(e) /\ e \in DOMAIN events
        BY <2>1 DEF FactsInv, NoRowNoMark, SettledBelowMark, IInv, TypeOK
    <3>2. events[e].created \in 1..clock /\ clock \in Nat
        BY <3>1 DEF FactsInv, IInv, TypeOK
    <3>3. mark[1] < events[e].created
      <4>1. mark[1] = 0
          BY <3>1
      <4> QED
          BY <3>2, <4>1
    <3> QED
        BY <3>1, <3>3 DEF Newer
  <2> QED
      BY <2>1
<1>7. NewestReaderIsFresh'
  <2>1. Disputed' = Disputed /\ Canonical' = Canonical /\ Untied' = Untied
      BY <1>1 DEF stripe, Disputed, Canonical, Untied
  <2>2. UNCHANGED <<refunded, clock, events>>
      BY <1>1 DEF stripe
  <2> QED
      BY <1>2, <1>4, <2>1, <2>2 DEF FactsInv, NewestReaderIsFresh
<1>8. NewestIsThere'
    BY <1>1 DEF stripe, FactsInv, NewestIsThere
<1>9. NoRowNoMark'
  <2>1. Store(r) => license' # NoLicense
      BY <1>1, PlanIsRow DEF Store
  <2> QED
      BY <1>5, <2>1 DEF FactsInv, NoRowNoMark
<1>10. SettledBelowMark'
  <2> SUFFICES ASSUME NEW e \in handled' \ missed' PROVE ~Newer(e)'
      BY DEF SettledBelowMark
  <2>1. e \in DOMAIN events /\ events' = events /\ (r \in DOMAIN events \/ r \in Visits)
      BY <1>1, <1>2 DEF IInv, TypeOK, stripe
  <2>2. handled' = handled \cup ({r} \cap EventIds) /\ missed \subseteq missed'
      BY <1>1 DEF Finish, Fulfil, Reconcile
  <2>3. events' = events /\ e \in DOMAIN events
      BY <1>1 DEF IInv, TypeOK, stripe
  <2>4. CASE e = r
    <3>1. r \notin Visits
        BY <1>3, <2>3, <2>4
    <3>2. CASE UNCHANGED mark /\ ~Newer(r)
        BY <2>3, <2>4, <3>2 DEF Newer
    <3>3. CASE Store(r)
      <4>1. mark' = <<events[r].created, r>>
          BY <3>1, <3>3 DEF Store, Stamp
      <4>2. events[r].created \in Nat /\ r \in Nat
          BY <1>1, <2>3, <2>4, EntitlementAssumption
          DEF IInv, TypeOK, EventIds, EntitlementAssumption
      <4> QED
          BY <2>3, <2>4, <4>1, <4>2 DEF Newer
    <3>4. CASE UNCHANGED <<license, mark>> /\ license = NoLicense
      <4>1. r \in missed'
        <5>1. CASE Reconcile(r)
            BY <3>4, <5>1 DEF Reconcile
        <5>2. CASE Fulfil(r)
            BY <1>1, <3>4, <5>2, PlanIsRow DEF Fulfil, Store
        <5> QED
            BY <5>1, <5>2
      <4> QED
          BY <2>4, <4>1
    <3> QED
        BY <1>5, <3>1, <3>2, <3>3, <3>4
  <2>5. CASE e # r
    <3>1. e \in handled \ missed /\ ~Newer(e) /\ license # NoLicense
        BY <1>6, <2>2, <2>5 DEF FactsInv, SettledBelowMark
    <3>2. CASE UNCHANGED mark
        BY <2>3, <3>1, <3>2 DEF Newer
    <3>3. CASE Store(r) /\ Applies(r) /\ r \notin Visits
      <4>1. Newer(r) /\ mark' = Stamp(r) /\ r \in DOMAIN events
          BY <1>2, <3>3 DEF Applies, Store
      <4> QED
          BY <1>1, <2>3, <3>1, <4>1, MarkRises
    <3> QED
        BY <1>5, <3>1, <3>2, <3>3 DEF Store
  <2> QED
      BY <2>4, <2>5
<1>11. NewestStampIsTrue'
  <2> SUFFICES ASSUME Untied, NEW e \in DOMAIN events, events[e].created = clock,
                      mark' = Stamp(e), license'.status = "active"
               PROVE  refunded < Paid /\ Canonical \notin {"open", "lost"}
      BY <1>1 DEF stripe, NewestStampIsTrue, Untied, Stamp, Canonical
  <2>1. mark = Stamp(e) /\ license.status = "active" => refunded < Paid /\ Canonical \notin {"open", "lost"}
      BY DEF FactsInv, NewestStampIsTrue
  <2>2. mark = Stamp(e) => license # NoLicense
    <3>1. e # 0
        BY EntitlementAssumption DEF FactsInv, IInv, TypeOK, EventIds, EntitlementAssumption
    <3> QED
        BY <3>1 DEF Stamp, FactsInv, NoRowNoMark
  <2>3. CASE UNCHANGED <<license, mark>>
      BY <2>1, <2>3
  <2>4. CASE r \in Visits /\ Store(r)
    <3>1. mark = Stamp(e) /\ license # NoLicense /\ license' = Plan(r)
        BY <2>2, <2>4 DEF Store
    <3>2. license.status = "active"
        BY <1>5, <2>4, <3>1 DEF Applies
    <3> QED
        BY <2>1, <3>1, <3>2
  <2>5. CASE r \notin Visits /\ Store(r)
    <3>1. e = r /\ license' = Plan(r)
        BY <2>5 DEF Store, Stamp
    <3>2. reader[e].refunded = refunded /\ reader[e].dispute = Canonical
        BY <1>4, <3>1 DEF FactsInv, NewestReaderIsFresh
    <3>3. refunded \in 0..Paid /\ Paid \in Nat
        BY EntitlementAssumption DEF EntitlementAssumption, FactsInv, IInv, TypeOK
    <3>4. Canonical \in Dispositions
        BY DEF Canonical, Dispositions
    <3> QED
        BY <3>1, <3>2, <3>3, <3>4 DEF Plan, Row, Dispositions
  <2> QED
      BY <1>5, <2>3, <2>4, <2>5
<1> QED
    BY <1>1, <1>7, <1>8, <1>9, <1>10, <1>11 DEF FactsInv

LEMMA FactsNext == FactsInv /\ [Next]_vars => FactsInv'
<1> SUFFICES ASSUME FactsInv, [Next]_vars PROVE FactsInv'
    OBVIOUS
<1>1. refunded \in 0..Paid /\ dispute \in [Disputes -> Dispositions] /\ Paid \in Nat
    BY EntitlementAssumption DEF EntitlementAssumption, FactsInv, IInv, TypeOK
<1>2. CASE Refund
    BY <1>1, <1>2, FactsSend DEF Refund, Types
<1>3. CASE FailRefund
    BY <1>1, <1>3, FactsSend DEF FailRefund, Types
<1>4. CASE \E q \in Disputes : MoveDispute(q)
  <2>1. PICK q \in Disputes : MoveDispute(q)
      BY <1>4
  <2>2. dispute' \in [Disputes -> Dispositions]
      BY <1>1, <2>1 DEF MoveDispute, Dispositions
  <2> QED
      BY <1>1, <2>1, <2>2, FactsSend DEF MoveDispute, Types
<1>5. CASE UpdateCharge
    BY <1>1, <1>5, FactsSend DEF UpdateCharge, Types
<1>6. CASE \E r \in Readers : FetchCharge(r)
    BY <1>6, FactsFetchCharge
<1>7. CASE \E r \in Readers : FetchDisputes(r)
    BY <1>7, FactsFetchDisputes
<1>8. CASE \E r \in Readers : GiveUp(r)
    BY <1>8, FactsGiveUp
<1>9. CASE \E r \in Readers : Fulfil(r) \/ Reconcile(r)
    BY <1>9, FactsApply
<1>10. CASE UNCHANGED vars
  <2>1. IInv'
      BY <1>10, NextInv DEF FactsInv
  <2>2. NewestReaderIsFresh'
    <3>1. /\ events' = events /\ clock' = clock /\ reader' = reader /\ refunded' = refunded
          /\ dispute' = dispute
        BY <1>10 DEF vars
    <3>2. Untied' = Untied /\ Disputed' = Disputed /\ Canonical' = Canonical
        BY <3>1 DEF Untied, Disputed, Canonical
    <3> QED
        BY <3>1, <3>2 DEF FactsInv, NewestReaderIsFresh
  <2> QED
      BY <1>10, <2>1, <2>2, FactsReader DEF vars, stripe
<1> QED
    BY <1>2, <1>3, <1>4, <1>5, <1>6, <1>7, <1>8, <1>9, <1>10 DEF Next

\* When all that was sent is handled and nothing was ignored, a licence gives
\* access only to a payment that is neither refunded in full nor lost or in an
\* open dispute (the watermark of upsertLicenseFromOneTimeCheckoutSession and
\* reconcileOneTimePaymentLifecycle), unless the newest second is shared.
THEOREM NoAccess == Spec => []NoAccessAgainstFacts
<1>1. FactsInv => NoAccessAgainstFacts
  <2> SUFFICES ASSUME FactsInv, Quiet, missed = {}, Untied, license.status = "active"
               PROVE  refunded < Paid /\ Canonical \notin {"open", "lost"}
      BY DEF NoAccessAgainstFacts
  <2>1. PICK e \in DOMAIN events : events[e].created = clock
      BY DEF FactsInv, NewestIsThere
  <2>2. ~Newer(e)
      BY DEF Quiet, FactsInv, SettledBelowMark
  <2>3. clock \in Nat /\ clock >= 1
      BY DEF FactsInv, IInv, TypeOK
  <2>4. mark # <<0, 0>>
      BY <2>1, <2>2, <2>3 DEF Newer
  <2>5. PICK f \in DOMAIN events : mark = <<events[f].created, f>>
      BY <2>4 DEF FactsInv, IInv, TypeOK
  <2>6. events[f].created \in 1..clock
      BY DEF FactsInv, IInv, TypeOK
  <2>7. events[f].created = clock
      BY <2>1, <2>2, <2>3, <2>5, <2>6 DEF Newer
  <2>8. mark = Stamp(e)
      BY <2>1, <2>5, <2>7 DEF Untied, Stamp
  <2> QED
      BY <2>1, <2>8 DEF FactsInv, NewestStampIsTrue
<1> QED
    BY <1>1, FactsInit, FactsNext, PTL DEF Spec

-----------------------------------------------------------------------------
(***************************************************************************)
(* The mail before an annual renewal: AnnualReminders, for any number of    *)
(* licences, renewals and overlapping runs.  A run may outlive its claim by *)
(* any number of others; what it marks then is still true of the row,      *)
(* because attempts only grow and a mail that was taken stays taken.        *)
(***************************************************************************)
CONSTANTS Licenses, Renewals, Runs, MaxAttempts, MaxMishaps, MaxTurns
VARIABLES plan, row, due, run, mishaps, turns, mails

Mail == INSTANCE AnnualReminders WITH license <- plan

MailRows == [state : Mail!Open \cup Mail!Final \cup {"absent"}, attempts : Nat,
             lapsed : BOOLEAN, refused : BOOLEAN]
MailRuns == [pc : {"idle", "cancel", "requeue", "claim", "send", "mark"}, id : Mail!Reminders \cup {<<>>},
             attempt : Nat, result : {"none", "accepted", "lost", "unreached", "rejected"}]

\* What a run knows of the row it claimed, whoever claimed it since.
RunKnows(r) ==
    /\ run[r].pc \in {"send", "mark"} =>
         run[r].id \in Mail!Reminders /\ run[r].attempt <= row[run[r].id].attempts
    /\ run[r].pc = "mark" /\ run[r].result \in {"accepted", "lost"} => run[r].id \in mails
\* What the row says of the mail.
RowTells(id) ==
    /\ row[id].lapsed => row[id].state = "sending"
    /\ row[id].state = "absent" => row[id].attempts = 0
    /\ row[id].state = "accepted" => id \in mails
    /\ row[id].state = "dead_letter" => row[id].refused \/ row[id].attempts >= MaxAttempts \/ id \in mails

MailInv ==
    /\ row \in [Mail!Reminders -> MailRows] /\ run \in [Runs -> MailRuns] /\ due \subseteq Mail!Reminders
    /\ \A r \in Runs : RunKnows(r)
    /\ \A id \in Mail!Reminders : RowTells(id)

\* A row moves: its state stays, or changes before the end, or a mark ends it.
RowMoves(id) ==
    /\ row'[id].attempts >= row[id].attempts
    /\ \/ row'[id].state = row[id].state /\ row'[id].refused = row[id].refused
       \/ row[id].state \notin Mail!Final
FinalRowsStay == \A id \in Mail!Reminders : row[id].state \in Mail!Final => row'[id].state = row[id].state

LEMMA MailStep ==
    ASSUME MailInv, row' \in [Mail!Reminders -> MailRows], run' \in [Runs -> MailRuns],
           due' \subseteq Mail!Reminders, mails \subseteq mails', \A id \in Mail!Reminders : RowMoves(id) /\ RowTells(id)',
           \A r \in Runs : run'[r] = run[r] \/ RunKnows(r)'
    PROVE  MailInv' /\ FinalRowsStay
<1>1. ASSUME NEW r \in Runs, run'[r] = run[r] PROVE RunKnows(r)'
  <2>1. RunKnows(r)
      BY DEF MailInv
  <2>2. run[r].pc \in {"send", "mark"} => run[r].attempt <= row'[run[r].id].attempts
    <3>1. SUFFICES ASSUME run[r].pc \in {"send", "mark"} PROVE run[r].attempt <= row'[run[r].id].attempts
        OBVIOUS
    <3>2. run[r].id \in Mail!Reminders /\ run[r].attempt <= row[run[r].id].attempts
        BY <2>1, <3>1 DEF RunKnows
    <3>3. row'[run[r].id].attempts >= row[run[r].id].attempts
        BY <3>2 DEF RowMoves
    <3>4. row'[run[r].id] \in MailRows /\ row[run[r].id] \in MailRows /\ run[r] \in MailRuns
        BY <3>2 DEF MailInv
    <3> QED
        BY <3>2, <3>3, <3>4 DEF MailRows, MailRuns
  <2> QED
      BY <1>1, <2>1, <2>2 DEF RunKnows
<1>2. FinalRowsStay
    BY DEF FinalRowsStay, RowMoves
<1> QED
    BY <1>1, <1>2 DEF MailInv

\* A step that leaves the rows to say what they said.
LEMMA RowsSame ==
    ASSUME MailInv, row' = row, mails \subseteq mails'
    PROVE  /\ row' \in [Mail!Reminders -> MailRows]
           /\ \A id \in Mail!Reminders : RowMoves(id) /\ RowTells(id)'
<1>1. ASSUME NEW id \in Mail!Reminders PROVE RowMoves(id) /\ RowTells(id)'
  <2>1. RowTells(id) /\ row[id] \in MailRows
      BY DEF MailInv
  <2> QED
      BY <2>1 DEF RowTells, RowMoves, MailRows
<1> QED
    BY <1>1 DEF MailInv

LEMMA RunAt ==
    ASSUME MailInv, NEW r \in Runs, NEW pc \in {"idle", "cancel", "requeue", "claim"}, Mail!At(r, pc)
    PROVE  /\ run' \in [Runs -> MailRuns]
           /\ \A q \in Runs : run'[q] = run[q] \/ RunKnows(q)'
<1>1. PICK n : n = [pc |-> pc, id |-> <<>>, attempt |-> 0, result |-> "none"]
    OBVIOUS
<1>2. n \in MailRuns /\ n.pc = pc
    BY <1>1 DEF MailRuns
<1>0. n = [Mail!Resting EXCEPT !.pc = pc]
    BY <1>1 DEF Mail!Resting
<1>3. run' = [run EXCEPT ![r] = n]
    BY <1>0 DEF Mail!At
<1>4. /\ run' \in [Runs -> MailRuns] /\ run'[r].pc = pc /\ \A q \in Runs \ {r} : run'[q] = run[q]
    BY <1>2, <1>3 DEF MailInv
<1> QED
    BY <1>4 DEF RunKnows

\* Nothing that the licence and the clock do touches a row's story.
LEMMA MailAside ==
    ASSUME MailInv, \/ \E l \in Licenses : Mail!Approach(l) \/ Mail!Turn(l)
                    \/ \E id \in Mail!Reminders : Mail!ComesDue(id)
                    \/ UNCHANGED Mail!vars
    PROVE  MailInv' /\ FinalRowsStay
<1>1. row' = row /\ run' = run /\ mails' = mails /\ due' \subseteq Mail!Reminders
    BY DEF MailInv, Mail!Approach, Mail!Turn, Mail!ComesDue, Mail!vars
<1>2. run' \in [Runs -> MailRuns]
    BY <1>1 DEF MailInv
<1> QED
    BY <1>1, <1>2, RowsSame, MailStep

LEMMA LapseMail ==
    ASSUME MailInv, NEW id \in Mail!Reminders, Mail!Lapse(id) PROVE MailInv' /\ FinalRowsStay
<1>1. /\ row[id].state = "sending" /\ run' = run /\ mails' = mails /\ due' = due
      /\ row[id] \in MailRows /\ RowTells(id)
    BY DEF Mail!Lapse, MailInv
<1>2. PICK n : n = [row[id] EXCEPT !.lapsed = TRUE]
    OBVIOUS
<1>3. n \in MailRows /\ n.state = "sending" /\ n.attempts = row[id].attempts /\ n.refused = row[id].refused
    BY <1>1, <1>2 DEF MailRows
<1>4. row' = [row EXCEPT ![id] = n]
    BY <1>1, <1>2 DEF Mail!Lapse, MailInv
<1>5. row' \in [Mail!Reminders -> MailRows] /\ row'[id] = n /\ \A x \in Mail!Reminders \ {id} : row'[x] = row[x]
    BY <1>3, <1>4 DEF MailInv
<1>6. ASSUME NEW x \in Mail!Reminders PROVE RowMoves(x) /\ RowTells(x)'
  <2>1. RowTells(x) /\ row[x] \in MailRows
      BY DEF MailInv
  <2>2. CASE x = id
      BY <1>1, <1>3, <1>5, <2>2 DEF RowMoves, RowTells, MailRows
  <2>3. CASE x # id
      BY <1>1, <1>5, <2>1, <2>3 DEF RowMoves, RowTells, MailRows
  <2> QED
      BY <2>2, <2>3
<1>7. run' \in [Runs -> MailRuns] /\ due' \subseteq Mail!Reminders /\ mails \subseteq mails'
    BY <1>1 DEF MailInv
<1> QED
    BY <1>1, <1>5, <1>6, <1>7, MailStep

\* A step that writes the rows at once, none of them for good.
LEMMA RowsWritten ==
    ASSUME MailInv, NEW F, row' = [id \in Mail!Reminders |-> F[id]], mails' = mails,
           \A id \in Mail!Reminders :
             \/ F[id] = row[id]
             \/ /\ F[id] \in MailRows /\ F[id].attempts = row[id].attempts /\ ~F[id].lapsed
                /\ row[id].state \notin Mail!Final /\ F[id].state \in {"pending", "retryable", "canceled"}
    PROVE  /\ row' \in [Mail!Reminders -> MailRows]
           /\ \A id \in Mail!Reminders : RowMoves(id) /\ RowTells(id)'
<1>1. ASSUME NEW id \in Mail!Reminders PROVE row'[id] \in MailRows /\ RowMoves(id) /\ RowTells(id)'
  <2>1. RowTells(id) /\ row[id] \in MailRows /\ row'[id] = F[id]
      BY DEF MailInv
  <2> QED
      BY <2>1 DEF RowMoves, RowTells, MailRows
<1> QED
    BY <1>1

LEMMA StageMail == ASSUME MailInv, NEW r \in Runs, Mail!Stage(r) PROVE MailInv' /\ FinalRowsStay
<1> DEFINE n == [Mail!NoRow EXCEPT !.state = "pending"]
<1>1. PICK new \in SUBSET Mail!Reminders :
          /\ \A id \in new : row[id].state = "absent"
          /\ due' = due \cup new
          /\ row' = [id \in Mail!Reminders |-> IF id \in new THEN n ELSE row[id]]
    BY DEF Mail!Stage
<1>2. n \in MailRows /\ n.attempts = 0 /\ ~n.lapsed /\ n.state = "pending"
    BY DEF MailRows, Mail!Open, Mail!NoRow
<1> HIDE DEF n
<1>3. PICK F : F = [id \in Mail!Reminders |-> IF id \in new THEN n ELSE row[id]]
    OBVIOUS
<1>4. row' = [id \in Mail!Reminders |-> F[id]] /\ mails' = mails
    BY <1>1, <1>3 DEF Mail!Stage
<1>5. ASSUME NEW id \in Mail!Reminders
      PROVE  \/ F[id] = row[id]
             \/ /\ F[id] \in MailRows /\ F[id].attempts = row[id].attempts /\ ~F[id].lapsed
                /\ row[id].state \notin Mail!Final /\ F[id].state \in {"pending", "retryable", "canceled"}
  <2>1. RowTells(id)
      BY DEF MailInv
  <2> QED
      BY <1>1, <1>2, <1>3, <2>1 DEF RowTells, Mail!Final
<1>6. /\ row' \in [Mail!Reminders -> MailRows] /\ \A id \in Mail!Reminders : RowMoves(id) /\ RowTells(id)'
    BY <1>4, <1>5, RowsWritten
<1>7. run' \in [Runs -> MailRuns] /\ \A q \in Runs : run'[q] = run[q] \/ RunKnows(q)'
    BY RunAt DEF Mail!Stage
<1>8. due' \subseteq Mail!Reminders /\ mails \subseteq mails'
    BY <1>1, <1>4 DEF MailInv
<1> QED
    BY <1>6, <1>7, <1>8, MailStep

LEMMA CancelMail == ASSUME MailInv, NEW r \in Runs, Mail!Cancel(r) PROVE MailInv' /\ FinalRowsStay
<1>1. PICK F : F = [id \in Mail!Reminders |->
                      IF row[id].state \in {"pending", "retryable"} /\ ~Mail!Renews(id)
                      THEN [row[id] EXCEPT !.state = "canceled"] ELSE row[id]]
    OBVIOUS
<1>2. row' = [id \in Mail!Reminders |-> F[id]] /\ mails' = mails
    BY <1>1 DEF Mail!Cancel
<1>3. ASSUME NEW id \in Mail!Reminders
      PROVE  \/ F[id] = row[id]
             \/ /\ F[id] \in MailRows /\ F[id].attempts = row[id].attempts /\ ~F[id].lapsed
                /\ row[id].state \notin Mail!Final /\ F[id].state \in {"pending", "retryable", "canceled"}
  <2>1. CASE row[id].state \in {"pending", "retryable"} /\ ~Mail!Renews(id)
    <3>1. F[id] = [row[id] EXCEPT !.state = "canceled"]
        BY <1>1, <2>1
    <3>2. RowTells(id) /\ row[id] \in MailRows
        BY DEF MailInv
    <3> QED
        BY <2>1, <3>1, <3>2 DEF RowTells, MailRows, Mail!Final
  <2>2. CASE ~(row[id].state \in {"pending", "retryable"} /\ ~Mail!Renews(id))
      BY <1>1, <2>2
  <2> QED
      BY <2>1, <2>2
<1>4. /\ row' \in [Mail!Reminders -> MailRows] /\ \A id \in Mail!Reminders : RowMoves(id) /\ RowTells(id)'
    BY <1>2, <1>3, RowsWritten
<1>5. run' \in [Runs -> MailRuns] /\ \A q \in Runs : run'[q] = run[q] \/ RunKnows(q)'
    BY RunAt DEF Mail!Cancel
<1>6. due' \subseteq Mail!Reminders /\ mails \subseteq mails'
    BY <1>2 DEF MailInv, Mail!Cancel
<1> QED
    BY <1>4, <1>5, <1>6, MailStep

LEMMA RequeueMail == ASSUME MailInv, NEW r \in Runs, Mail!Requeue(r) PROVE MailInv' /\ FinalRowsStay
<1>1. PICK F : F = [id \in Mail!Reminders |->
                      IF row[id].lapsed THEN [row[id] EXCEPT !.state = "retryable", !.lapsed = FALSE]
                      ELSE row[id]]
    OBVIOUS
<1>2. row' = [id \in Mail!Reminders |-> F[id]] /\ mails' = mails
    BY <1>1 DEF Mail!Requeue
<1>3. ASSUME NEW id \in Mail!Reminders
      PROVE  \/ F[id] = row[id]
             \/ /\ F[id] \in MailRows /\ F[id].attempts = row[id].attempts /\ ~F[id].lapsed
                /\ row[id].state \notin Mail!Final /\ F[id].state \in {"pending", "retryable", "canceled"}
  <2>1. CASE row[id].lapsed
    <3>1. F[id] = [row[id] EXCEPT !.state = "retryable", !.lapsed = FALSE]
        BY <1>1, <2>1
    <3>2. RowTells(id) /\ row[id] \in MailRows
        BY DEF MailInv
    <3>3. row[id].state = "sending"
        BY <2>1, <3>2 DEF RowTells
    <3> QED
        BY <3>1, <3>2, <3>3 DEF MailRows, Mail!Final, Mail!Open
  <2>2. CASE ~row[id].lapsed
      BY <1>1, <2>2
  <2> QED
      BY <2>1, <2>2
<1>4. /\ row' \in [Mail!Reminders -> MailRows] /\ \A id \in Mail!Reminders : RowMoves(id) /\ RowTells(id)'
    BY <1>2, <1>3, RowsWritten
<1>5. run' \in [Runs -> MailRuns] /\ \A q \in Runs : run'[q] = run[q] \/ RunKnows(q)'
    BY RunAt DEF Mail!Requeue
<1>6. due' \subseteq Mail!Reminders /\ mails \subseteq mails'
    BY <1>2 DEF MailInv, Mail!Requeue
<1> QED
    BY <1>4, <1>5, <1>6, MailStep

\* One row is written, and says what it tells.
LEMMA RowWritten ==
    ASSUME MailInv, NEW id \in Mail!Reminders, NEW n \in MailRows, row' = [row EXCEPT ![id] = n], mails' = mails,
           row[id].state \notin Mail!Final, n.attempts >= row[id].attempts, n.state # "absent",
           n.lapsed => n.state = "sending", n.state = "accepted" => id \in mails,
           n.state = "dead_letter" => n.refused \/ n.attempts >= MaxAttempts \/ id \in mails
    PROVE  /\ row' \in [Mail!Reminders -> MailRows]
           /\ \A x \in Mail!Reminders : RowMoves(x) /\ RowTells(x)'
<1>1. row' \in [Mail!Reminders -> MailRows] /\ row'[id] = n /\ \A x \in Mail!Reminders \ {id} : row'[x] = row[x]
    BY DEF MailInv
<1>2. ASSUME NEW x \in Mail!Reminders PROVE RowMoves(x) /\ RowTells(x)'
  <2>1. RowTells(x) /\ row[x] \in MailRows
      BY DEF MailInv
  <2>2. CASE x = id
      BY <1>1, <2>2 DEF RowMoves, RowTells
  <2>3. CASE x # id
      BY <1>1, <2>1, <2>3 DEF RowMoves, RowTells, MailRows
  <2> QED
      BY <2>2, <2>3
<1> QED
    BY <1>1, <1>2

LEMMA ClaimMail == ASSUME MailInv, NEW r \in Runs, Mail!Claim(r) PROVE MailInv' /\ FinalRowsStay
<1>1. CASE Mail!At(r, "idle") /\ row' = row /\ due' = due
  <2>1. mails \subseteq mails' /\ due' \subseteq Mail!Reminders
      BY <1>1 DEF Mail!Claim, MailInv
  <2>2. run' \in [Runs -> MailRuns] /\ \A q \in Runs : run'[q] = run[q] \/ RunKnows(q)'
      BY <1>1, RunAt
  <2> QED
      BY <1>1, <2>1, <2>2, RowsSame, MailStep
<1>2. CASE ~(Mail!At(r, "idle") /\ row' = row /\ due' = due)
  <2>1. PICK id \in Mail!Claimable :
          /\ row' = [row EXCEPT ![id].state = "sending", ![id].attempts = @ + 1]
          /\ due' = due \ {id}
          /\ run' = [run EXCEPT ![r] =
               [Mail!Resting EXCEPT !.pc = "send", !.id = id, !.attempt = row[id].attempts + 1]]
      BY <1>2 DEF Mail!Claim
  <2>2. id \in Mail!Reminders /\ row[id].state \in {"pending", "retryable"} /\ mails' = mails
      BY DEF Mail!Claimable, Mail!Claim, MailInv
  <2>3. row[id] \in MailRows /\ RowTells(id)
      BY <2>2 DEF MailInv
  <2>4. PICK a \in Nat : a = row[id].attempts + 1 /\ row[id].attempts \in Nat
      BY <2>3 DEF MailRows
  <2>5. PICK n : n = [row[id] EXCEPT !.state = "sending", !.attempts = a]
      OBVIOUS
  <2>6. n \in MailRows /\ n.attempts = a /\ n.state = "sending"
      BY <2>3, <2>5 DEF MailRows, Mail!Open
  <2>7. n.attempts = row[id].attempts + 1 /\ row[id].attempts \in Nat
      BY <2>4, <2>6
  <2>8. row' = [row EXCEPT ![id] = n]
      BY <2>1, <2>2, <2>5, <2>4 DEF MailInv
  <2>9. row[id].state \notin Mail!Final /\ n.attempts >= row[id].attempts
      BY <2>2, <2>7 DEF Mail!Final
  <2>10. /\ row' \in [Mail!Reminders -> MailRows] /\ \A x \in Mail!Reminders : RowMoves(x) /\ RowTells(x)'
      BY <2>2, <2>8, <2>9, <2>6, RowWritten
  <2> DEFINE k == [Mail!Resting EXCEPT !.pc = "send", !.id = id, !.attempt = a]
  <2>11. k \in MailRuns /\ k.pc = "send" /\ k.id = id /\ k.attempt = a
      BY <2>2 DEF MailRuns, Mail!Resting
  <2>12. run' = [run EXCEPT ![r] = k]
      BY <2>1, <2>4
  <2> HIDE DEF k
  <2>13. run' \in [Runs -> MailRuns] /\ run'[r] = k /\ \A q \in Runs \ {r} : run'[q] = run[q]
      BY <2>11, <2>12 DEF MailInv
  <2>14. row'[id].attempts = a
      BY <2>2, <2>8, <2>6 DEF MailInv
  <2>15. RunKnows(r)'
      BY <2>2, <2>11, <2>13, <2>14 DEF RunKnows
  <2>16. due' \subseteq Mail!Reminders /\ mails \subseteq mails'
      BY <2>1, <2>2 DEF MailInv
  <2> QED
      BY <2>10, <2>13, <2>15, <2>16, MailStep
<1> QED
    BY <1>1, <1>2

LEMMA SendMail == ASSUME MailInv, NEW r \in Runs, Mail!Send(r) PROVE MailInv' /\ FinalRowsStay
<1>1. PICK result \in {"accepted", "lost", "unreached", "rejected"} :
          /\ run' = [run EXCEPT ![r].pc = "mark", ![r].result = result]
          /\ mails' = IF result \in {"accepted", "lost"} THEN mails \cup {run[r].id} ELSE mails
    BY DEF Mail!Send
<1>2. row' = row /\ due' = due /\ run[r].pc = "send"
    BY DEF Mail!Send
<1>3. run[r] \in MailRuns /\ RunKnows(r)
    BY DEF MailInv
<1>4. PICK k : k = [run[r] EXCEPT !.pc = "mark", !.result = result]
    OBVIOUS
<1>5. k \in MailRuns /\ k.pc = "mark" /\ k.result = result /\ k.id = run[r].id /\ k.attempt = run[r].attempt
    BY <1>3, <1>4 DEF MailRuns
<1>6. run' = [run EXCEPT ![r] = k]
    BY <1>1, <1>4 DEF MailInv
<1>7. run' \in [Runs -> MailRuns] /\ run'[r] = k /\ \A q \in Runs \ {r} : run'[q] = run[q]
    BY <1>5, <1>6 DEF MailInv
<1>8. RunKnows(r)'
    BY <1>1, <1>2, <1>3, <1>5, <1>7 DEF RunKnows
<1>9. due' \subseteq Mail!Reminders /\ mails \subseteq mails'
    BY <1>1, <1>2 DEF MailInv
<1> QED
    BY <1>2, <1>7, <1>8, <1>9, RowsSame, MailStep

\* A mark ends a row only with a reason that holds of the row, whoever holds it.
LEMMA MarkMail ==
    ASSUME MailInv, MaxAttempts \in Nat, NEW r \in Runs, Mail!Mark(r) PROVE MailInv' /\ FinalRowsStay
<1>1. PICK id : id = run[r].id
    OBVIOUS
<1>2. /\ run[r].pc = "mark" /\ Mail!At(r, "claim") /\ mails' = mails /\ due' = due
      /\ id \in Mail!Reminders /\ run[r].attempt <= row[id].attempts
      /\ run[r].result \in {"accepted", "lost"} => id \in mails
    BY <1>1 DEF Mail!Mark, MailInv, RunKnows
<1>3. row[id] \in MailRows /\ run[r] \in MailRuns
    BY <1>2 DEF MailInv
<1>4. run' \in [Runs -> MailRuns] /\ \A q \in Runs : run'[q] = run[q] \/ RunKnows(q)'
    BY <1>2, RunAt
<1>5. due' \subseteq Mail!Reminders /\ mails \subseteq mails'
    BY <1>2 DEF MailInv
<1>6. PICK state, refused : /\ Mail!Write(id, state, refused)
                            /\ \/ state = Mail!Outcome(r) /\ refused = (run[r].result = "rejected")
                               \/ run[r].result = "accepted" /\ state = "dead_letter" /\ refused = FALSE
    BY <1>1 DEF Mail!Mark
<1>7. /\ state \in {"accepted", "retryable", "dead_letter"} /\ refused \in BOOLEAN
      /\ state = "accepted" => id \in mails
      /\ state = "dead_letter" => refused \/ row[id].attempts >= MaxAttempts \/ id \in mails
  <2>1. CASE run[r].result = "accepted" /\ state = "dead_letter" /\ refused = FALSE
      BY <1>2, <2>1
  <2>2. CASE state = Mail!Outcome(r) /\ refused = (run[r].result = "rejected")
    <3>1. run[r].attempt \in Nat /\ row[id].attempts \in Nat
        BY <1>3 DEF MailRuns, MailRows
    <3>2. ~(run[r].attempt < MaxAttempts) => row[id].attempts >= MaxAttempts
        BY <1>2, <3>1
    <3> QED
        BY <1>2, <2>2, <3>2 DEF Mail!Outcome, Mail!CanRetry
  <2> QED
      BY <1>6, <2>1, <2>2
<1>8. CASE row[id].state = "sending"
  <2>1. PICK n : n = [row[id] EXCEPT !.state = state, !.lapsed = FALSE, !.refused = refused]
      OBVIOUS
  <2>2. /\ n \in MailRows /\ n.attempts = row[id].attempts /\ n.state = state /\ ~n.lapsed /\ n.refused = refused
        /\ row[id].attempts \in Nat
      BY <1>3, <1>7, <2>1 DEF MailRows, Mail!Open, Mail!Final
  <2>3. row' = [row EXCEPT ![id] = n]
      BY <1>2, <1>6, <1>8, <2>1 DEF Mail!Write, Mail!StillSending, MailInv
  <2>4. row[id].state \notin Mail!Final /\ n.attempts >= row[id].attempts /\ n.state # "absent"
      BY <1>7, <1>8, <2>2 DEF Mail!Final
  <2>6. /\ n.lapsed => n.state = "sending"
        /\ n.state = "accepted" => id \in mails
      BY <1>7, <2>2
  <2>7. n.state = "dead_letter" => n.refused \/ n.attempts >= MaxAttempts \/ id \in mails
      BY <1>7, <2>2
  <2>5. /\ row' \in [Mail!Reminders -> MailRows] /\ \A x \in Mail!Reminders : RowMoves(x) /\ RowTells(x)'
      BY <1>2, <2>2, <2>3, <2>4, <2>6, <2>7, RowWritten
  <2> QED
      BY <1>4, <1>5, <2>5, MailStep
<1>9. CASE row[id].state # "sending"
  <2>1. row' = row
      BY <1>6, <1>9 DEF Mail!Write, Mail!StillSending
  <2> QED
      BY <1>4, <1>5, <2>1, RowsSame, MailStep
<1> QED
    BY <1>8, <1>9

LEMMA DieMail == ASSUME MailInv, NEW r \in Runs, Mail!Die(r) PROVE MailInv' /\ FinalRowsStay
<1>1. row' = row /\ mails \subseteq mails' /\ due' \subseteq Mail!Reminders
    BY DEF Mail!Die, MailInv
<1>2. run' \in [Runs -> MailRuns] /\ \A q \in Runs : run'[q] = run[q] \/ RunKnows(q)'
    BY RunAt DEF Mail!Die
<1> QED
    BY <1>1, <1>2, RowsSame, MailStep

LEMMA MailInit == Mail!Init => MailInv
<1> SUFFICES ASSUME Mail!Init PROVE MailInv
    OBVIOUS
<1>1. Mail!NoRow \in MailRows /\ Mail!Resting \in MailRuns
    BY DEF MailRows, MailRuns, Mail!NoRow, Mail!Resting
<1>2. row \in [Mail!Reminders -> MailRows] /\ run \in [Runs -> MailRuns]
    BY <1>1 DEF Mail!Init
<1>3. \A r \in Runs : RunKnows(r)
    BY DEF Mail!Init, Mail!Resting, RunKnows
<1>4. \A id \in Mail!Reminders : RowTells(id)
    BY DEF Mail!Init, Mail!NoRow, RowTells
<1> QED
    BY <1>2, <1>3, <1>4 DEF MailInv, Mail!Init

LEMMA MailNext ==
    ASSUME MaxAttempts \in Nat PROVE MailInv /\ [Mail!Next]_(Mail!vars) => MailInv' /\ FinalRowsStay
    BY MailAside, LapseMail, StageMail, CancelMail, RequeueMail, ClaimMail, SendMail, MarkMail, DieMail
    DEF Mail!Next, Mail!Work

\* What the job promises, for any number of overlapping runs that die or outlive
\* their claims: what counts as accepted was mailed, what was given up had spent
\* its attempts, was refused or was mailed, and a row that ended stays as it
\* ended (runAnnualRenewalReminders, annual-renewal-reminder.ts:278).
THEOREM RemindersTrue ==
    ASSUME MaxAttempts \in Nat
    PROVE  Mail!Spec => [](Mail!AcceptedWasMailed /\ Mail!GivenUpIsSpent) /\ Mail!FinalStays
<1>1. MailInv => Mail!AcceptedWasMailed /\ Mail!GivenUpIsSpent
    BY DEF MailInv, RowTells, Mail!AcceptedWasMailed, Mail!GivenUpIsSpent
<1>2. MailInv /\ [Mail!Next]_(Mail!vars) =>
        [\A id \in DOMAIN row : row[id].state \in Mail!Final => row'[id].state = row[id].state]_(Mail!vars)
    BY MailNext DEF MailInv, FinalRowsStay
<1> QED
    BY <1>1, <1>2, MailInit, MailNext, PTL DEF Mail!Spec, Mail!FinalStays

-----------------------------------------------------------------------------
(***************************************************************************)
(* A subscription and its licence: Subscriptions, for any number of         *)
(* workers, renewals and events.  Stripe changes nothing without an event,  *)
(* so a worker that read for an event of the last change read the present,  *)
(* and so says the licence that it wrote.                                   *)
(***************************************************************************)
CONSTANTS Kind, Workers, MaxSent, Ids, Changes, None
VARIABLES subscription, second, sent, worker, licence, credential

Sub == INSTANCE Subscriptions WITH stripe <- subscription, clock <- second, events <- sent, MaxEvents <- MaxSent

SentEvents == [id : Nat, at : Nat, change : Nat, type : Sub!EventTypes, state : {"pending", "processed", "ignored", "dead"},
               invoice : Nat]
LicenceRows == [status : {"active", "suspended", "revoked"}, reason : Sub!Reasons, at : Nat, id : Nat]
Subscribed == [status : Sub!Statuses, end : Nat, verifies : BOOLEAN, paid : Seq(BOOLEAN)]
Bought == {"active", "past_due", "unpaid", "canceled"}

\* c counts the changes up to the last.
Last(S, c) == \A f \in S : f.change <= c
\* An id tells the events of its second apart, and some are of the last change.
SentOK ==
    /\ second \in Nat /\ IsFiniteSet(sent) /\ sent \subseteq SentEvents
    /\ Cardinality(sent) <= MaxSent /\ second <= Cardinality(sent)
    /\ \A e \in sent : e.change <= Cardinality(sent) /\ e.at <= second
    /\ \A e, f \in sent : e.at = f.at /\ e.id = f.id => e = f
    /\ sent # {} => \E e \in sent : Last(sent, e.change)
\* What the events say of the subscription.
StripeOK ==
    /\ subscription \in Subscribed /\ subscription.end <= MaxSent + 1
    /\ subscription.status = "none" => sent = {}
    /\ subscription.status # "none" => Len(subscription.paid) >= 1 /\ sent # {}
    /\ subscription.status = "active" => \A i \in DOMAIN subscription.paid : subscription.paid[i] = TRUE
    /\ \A e \in sent :
         /\ e.invoice \in 1..Len(subscription.paid)
         /\ e.type = "customer.subscription.deleted"
              => subscription.status = "canceled" /\ Last(sent, e.change)
         /\ e.type = "invoice.payment_failed" /\ Last(sent, e.change) => subscription.status # "active"
\* An event before and after it is settled.
SameEvent(e, f) ==
    e.id = f.id /\ e.at = f.at /\ e.change = f.change /\ e.type = f.type /\ e.invoice = f.invoice
\* What a worker holds of an event of the last change is the present.
Holding(r) ==
    /\ r.event \in SentEvents /\ r.event.state = "pending"
    /\ \E e \in sent : SameEvent(e, r.event)
    /\ r.status \in Bought /\ (r.status = "canceled" => subscription.status = "canceled")
    /\ Last(sent, r.event.change) =>
         /\ r.status = subscription.status /\ r.end = subscription.end
         /\ r.stage = "subscription" => r.latest = Len(subscription.paid)
         /\ r.stage = "invoice" /\ r.status = "active" => r.paid = TRUE
WorkersOK ==
    /\ DOMAIN worker = Workers
    /\ \A w \in Workers : /\ worker[w].stage \in {"idle", "subscription", "invoice"}
                          /\ worker[w].stage # "idle" => Holding(worker[w])
\* A row that an event of the last change wrote says what Stripe says.
Agrees(status) ==
    /\ subscription.status # "active" => status # "active"
    /\ Kind = "upgrade" /\ subscription.status = "active" /\ subscription.end = 0 => status = "active"
LicenceOK ==
    /\ licence # None =>
         /\ licence \in LicenceRows
         /\ \E e \in sent : licence.at = e.at /\ licence.id = e.id
         /\ licence.reason \in Sub!Terminal => subscription.status = "canceled"
         /\ \A e \in sent : Last(sent, e.change) /\ licence.at = e.at /\ licence.id = e.id
                             => Agrees(licence.status)
    /\ credential \in BOOLEAN
    /\ credential => licence # None /\ licence.status = "active"
\* An event that was processed is not newer than the row.
Reached(e) == licence.at > e.at \/ (licence.at = e.at /\ licence.id >= e.id)
HandledOK ==
    \A e \in sent : /\ e.state = "processed" => licence # None /\ Reached(e)
                    /\ e.state = "ignored" => Kind = "legacy"

SubInv == SentOK /\ StripeOK /\ WorkersOK /\ LicenceOK /\ HandledOK
ProcessedStay == \A e \in sent : e.state = "processed" => e \in sent'

LEMMA SameCardinality == ASSUME NEW S PROVE Sub!Cardinality(S) = Cardinality(S)
    BY DEF Sub!Cardinality, Cardinality

\* Stripe sends one event or two of another change.
Grown(types, i) ==
    /\ sent \subseteq sent' /\ sent' # {} /\ \A e \in sent : ~Last(sent', e.change)
    /\ \A e \in sent' \ sent : /\ Last(sent', e.change) /\ e.state = "pending"
                               /\ e.type \in types /\ e.invoice = i

LEMMA SentIs ==
    ASSUME Sub!SubscriptionAssumption, SentOK, NEW a \in Sub!EventTypes, NEW b \in Sub!EventTypes, NEW i \in Nat,
           Sub!Sent({a, b}, i)
    PROVE  SentOK' /\ Grown({a, b}, i)
<1>1. PICK T : T = {a, b}
    OBVIOUS
<1>2. IsFiniteSet(T) /\ Cardinality(T) \in Nat /\ Cardinality(T) >= 1
  <2>1. IsFiniteSet({a}) /\ Cardinality({a}) = 1
      BY FS_Singleton
  <2>2. T = {a} \cup {b}
      BY <1>1
  <2> QED
      BY <2>1, <2>2, FS_AddElement
<1>3. PICK n \in Nat : n = Cardinality(sent)
    BY FS_CardinalityType DEF SentOK
<1>4. PICK m \in Nat : m = n + Cardinality(T) /\ m <= MaxSent /\ n + 1 <= m
    BY <1>1, <1>2, <1>3, SameCardinality DEF Sub!Sent
<1>5. second \in Nat /\ second' \in {second, second + 1}
    BY DEF Sub!Sent, SentOK
<1>6. PICK q \in Nat : q = second' /\ second <= q /\ q <= second + 1
    BY <1>5
<1>7. PICK Free : Free = {k \in Ids : \A e \in sent : e.at = q => e.id # k}
    OBVIOUS
<1>8. PICK id \in [T -> Free] :
         /\ \A x, y \in T : id[x] = id[y] => x = y
         /\ sent' = sent \cup {[id |-> id[x], at |-> q, change |-> n + 1, type |-> x, state |-> "pending",
                                invoice |-> i] : x \in T}
    BY <1>1, <1>3, <1>6, <1>7, SameCardinality DEF Sub!Sent
<1>9. PICK f : f = [x \in T |-> [id |-> id[x], at |-> q, change |-> n + 1, type |-> x, state |-> "pending",
                                 invoice |-> i]]
    OBVIOUS
<1>10. ASSUME NEW x \in T
       PROVE  /\ f[x] \in SentEvents /\ f[x].id = id[x] /\ f[x].at = q /\ f[x].change = n + 1 /\ f[x].type = x
              /\ f[x].state = "pending" /\ f[x].invoice = i /\ \A e \in sent : e.at = q => e.id # id[x]
  <2>1. id[x] \in Free /\ x \in Sub!EventTypes
      BY <1>1, <1>8
  <2>4. id[x] \in Ids /\ \A e \in sent : e.at = q => e.id # id[x]
      BY <1>7, <2>1
  <2>2. id[x] \in Nat /\ n + 1 \in Nat /\ \A e \in sent : e.at = q => e.id # id[x]
    <3>1. Ids \subseteq Nat
        BY DEF Sub!SubscriptionAssumption
    <3>2. id[x] \in Nat
        BY <2>4, <3>1
    <3>3. n + 1 \in Nat
        BY <1>3
    <3> QED
        BY <2>4, <3>2, <3>3, Zenon
  <2>3. f[x] = [id |-> id[x], at |-> q, change |-> n + 1, type |-> x, state |-> "pending", invoice |-> i]
      BY <1>9
  <2> QED
      BY <1>6, <2>1, <2>2, <2>3 DEF SentEvents
<1>11. PICK N : N = {f[x] : x \in T}
    OBVIOUS
<1>12. sent' = sent \cup N
    BY <1>8, <1>9, <1>11
<1>13. f \in Surjection(T, N) /\ f \in Injection(T, N)
  <2>1. f \in [T -> N]
      BY <1>9, <1>11
  <2>2. \A x, y \in T : f[x] = f[y] => x = y
      BY <1>10
  <2>3. \A t \in N : \E x \in T : f[x] = t
      BY <1>11
  <2>4. f \in Injection(T, N)
      BY <2>1, <2>2 DEF Injection, IsInjective
  <2>5. f \in Surjection(T, N)
      BY <2>1, <2>3 DEF Surjection
  <2> QED
      BY <2>4, <2>5
<1>14. IsFiniteSet(N) /\ Cardinality(N) = Cardinality(T)
    BY <1>2, <1>13, FS_Surjection
<1>15. ASSUME NEW e \in sent PROVE e \in SentEvents /\ e.change <= n /\ e.change \in Nat /\ e.at <= q
    BY <1>3, <1>5, <1>6 DEF SentOK, SentEvents
<1>16. ASSUME NEW e \in N
       PROVE  /\ e \in SentEvents /\ e.change = n + 1 /\ e.at = q /\ e.type \in T
              /\ e.state = "pending" /\ e.invoice = i /\ \A g \in sent : g.at = q => g.id # e.id
    BY <1>10, <1>11
<1>17. sent \cap N = {}
    BY <1>3, <1>15, <1>16
<1>18. IsFiniteSet(sent') /\ Cardinality(sent') = m
  <2>1. IsFiniteSet(sent \cup N) /\ Cardinality(sent \cup N) = n + Cardinality(T) - Cardinality({})
      BY <1>3, <1>14, <1>17, FS_Union DEF SentOK
  <2> QED
      BY <1>2, <1>3, <1>4, <1>12, <2>1, FS_EmptySet
<1>19. ASSUME NEW e \in sent', NEW g \in sent', e.at = g.at, e.id = g.id PROVE e = g
  <2>1. CASE e \in sent /\ g \in sent
      BY <1>19, <2>1 DEF SentOK
  <2>2. CASE e \in N /\ g \in N
    <3>1. PICK x \in T : e = f[x]
        BY <1>11, <2>2
    <3>2. PICK y \in T : g = f[y]
        BY <1>11, <2>2
    <3>3. id[x] = id[y]
        BY <1>10, <1>19, <3>1, <3>2
    <3> QED
        BY <1>8, <3>1, <3>2, <3>3
  <2>3. ~(e \in sent /\ g \in N) /\ ~(e \in N /\ g \in sent)
      BY <1>16, <1>19
  <2> QED
      BY <1>12, <2>1, <2>2, <2>3
<1>20. \A e \in sent' : e \in SentEvents /\ e.change <= n + 1 /\ e.change \in Nat /\ e.at <= q
    BY <1>3, <1>6, <1>12, <1>15, <1>16
<1>21. f[a] \in sent' /\ f[a].change = n + 1
    BY <1>1, <1>10, <1>11, <1>12
<1>22. Last(sent', n + 1) /\ \A e \in sent : ~Last(sent', e.change)
  <2>1. Last(sent', n + 1)
      BY <1>20 DEF Last
  <2>2. ASSUME NEW e \in sent PROVE ~Last(sent', e.change)
      BY <1>3, <1>15, <1>21 DEF Last
  <2> QED
      BY <2>1, <2>2
<1>23. SentOK'
  <2>1. \A e \in sent' : e.change <= m /\ e.at <= second' /\ e \in SentEvents
      BY <1>3, <1>4, <1>6, <1>20
  <2>2. \E e \in sent' : Last(sent', e.change)
      BY <1>21, <1>22
  <2>3. second' \in Nat /\ second' <= m /\ m <= MaxSent
    <3>1. second <= n
        BY <1>3 DEF SentOK
    <3> QED
        BY <1>3, <1>4, <1>5, <1>6, <3>1
  <2> QED
      BY <1>18, <1>19, <2>1, <2>2, <2>3 DEF SentOK
<1>24. ASSUME NEW e \in sent', e \notin sent
       PROVE  Last(sent', e.change) /\ e.state = "pending" /\ e.type \in T /\ e.invoice = i
    BY <1>12, <1>16, <1>22, <1>24
<1> QED
    BY <1>1, <1>12, <1>21, <1>22, <1>23, <1>24 DEF Grown

\* A change at Stripe leaves the workers and the row behind: what they know is
\* of an earlier change.
LEMMA StripeStep ==
    ASSUME Sub!SubscriptionAssumption, SubInv, NEW types, NEW i, SentOK', Grown(types, i),
           UNCHANGED <<worker, licence, credential>>, subscription.status # "canceled",
           subscription' \in Subscribed, subscription'.status # "none", subscription'.end <= MaxSent + 1,
           sent # {} => Len(subscription'.paid) >= Len(subscription.paid), i \in 1..Len(subscription'.paid),
           subscription'.status = "active" => \A j \in DOMAIN subscription'.paid : subscription'.paid[j] = TRUE,
           "customer.subscription.deleted" \in types => subscription'.status = "canceled",
           "invoice.payment_failed" \in types => subscription'.status # "active"
    PROVE  SubInv' /\ ProcessedStay
<1>1. /\ sent \subseteq sent' /\ sent' # {}
      /\ worker' = worker /\ licence' = licence /\ credential' = credential
    BY DEF SubInv, SentOK, Grown
<1>2. /\ Len(subscription.paid) \in Nat /\ Len(subscription'.paid) \in Nat /\ Len(subscription'.paid) >= 1
    BY DEF SubInv, StripeOK, Subscribed
<1>3. ASSUME NEW e \in sent
      PROVE  /\ ~Last(sent', e.change) /\ e.invoice \in 1..Len(subscription'.paid)
             /\ e.type # "customer.subscription.deleted"
  <2>1. ~Last(sent', e.change) /\ sent # {}
      BY DEF Grown
  <2>2. e.invoice \in 1..Len(subscription.paid) /\ e.type # "customer.subscription.deleted"
      BY DEF SubInv, StripeOK
  <2> QED
      BY <1>1, <1>2, <2>1, <2>2
<1>4. ASSUME NEW e \in sent', e \notin sent
      PROVE  Last(sent', e.change) /\ e.type \in types /\ e.invoice = i /\ e.state = "pending"
    BY <1>4 DEF Grown
<1>5. ASSUME NEW e \in sent'
      PROVE  /\ e.invoice \in 1..Len(subscription'.paid)
             /\ e.type = "customer.subscription.deleted"
                  => subscription'.status = "canceled" /\ Last(sent', e.change)
             /\ e.type = "invoice.payment_failed" /\ Last(sent', e.change) => subscription'.status # "active"
  <2>1. CASE e \in sent
      BY <1>3, <2>1
  <2>2. CASE e \notin sent
      BY <1>4, <2>2
  <2> QED
      BY <2>1, <2>2
<1>6. StripeOK'
    BY <1>1, <1>2, <1>5 DEF StripeOK
<1>7. ASSUME NEW w \in Workers PROVE /\ worker[w].stage \in {"idle", "subscription", "invoice"}
                                     /\ worker[w].stage # "idle" => Holding(worker[w])'
  <2>1. worker[w].stage \in {"idle", "subscription", "invoice"}
      BY DEF SubInv, WorkersOK
  <2>2. CASE worker[w].stage # "idle"
    <3>1. PICK r : r = worker[w]
        OBVIOUS
    <3>2. Holding(r)
        BY <2>2, <3>1 DEF SubInv, WorkersOK
    <3>3. PICK e \in sent : SameEvent(e, r.event)
        BY <3>2 DEF Holding
    <3>4. ~Last(sent', r.event.change) /\ e \in sent'
        BY <1>1, <1>3, <3>3 DEF SameEvent
    <3>5. worker'[w] = r /\ worker[w] = r
        BY <1>1, <3>1
    <3>6. r.status # "canceled" /\ r.status \in Bought /\ r.event \in SentEvents /\ r.event.state = "pending"
        BY <3>2 DEF Holding
    <3>7. \E x \in sent' : SameEvent(x, r.event)
        BY <3>3, <3>4
    <3>8. Holding(worker[w])'
        BY <3>4, <3>5, <3>6, <3>7 DEF Holding
    <3> QED
        BY <2>1, <3>8
  <2> QED
      BY <2>1, <2>2
<1>8. WorkersOK'
    BY <1>1, <1>7 DEF SubInv, WorkersOK
<1>9. LicenceOK'
  <2>1. CASE licence = None
      BY <1>1, <2>1 DEF SubInv, LicenceOK
  <2>2. CASE licence # None
    <3>1. PICK e \in sent : licence.at = e.at /\ licence.id = e.id
        BY <2>2 DEF SubInv, LicenceOK
    <3>2. e \in sent' /\ \A g \in sent' : Last(sent', g.change) => ~(licence.at = g.at /\ licence.id = g.id)
        BY <1>1, <1>3, <3>1 DEF SentOK
    <3>3. licence \in LicenceRows /\ licence.reason \notin Sub!Terminal
        BY <2>2 DEF SubInv, LicenceOK
    <3>4. credential \in BOOLEAN /\ (credential => licence # None /\ licence.status = "active")
        BY DEF SubInv, LicenceOK
    <3> QED
        BY <1>1, <3>1, <3>2, <3>3, <3>4 DEF LicenceOK
  <2> QED
      BY <2>1, <2>2
<1>10. HandledOK'
  <2>1. ASSUME NEW e \in sent' PROVE /\ e.state = "processed" => licence # None /\ Reached(e)
                                     /\ e.state = "ignored" => Kind = "legacy"
      BY <1>4, <2>1 DEF SubInv, HandledOK
  <2> QED
      BY <1>1, <2>1 DEF HandledOK, Reached
<1> QED
    BY <1>1, <1>6, <1>8, <1>9, <1>10 DEF SubInv, ProcessedStay

LEMMA StripeSubscribe ==
    ASSUME Sub!SubscriptionAssumption, SubInv, Sub!Subscribe PROVE SubInv' /\ ProcessedStay
<1>1. PICK T : T = {"checkout.session.completed", "customer.subscription.created"}
    OBVIOUS
<1>2. SentOK' /\ Grown(T, 1)
    BY <1>1, SentIs DEF SubInv, Sub!EventTypes, Sub!Subscribe
<1>3. subscription.status = "none"
      /\ subscription' = [subscription EXCEPT !.status = "active", !.paid = <<TRUE>>]
      /\ UNCHANGED <<worker, licence, credential>>
    BY DEF Sub!Subscribe
<1>7. <<TRUE>> \in Seq(BOOLEAN) /\ Len(<<TRUE>>) = 1
    OBVIOUS
<1>8. \A j \in DOMAIN <<TRUE>> : <<TRUE>>[j] = TRUE
  <2>1. DOMAIN <<TRUE>> = 1..1
      OBVIOUS
  <2>2. <<TRUE>>[1] = TRUE
      OBVIOUS
  <2>3. ASSUME NEW j \in 1..1 PROVE j = 1
      OBVIOUS
  <2> QED
      BY <2>1, <2>2, <2>3, Zenon
<1>4. <<TRUE>> \in Seq(BOOLEAN) /\ Len(<<TRUE>>) = 1 /\ \A j \in DOMAIN <<TRUE>> : <<TRUE>>[j] = TRUE
    BY <1>7, <1>8
<1>5. /\ subscription' \in Subscribed /\ subscription'.status = "active" /\ subscription'.end = subscription.end
      /\ subscription'.paid = <<TRUE>>
    BY <1>3, <1>4 DEF SubInv, StripeOK, Subscribed, Sub!Statuses
<1>6. sent = {} /\ subscription.end <= MaxSent + 1
    BY <1>3 DEF SubInv, StripeOK
<1>9. Len(subscription'.paid) = 1 /\ 1 \in 1..Len(subscription'.paid)
    BY <1>4, <1>5
<1>10. \A j \in DOMAIN subscription'.paid : subscription'.paid[j] = TRUE
    BY <1>4, <1>5, Zenon
<1>11. /\ subscription'.end <= MaxSent + 1
       /\ "customer.subscription.deleted" \notin T /\ "invoice.payment_failed" \notin T
    BY <1>1, <1>5, <1>6
<1> QED
    BY <1>2, <1>3, <1>5, <1>6, <1>9, <1>10, <1>11, StripeStep

\* A change that leaves the invoices alone.
LEMMA InvoicesStay ==
    ASSUME Sub!SubscriptionAssumption, SubInv, NEW a \in Sub!EventTypes, NEW b \in Sub!EventTypes,
           NEW T, T = {a, b}, Sub!Sent(T, Len(subscription.paid)), UNCHANGED <<worker, licence, credential>>,
           Sub!Live, subscription' \in Subscribed, subscription'.paid = subscription.paid,
           subscription'.status = "active" => subscription.status = "active",
           subscription'.status # "none", subscription'.end <= MaxSent + 1,
           "customer.subscription.deleted" \in T => subscription'.status = "canceled",
           "invoice.payment_failed" \in T => subscription'.status # "active"
    PROVE  SubInv' /\ ProcessedStay
<1>1. /\ Len(subscription.paid) \in Nat /\ Len(subscription.paid) >= 1
      /\ subscription.status # "canceled" /\ subscription.status # "none"
    BY DEF SubInv, StripeOK, Subscribed, Sub!Live
<1>2. SentOK' /\ Grown(T, Len(subscription.paid))
    BY <1>1, SentIs DEF SubInv
<1>3. subscription'.status = "active" => \A j \in DOMAIN subscription'.paid : subscription'.paid[j] = TRUE
    BY DEF SubInv, StripeOK
<1>4. Len(subscription.paid) \in 1..Len(subscription'.paid) /\ Len(subscription'.paid) >= Len(subscription.paid)
    BY <1>1
<1> QED
    BY <1>1, <1>2, <1>3, <1>4, StripeStep

LEMMA StripeCancelLater ==
    ASSUME Sub!SubscriptionAssumption, SubInv, Sub!CancelLater PROVE SubInv' /\ ProcessedStay
<1>1. PICK T : T = {"customer.subscription.updated", "customer.subscription.updated"}
    OBVIOUS
<1>2. /\ subscription.status = "active" /\ subscription' = [subscription EXCEPT !.end = second' + 1]
      /\ Sub!Sent(T, Len(subscription.paid)) /\ UNCHANGED <<worker, licence, credential>>
    BY <1>1 DEF Sub!CancelLater
<1>3. Len(subscription.paid) \in Nat /\ "customer.subscription.updated" \in Sub!EventTypes
    BY DEF SubInv, StripeOK, Subscribed, Sub!EventTypes
<1>4. SentOK'
    BY <1>1, <1>2, <1>3, SentIs DEF SubInv
<1>5. PICK q : q = second'
    OBVIOUS
<1>6. PICK m : m = q + 1
    OBVIOUS
<1>10. m \in Nat /\ m <= MaxSent + 1
  <2>1. PICK n \in Nat : n = Cardinality(sent') /\ n <= MaxSent /\ q <= n /\ q \in Nat
      BY <1>4, <1>5, FS_CardinalityType DEF SentOK
  <2> QED
      BY <1>6, <2>1 DEF Sub!SubscriptionAssumption
<1>7. subscription' = [subscription EXCEPT !.end = m]
    BY <1>2, <1>5, <1>6
<1>8. /\ subscription' \in Subscribed /\ subscription'.paid = subscription.paid /\ subscription'.status = "active"
      /\ subscription'.end <= MaxSent + 1
    BY <1>2, <1>10, <1>7 DEF SubInv, StripeOK, Subscribed
<1>9. Sub!Live /\ "customer.subscription.deleted" \notin T /\ "invoice.payment_failed" \notin T
    BY <1>1, <1>2 DEF Sub!Live
<1> QED
    BY <1>1, <1>2, <1>3, <1>8, <1>9, InvoicesStay

LEMMA StripeResume ==
    ASSUME Sub!SubscriptionAssumption, SubInv, Sub!Resume PROVE SubInv' /\ ProcessedStay
<1>1. PICK T : T = {"customer.subscription.updated", "customer.subscription.updated"}
    OBVIOUS
<1>2. /\ subscription.status = "active" /\ subscription' = [subscription EXCEPT !.end = 0]
      /\ Sub!Sent(T, Len(subscription.paid)) /\ UNCHANGED <<worker, licence, credential>>
    BY <1>1 DEF Sub!Resume
<1>3. Sub!Live /\ "customer.subscription.deleted" \notin T /\ "invoice.payment_failed" \notin T
    BY <1>1, <1>2 DEF Sub!Live
<1>4. /\ subscription' \in Subscribed /\ subscription'.paid = subscription.paid /\ subscription'.status = "active"
      /\ subscription'.end <= MaxSent + 1
    BY <1>2 DEF SubInv, StripeOK, Subscribed, Sub!SubscriptionAssumption
<1> QED
    BY <1>1, <1>2, <1>3, <1>4, InvoicesStay DEF Sub!EventTypes

LEMMA StripeTouch ==
    ASSUME Sub!SubscriptionAssumption, SubInv, Sub!Touch PROVE SubInv' /\ ProcessedStay
<1>1. PICK T : T = {"customer.subscription.updated", "customer.subscription.updated"}
    OBVIOUS
<1>2. /\ subscription.status = "active" /\ subscription' = subscription
      /\ Sub!Sent(T, Len(subscription.paid)) /\ UNCHANGED <<worker, licence, credential>>
    BY <1>1 DEF Sub!Touch
<1>3. Sub!Live /\ "customer.subscription.deleted" \notin T /\ "invoice.payment_failed" \notin T
    BY <1>1, <1>2 DEF Sub!Live
<1>4. subscription \in Subscribed /\ subscription.end <= MaxSent + 1
    BY DEF SubInv, StripeOK
<1> QED
    BY <1>1, <1>2, <1>3, <1>4, InvoicesStay DEF Sub!EventTypes

LEMMA StripeGiveUp ==
    ASSUME Sub!SubscriptionAssumption, SubInv, Sub!GiveUp PROVE SubInv' /\ ProcessedStay
<1>1. PICK T : T = {"customer.subscription.updated", "customer.subscription.updated"}
    OBVIOUS
<1>2. /\ subscription.status = "past_due" /\ subscription' = [subscription EXCEPT !.status = "unpaid"]
      /\ Sub!Sent(T, Len(subscription.paid)) /\ UNCHANGED <<worker, licence, credential>>
    BY <1>1 DEF Sub!GiveUp
<1>3. Sub!Live /\ "customer.subscription.deleted" \notin T /\ "invoice.payment_failed" \notin T
    BY <1>1, <1>2 DEF Sub!Live
<1>4. /\ subscription' \in Subscribed /\ subscription'.end <= MaxSent + 1
      /\ subscription'.paid = subscription.paid /\ subscription'.status = "unpaid"
    BY <1>2 DEF SubInv, StripeOK, Subscribed, Sub!Statuses
<1> QED
    BY <1>1, <1>2, <1>3, <1>4, InvoicesStay DEF Sub!EventTypes

LEMMA StripeEnd ==
    ASSUME Sub!SubscriptionAssumption, SubInv, Sub!End PROVE SubInv' /\ ProcessedStay
<1>1. PICK T : T = {"customer.subscription.deleted", "customer.subscription.deleted"}
    OBVIOUS
<1>2. /\ Sub!Live /\ subscription' = [subscription EXCEPT !.status = "canceled"]
      /\ Sub!Sent(T, Len(subscription.paid)) /\ UNCHANGED <<worker, licence, credential>>
    BY <1>1 DEF Sub!End
<1>3. "invoice.payment_failed" \notin T
    BY <1>1
<1>4. /\ subscription' \in Subscribed /\ subscription'.end <= MaxSent + 1
      /\ subscription'.paid = subscription.paid /\ subscription'.status = "canceled"
    BY <1>2 DEF SubInv, StripeOK, Subscribed, Sub!Statuses
<1> QED
    BY <1>1, <1>2, <1>3, <1>4, InvoicesStay DEF Sub!EventTypes

\* A failed invoice that is paid makes all of them paid.
LEMMA StripeRecover ==
    ASSUME Sub!SubscriptionAssumption, SubInv, Sub!Recover PROVE SubInv' /\ ProcessedStay
<1>1. PICK T : T = {"invoice.paid", "customer.subscription.updated"}
    OBVIOUS
<1>2. PICK p : p = [i \in DOMAIN subscription.paid |-> TRUE]
    OBVIOUS
<1>3. PICK n \in Nat : n = Len(subscription.paid) /\ n >= 1
    BY DEF SubInv, StripeOK, Subscribed, Sub!Recover
<1>4. /\ subscription.status \in {"past_due", "unpaid"}
      /\ subscription' = [subscription EXCEPT !.status = "active", !.paid = p]
      /\ Sub!Sent(T, n) /\ UNCHANGED <<worker, licence, credential>>
    BY <1>1, <1>2, <1>3 DEF Sub!Recover, SubInv, StripeOK, Subscribed
<1>5. DOMAIN subscription.paid = 1..n
    BY <1>3 DEF SubInv, StripeOK, Subscribed
<1>6. p \in Seq(BOOLEAN) /\ Len(p) = n /\ DOMAIN p = 1..n
    BY <1>2, <1>3, <1>5
<1>7. \A j \in DOMAIN p : p[j] = TRUE
    BY <1>2, Zenon
<1>8. /\ subscription' \in Subscribed /\ subscription'.end <= MaxSent + 1 /\ subscription'.status = "active"
      /\ subscription'.paid = p
    BY <1>4, <1>6 DEF SubInv, StripeOK, Subscribed, Sub!Statuses
<1>9. SentOK' /\ Grown(T, n)
    BY <1>1, <1>4, SentIs DEF SubInv, Sub!EventTypes
<1>10. "customer.subscription.deleted" \notin T /\ "invoice.payment_failed" \notin T
    BY <1>1
<1>11. subscription'.status = "active" => \A j \in DOMAIN subscription'.paid : subscription'.paid[j] = TRUE
    BY <1>7, <1>8, Zenon
<1>12. n \in 1..Len(subscription'.paid) /\ Len(subscription'.paid) >= Len(subscription.paid)
    BY <1>3, <1>6, <1>8
<1> QED
    BY <1>4, <1>8, <1>9, <1>10, <1>11, <1>12, StripeStep

\* A renewal adds an invoice; one that fails ends the "active".
LEMMA StripeRenew ==
    ASSUME Sub!SubscriptionAssumption, SubInv, NEW paid \in BOOLEAN, Sub!Renew(paid)
    PROVE  SubInv' /\ ProcessedStay
<1>1. PICK a, b : /\ paid => a = "invoice.paid" /\ b = "invoice.paid"
                  /\ ~paid => a = "invoice.payment_failed" /\ b = "customer.subscription.updated"
    OBVIOUS
<1>2. PICK T : T = {a, b}
    OBVIOUS
<1>3. PICK n \in Nat : n = Len(subscription.paid) /\ n >= 1
    BY DEF SubInv, StripeOK, Subscribed, Sub!Renew
<1>4. PICK p : p = Append(subscription.paid, paid)
    OBVIOUS
<1>5. PICK status : status = IF paid THEN "active" ELSE "past_due"
    OBVIOUS
<1>6. /\ subscription.status = "active"
      /\ subscription' = [subscription EXCEPT !.status = status, !.paid = p]
      /\ UNCHANGED <<worker, licence, credential>>
    BY <1>4, <1>5 DEF Sub!Renew, SubInv, StripeOK, Subscribed
<1>7. T = IF paid THEN {"invoice.paid"} ELSE {"invoice.payment_failed", "customer.subscription.updated"}
    BY <1>1, <1>2
<1>8. Sub!Sent(T, n + 1) /\ a \in Sub!EventTypes /\ b \in Sub!EventTypes
    BY <1>1, <1>3, <1>7 DEF Sub!Renew, Sub!EventTypes
<1>9. SentOK' /\ Grown(T, n + 1)
    BY <1>2, <1>3, <1>8, SentIs DEF SubInv
<1>10. p \in Seq(BOOLEAN) /\ Len(p) = n + 1 /\ DOMAIN p = 1..(n + 1)
    BY <1>3, <1>4 DEF SubInv, StripeOK, Subscribed
<1>11. ASSUME paid, NEW j \in DOMAIN p PROVE p[j] = TRUE
  <2>1. \A i \in DOMAIN subscription.paid : subscription.paid[i] = TRUE
      BY <1>6 DEF SubInv, StripeOK
  <2>2. subscription.paid \in Seq(BOOLEAN)
      BY DEF SubInv, StripeOK, Subscribed
  <2>3. CASE j = n + 1
    <3>1. p[j] = paid
        BY <1>3, <1>4, <2>2, <2>3
    <3> QED
        BY <1>11, <3>1, Zenon
  <2>4. CASE j # n + 1
    <3>1. j \in DOMAIN subscription.paid /\ p[j] = subscription.paid[j]
        BY <1>3, <1>4, <1>10, <2>2, <2>4
    <3> QED
        BY <2>1, <3>1, Zenon
  <2> QED
      BY <2>3, <2>4
<1>12. /\ subscription' \in Subscribed /\ subscription'.end <= MaxSent + 1 /\ subscription'.status = status
       /\ subscription'.paid = p /\ status # "none"
    BY <1>5, <1>6, <1>10 DEF SubInv, StripeOK, Subscribed, Sub!Statuses
<1>13. "customer.subscription.deleted" \notin T /\ ("invoice.payment_failed" \in T => status # "active")
    BY <1>5, <1>7
<1>14. subscription'.status = "active" => \A j \in DOMAIN subscription'.paid : subscription'.paid[j] = TRUE
  <2>1. status = "active" => paid
      BY <1>5
  <2> QED
      BY <1>11, <1>12, <2>1, Zenon
<1>15. n + 1 \in 1..Len(subscription'.paid) /\ Len(subscription'.paid) >= Len(subscription.paid)
    BY <1>3, <1>10, <1>12
<1> QED
    BY <1>6, <1>9, <1>12, <1>13, <1>14, <1>15, StripeStep

\* A step of one worker that writes nothing.
LEMMA WorkerAlone ==
    ASSUME SubInv, NEW w \in Workers, NEW r, UNCHANGED <<subscription, second, sent, licence, credential>>,
           worker' = [worker EXCEPT ![w] = r], r.stage \in {"idle", "subscription", "invoice"},
           r.stage # "idle" => Holding(r)
    PROVE  SubInv' /\ ProcessedStay
<1>1. /\ DOMAIN worker' = Workers /\ worker'[w] = r
      /\ \A x \in Workers \ {w} : worker'[x] = worker[x]
    BY DEF SubInv, WorkersOK
<1>2. ASSUME NEW x \in Workers PROVE /\ worker'[x].stage \in {"idle", "subscription", "invoice"}
                                     /\ worker'[x].stage # "idle" => Holding(worker'[x])
    BY <1>1 DEF SubInv, WorkersOK
<1>5. ASSUME NEW x \in Workers, worker'[x].stage # "idle" PROVE Holding(worker[x])'
  <2>1. PICK q : q = worker'[x]
      OBVIOUS
  <2>2. Holding(q)
      BY <1>2, <1>5, <2>1
  <2> QED
      BY <2>1, <2>2 DEF Holding
<1>3. WorkersOK'
    BY <1>1, <1>2, <1>5 DEF WorkersOK
<1>4. SentOK' /\ StripeOK' /\ LicenceOK' /\ HandledOK'
    BY DEF SubInv, SentOK, StripeOK, LicenceOK, HandledOK, Reached, Agrees
<1> QED
    BY <1>3, <1>4 DEF SubInv, ProcessedStay

LEMMA SubDie == ASSUME SubInv, NEW w \in Workers, Sub!Die(w) PROVE SubInv' /\ ProcessedStay
    BY WorkerAlone DEF Sub!Die, Sub!Idle

LEMMA SubReadSubscription ==
    ASSUME SubInv, NEW w \in Workers, Sub!ReadSubscription(w) PROVE SubInv' /\ ProcessedStay
<1>1. PICK e \in sent :
         /\ e.state = "pending" /\ UNCHANGED <<subscription, second, sent, licence, credential>>
         /\ worker' = [worker EXCEPT ![w] =
              [stage |-> "subscription", event |-> e, status |-> subscription.status,
               end |-> subscription.end, latest |-> Len(subscription.paid)]]
    BY DEF Sub!ReadSubscription
<1>2. PICK r : r = [stage |-> "subscription", event |-> e, status |-> subscription.status,
                    end |-> subscription.end, latest |-> Len(subscription.paid)]
    OBVIOUS
<1>3. subscription.status \in Bought /\ e \in SentEvents
    BY DEF SubInv, SentOK, StripeOK, Subscribed, Sub!Statuses, Bought
<1>4. Holding(r)
    BY <1>1, <1>2, <1>3 DEF Holding, SameEvent
<1> QED
    BY <1>1, <1>2, <1>4, WorkerAlone

LEMMA SubReadInvoice ==
    ASSUME SubInv, NEW w \in Workers, Sub!ReadInvoice(w) PROVE SubInv' /\ ProcessedStay
<1>1. PICK r : r = worker[w]
    OBVIOUS
<1>2. Holding(r) /\ r.stage = "subscription" /\ UNCHANGED <<subscription, second, sent, licence, credential>>
    BY <1>1 DEF SubInv, WorkersOK, Sub!ReadInvoice
<1>3. PICK i : i = Sub!InvoiceOf(r.event, r.latest)
    OBVIOUS
<1>4. PICK k : k = [stage |-> "invoice", event |-> r.event, status |-> r.status, end |-> r.end,
                    paid |-> subscription.paid[i], verifies |-> subscription.verifies, found |-> licence # None]
    OBVIOUS
<1>5. worker' = [worker EXCEPT ![w] = k]
    BY <1>1, <1>3, <1>4 DEF Sub!ReadInvoice, SubInv, WorkersOK
<1>6. ASSUME Last(sent, r.event.change), r.status = "active" PROVE subscription.paid[i] = TRUE
  <2>1. PICK e \in sent : e.invoice = r.event.invoice
      BY <1>2 DEF Holding, SameEvent
  <2>2. PICK n \in Nat : n = Len(subscription.paid) /\ n >= 1 /\ DOMAIN subscription.paid = 1..n
      BY <2>1 DEF SubInv, StripeOK, Subscribed
  <2>3. r.event.invoice \in 1..n /\ r.latest = n /\ subscription.status = "active"
      BY <1>2, <1>6, <2>1, <2>2 DEF SubInv, StripeOK, Holding
  <2>4. i \in 1..n
      BY <1>3, <2>2, <2>3 DEF Sub!InvoiceOf
  <2> QED
      BY <2>2, <2>3, <2>4 DEF SubInv, StripeOK
<1>7. /\ k.stage = "invoice" /\ k.event = r.event /\ k.status = r.status /\ k.end = r.end
      /\ k.paid = subscription.paid[i]
    BY <1>4
<1>8. Holding(k)
    BY <1>2, <1>6, <1>7 DEF Holding
<1> QED
    BY <1>2, <1>5, <1>7, <1>8, WorkerAlone

LEMMA SubArchive == ASSUME SubInv, Sub!Archive PROVE SubInv' /\ ProcessedStay
<1>1. subscription' = [subscription EXCEPT !.verifies = FALSE]
      /\ UNCHANGED <<second, sent, worker, licence, credential>>
    BY DEF Sub!Archive
<1>2. /\ subscription' \in Subscribed /\ subscription'.status = subscription.status
      /\ subscription'.end = subscription.end /\ subscription'.paid = subscription.paid
    BY <1>1 DEF SubInv, StripeOK, Subscribed
<1>3. SentOK' /\ StripeOK' /\ LicenceOK' /\ HandledOK'
    BY <1>1, <1>2 DEF SubInv, SentOK, StripeOK, LicenceOK, HandledOK, Reached, Agrees
<1>4. WorkersOK'
    BY <1>1, <1>2 DEF SubInv, WorkersOK, Holding
<1> QED
    BY <1>1, <1>3, <1>4 DEF SubInv, ProcessedStay

LEMMA SubIssue == ASSUME SubInv, Sub!Issue PROVE SubInv' /\ ProcessedStay
<1>1. /\ licence # None /\ licence.status = "active" /\ credential' = TRUE
      /\ UNCHANGED <<subscription, second, sent, worker, licence>>
    BY DEF Sub!Issue
<1>2. SentOK' /\ StripeOK' /\ LicenceOK' /\ HandledOK'
    BY <1>1 DEF SubInv, SentOK, StripeOK, LicenceOK, HandledOK, Reached, Agrees
<1>3. WorkersOK'
    BY <1>1 DEF SubInv, WorkersOK, Holding
<1> QED
    BY <1>1, <1>2, <1>3 DEF SubInv, ProcessedStay

LEMMA LastStays ==
    ASSUME NEW S, NEW R, \A f \in S : \E g \in R : SameEvent(f, g), \A g \in R : \E f \in S : SameEvent(f, g),
           NEW c
    PROVE  Last(R, c) <=> Last(S, c)
    BY DEF Last, SameEvent

\* Settling an event changes what it says of itself and nothing else.
LEMMA SettleIs ==
    ASSUME SubInv, NEW e \in sent, e.state = "pending", NEW state \in {"processed", "ignored", "dead"},
           Sub!Settled(e, state), UNCHANGED <<subscription, second>>
    PROVE  /\ SentOK' /\ StripeOK' /\ ProcessedStay
           /\ \A f \in sent : \E g \in sent' : SameEvent(f, g)
           /\ \A g \in sent' : \E f \in sent : SameEvent(f, g)
           /\ \A g \in sent' : g \in sent \/ (SameEvent(e, g) /\ g.state = state)
<1>1. PICK k : k = [e EXCEPT !.state = state]
    OBVIOUS
<1>2. e \in SentEvents
    BY DEF SubInv, SentOK
<1>3. k \in SentEvents /\ SameEvent(e, k) /\ k.state = state /\ k.state # "pending"
    BY <1>1, <1>2 DEF SentEvents, SameEvent
<1>4. PICK S : S = sent \ {e}
    OBVIOUS
<1>5. sent' = S \cup {k}
    BY <1>1, <1>4 DEF Sub!Settled
<1>6. k \notin S
    BY <1>3, <1>4 DEF SubInv, SentOK, SameEvent
<1>7. IsFiniteSet(sent') /\ Cardinality(sent') = Cardinality(sent)
  <2>1. IsFiniteSet(sent) /\ Cardinality(sent) \in Nat
      BY FS_CardinalityType DEF SubInv, SentOK
  <2>2. IsFiniteSet(S) /\ Cardinality(S) = Cardinality(sent) - 1 /\ Cardinality(S) \in Nat
      BY <1>4, <2>1, FS_RemoveElement, FS_CardinalityType
  <2>3. IsFiniteSet(S \cup {k}) /\ Cardinality(S \cup {k}) = Cardinality(S) + 1
      BY <1>6, <2>2, FS_AddElement
  <2> QED
      BY <1>5, <2>1, <2>2, <2>3
<1>8. ASSUME NEW g \in sent' PROVE (g \in sent /\ g # e) \/ g = k
    BY <1>4, <1>5
<1>9. ASSUME NEW f \in sent PROVE \E g \in sent' : SameEvent(f, g)
  <2>1. CASE f = e
      BY <1>3, <1>5, <2>1
  <2>2. CASE f # e
      BY <1>4, <1>5, <2>2 DEF SameEvent
  <2> QED
      BY <2>1, <2>2
<1>10. ASSUME NEW g \in sent'
       PROVE  g \in SentEvents /\ \E f \in sent : SameEvent(f, g) /\ (g # k => f = g)
    BY <1>3, <1>8 DEF SubInv, SentOK, SameEvent
<1>14. /\ \A f \in sent : \E g \in sent' : SameEvent(f, g)
       /\ \A g \in sent' : \E f \in sent : SameEvent(f, g)
    BY <1>9, <1>10
<1>15. ASSUME NEW c PROVE Last(sent', c) <=> Last(sent, c)
    BY <1>14, LastStays
<1>11. SentOK'
  <2>1. \A f, g \in sent' : f.at = g.at /\ f.id = g.id => f = g
      BY <1>3, <1>8 DEF SubInv, SentOK, SameEvent
  <2>2. PICK f \in sent : Last(sent, f.change)
      BY DEF SubInv, SentOK
  <2>3. \E g \in sent' : Last(sent', g.change)
      BY <1>9, <1>15, <2>2 DEF SameEvent
  <2>4. \A g \in sent' : g \in SentEvents /\ g.change <= Cardinality(sent) /\ g.at <= second
      BY <1>10 DEF SubInv, SentOK, SameEvent
  <2>5. second \in Nat /\ Cardinality(sent) <= MaxSent /\ second <= Cardinality(sent)
      BY DEF SubInv, SentOK
  <2> QED
      BY <1>7, <2>1, <2>3, <2>4, <2>5 DEF SentOK
<1>12. StripeOK'
  <2>1. ASSUME NEW g \in sent'
        PROVE  /\ g.invoice \in 1..Len(subscription.paid)
               /\ g.type = "customer.subscription.deleted"
                    => subscription.status = "canceled" /\ Last(sent', g.change)
               /\ g.type = "invoice.payment_failed" /\ Last(sent', g.change) => subscription.status # "active"
    <3>1. PICK f \in sent : SameEvent(f, g)
        BY <1>10
    <3> QED
        BY <1>15, <3>1 DEF SubInv, StripeOK, SameEvent
  <2>2. sent # {} /\ sent' # {}
      BY <1>5
  <2> QED
      BY <2>1, <2>2 DEF SubInv, StripeOK
<1>13. ProcessedStay
    BY <1>4, <1>5 DEF ProcessedStay
<1> QED
    BY <1>3, <1>8, <1>11, <1>12, <1>13, <1>14

\* What an idle worker leaves behind holds as long as the events do.
LEMMA OthersHold ==
    ASSUME SubInv, NEW w \in Workers, worker' = [worker EXCEPT ![w] = Sub!Idle],
           UNCHANGED <<subscription, second>>, \A f \in sent : \E g \in sent' : SameEvent(f, g),
           \A g \in sent' : \E f \in sent : SameEvent(f, g)
    PROVE  WorkersOK'
<1>1. /\ DOMAIN worker' = Workers /\ worker'[w] = Sub!Idle /\ Sub!Idle.stage = "idle"
      /\ \A x \in Workers \ {w} : worker'[x] = worker[x]
    BY DEF SubInv, WorkersOK, Sub!Idle
<1>2. ASSUME NEW x \in Workers
      PROVE  /\ worker'[x].stage \in {"idle", "subscription", "invoice"}
             /\ worker'[x].stage # "idle" => Holding(worker[x])'
  <2>1. CASE worker'[x].stage = "idle"
      BY <2>1
  <2>2. CASE worker'[x].stage # "idle"
    <3>1. worker'[x] = worker[x]
        BY <1>1, <2>2
    <3>2. PICK r : r = worker[x]
        OBVIOUS
    <3>3. Holding(r) /\ r.stage \in {"idle", "subscription", "invoice"}
        BY <2>2, <3>1, <3>2 DEF SubInv, WorkersOK
    <3>4. PICK f \in sent : SameEvent(f, r.event)
        BY <3>3 DEF Holding
    <3>5. \E g \in sent' : SameEvent(g, r.event)
        BY <3>4 DEF SameEvent
    <3>6. worker'[x] = r
        BY <3>1, <3>2
    <3>8. Last(sent', r.event.change) <=> Last(sent, r.event.change)
        BY LastStays
    <3>7. Holding(worker[x])'
        BY <3>3, <3>5, <3>6, <3>8 DEF Holding
    <3> QED
        BY <3>3, <3>6, <3>7
  <2> QED
      BY <2>1, <2>2
<1> QED
    BY <1>1, <1>2 DEF WorkersOK

\* What a write leaves: a row as new as the event, and nothing older than before.
WrittenFor(e) ==
    /\ LicenceOK' /\ licence' # None /\ Reached(e)'
    /\ \A f \in sent : licence # None /\ Reached(f) => Reached(f)'

LEMMA WriteIs ==
    ASSUME Sub!SubscriptionAssumption, SubInv, NEW r, Holding(r), NEW to, Sub!Write(r, to),
           to.status \in {"active", "suspended", "revoked"}, to.reason \in Sub!Reasons,
           to.reason \in Sub!Terminal => subscription.status = "canceled",
           Last(sent, r.event.change) => Agrees(to.status), SentOK',
           UNCHANGED <<subscription, second>>, \A f \in sent : \E g \in sent' : SameEvent(f, g),
           \A g \in sent' : \E f \in sent : SameEvent(f, g)
    PROVE  WrittenFor(r.event)
<1>1. PICK e : e = r.event
    OBVIOUS
<1>2. e \in SentEvents /\ e.at \in Nat /\ e.id \in Nat
    BY <1>1 DEF Holding, SentEvents
<1>3. PICK f \in sent : SameEvent(f, e)
    BY <1>1 DEF Holding
<1>6. ASSUME NEW g \in sent', g.at = e.at, g.id = e.id PROVE g.change = e.change
  <2>1. PICK h \in sent' : SameEvent(f, h)
      OBVIOUS
  <2>2. h.at = e.at /\ h.id = e.id /\ h.change = e.change
      BY <1>3, <2>1 DEF SameEvent
  <2>3. g = h
      BY <1>6, <2>2 DEF SentOK
  <2> QED
      BY <2>2, <2>3
<1>7. ASSUME NEW c PROVE Last(sent', c) <=> Last(sent, c)
    BY LastStays
<1>4. CASE Sub!Newer(e)
  <2>1. PICK n : n = [status |-> to.status, reason |-> to.reason, at |-> e.at, id |-> e.id]
      OBVIOUS
  <2>2. n \in LicenceRows /\ n.status = to.status /\ n.reason = to.reason /\ n.at = e.at /\ n.id = e.id
      BY <1>2, <2>1 DEF LicenceRows
  <2>3. licence' = n /\ credential' = (credential /\ to.status = "active")
      BY <1>1, <1>4, <2>1 DEF Sub!Write
  <2>4. n # None
      BY <2>2 DEF Sub!SubscriptionAssumption, LicenceRows
  <2>5. \E g \in sent' : n.at = g.at /\ n.id = g.id
      BY <1>3, <2>2 DEF SameEvent
  <2>6. Agrees(to.status) <=> Agrees(to.status)'
      BY DEF Agrees
  <2>7. credential' \in BOOLEAN /\ (credential' => to.status = "active")
      BY <2>3 DEF SubInv, LicenceOK
  <2>8. \A g \in sent' : Last(sent', g.change) /\ n.at = g.at /\ n.id = g.id => Agrees(n.status)
      BY <1>1, <1>6, <1>7, <2>2
  <2>9. LicenceOK'
      BY <2>2, <2>3, <2>4, <2>5, <2>7, <2>8 DEF LicenceOK, Agrees
  <2>10. Reached(e)'
      BY <1>2, <2>2, <2>3 DEF Reached
  <2>11. ASSUME NEW g \in sent, licence # None, Reached(g) PROVE Reached(g)'
    <3>1. licence.at \in Nat /\ licence.id \in Nat /\ g.at \in Nat /\ g.id \in Nat
        BY <2>11 DEF SubInv, LicenceOK, LicenceRows, SentOK, SentEvents
    <3> QED
        BY <1>2, <1>4, <2>2, <2>3, <2>11, <3>1 DEF Reached, Sub!Newer
  <2> QED
      BY <1>1, <2>3, <2>4, <2>9, <2>10, <2>11 DEF WrittenFor
<1>5. CASE ~Sub!Newer(e)
  <2>1. licence' = licence /\ credential' = credential /\ licence # None
      BY <1>1, <1>5 DEF Sub!Write, Sub!Newer
  <2>2. licence.at \in Nat /\ licence.id \in Nat
      BY <2>1 DEF SubInv, LicenceOK, LicenceRows
  <2>3. PICK g \in sent : licence.at = g.at /\ licence.id = g.id
      BY <2>1 DEF SubInv, LicenceOK
  <2>4. \E h \in sent' : licence.at = h.at /\ licence.id = h.id
      BY <2>3 DEF SameEvent
  <2>8. ASSUME NEW h \in sent', Last(sent', h.change), licence.at = h.at, licence.id = h.id
        PROVE  Agrees(licence.status)
    <3>1. PICK k \in sent : SameEvent(k, h)
        OBVIOUS
    <3>2. Last(sent, k.change) /\ licence.at = k.at /\ licence.id = k.id
        BY <1>7, <2>8, <3>1 DEF SameEvent
    <3> QED
        BY <2>1, <3>2 DEF SubInv, LicenceOK
  <2>5. LicenceOK'
      BY <2>1, <2>4, <2>8 DEF SubInv, LicenceOK, Agrees
  <2>6. Reached(e)'
      BY <1>2, <1>5, <2>1, <2>2 DEF Reached, Sub!Newer
  <2>7. \A h \in sent : Reached(h) => Reached(h)'
      BY <2>1 DEF Reached
  <2> QED
      BY <1>1, <2>1, <2>5, <2>6, <2>7 DEF WrittenFor
<1> QED
    BY <1>4, <1>5

\* What the two plans of a row rest on.
LEMMA TransitionIs ==
    ASSUME SubInv, NEW r, Holding(r), r.stage = "invoice", NEW to, to = Sub!Transition(r)
    PROVE  /\ to.status \in {"active", "suspended", "revoked"} /\ to.reason \in Sub!Reasons
           /\ to.reason \in Sub!Terminal => subscription.status = "canceled"
           /\ Last(sent, r.event.change) => Agrees(to.status)
<1>1. PICK e \in sent : e.change = r.event.change /\ e.type = r.event.type
    BY DEF Holding, SameEvent
<1>2. /\ r.event.type = "customer.subscription.deleted" => subscription.status = "canceled"
      /\ r.event.type = "invoice.payment_failed" /\ Last(sent, r.event.change) => subscription.status # "active"
    BY <1>1 DEF SubInv, StripeOK
<1>3. r.status \in Bought /\ (r.status = "canceled" => subscription.status = "canceled")
    BY DEF Holding
<1>4. PICK s : s = Sub!StatusReason(r.status)
    OBVIOUS
<1>5. s \in Sub!Reasons /\ (s \in Sub!Terminal => r.status = "canceled")
    BY <1>3, <1>4 DEF Sub!StatusReason, Bought, Sub!Reasons, Sub!Terminal
<1>6. /\ to.status \in {"active", "suspended", "revoked"}
      /\ to.reason \in {s, "subscription_deleted", "invoice_payment_failed", "subscription_paid_period_ended",
                        "subscription_cancel_at_period_end", "invoice_payment_recovered", "subscription_active"}
      /\ to.reason = "subscription_deleted" => r.event.type = "customer.subscription.deleted" \/ to.reason = s
    BY <1>4 DEF Sub!Transition
<1>7. to.reason \in Sub!Reasons /\ (to.reason \in Sub!Terminal => subscription.status = "canceled")
    BY <1>2, <1>3, <1>5, <1>6 DEF Sub!Reasons, Sub!Terminal
<1>8. ASSUME Last(sent, r.event.change) PROVE Agrees(to.status)
  <2>1. r.status = subscription.status /\ r.end = subscription.end /\ (r.status = "active" => r.paid = TRUE)
      BY <1>8 DEF Holding
  <2>2. CASE subscription.status # "active"
    <3>1. r.status \in {"past_due", "unpaid", "canceled"}
        BY <1>3, <2>1, <2>2 DEF Bought
    <3>2. to.status # "active"
        BY <3>1 DEF Sub!Transition
    <3> QED
        BY <2>2, <3>2 DEF Agrees
  <2>3. CASE subscription.status = "active"
    <3>1. ~(licence # None /\ licence.reason \in Sub!Terminal)
        BY <2>3 DEF SubInv, LicenceOK
    <3>2. /\ r.event.type # "customer.subscription.deleted" /\ r.event.type # "invoice.payment_failed"
          /\ r.status = "active" /\ r.paid = TRUE
        BY <1>2, <1>8, <2>1, <2>3
    <3>3. r.end = 0 => to.status = "active"
        BY <3>1, <3>2 DEF Sub!Transition
    <3> QED
        BY <2>1, <2>3, <3>3 DEF Agrees
  <2> QED
      BY <2>2, <2>3
<1> QED
    BY <1>6, <1>7, <1>8

LEMMA LegacyTargetIs ==
    ASSUME SubInv, NEW r, Holding(r), Kind = "legacy", NEW to, to = Sub!LegacyTarget(r)
    PROVE  /\ to.status \in {"active", "suspended", "revoked"} /\ to.reason \in Sub!Reasons
           /\ to.reason \in Sub!Terminal => subscription.status = "canceled"
           /\ Last(sent, r.event.change) => Agrees(to.status)
<1>1. /\ r.status \in Bought /\ (r.status = "canceled" => subscription.status = "canceled")
      /\ Last(sent, r.event.change) => r.status = subscription.status
    BY DEF Holding
<1>2. PICK s : s = Sub!StatusReason(r.status)
    OBVIOUS
<1>3. s \in Sub!Reasons /\ (s \in Sub!Terminal => r.status = "canceled")
    BY <1>1, <1>2 DEF Sub!StatusReason, Bought, Sub!Reasons, Sub!Terminal
<1>4. /\ to.status \in {"active", "revoked"} /\ to.reason \in {s, "legacy_unverified"}
      /\ to.status = "active" => r.status = "active"
    BY <1>2 DEF Sub!LegacyTarget
<1> QED
    BY <1>1, <1>3, <1>4 DEF Agrees, Sub!Reasons, Sub!Terminal

\* A worker ends: what it wrote and settled, the rows and events say.
LEMMA SubWorkerEnds ==
    ASSUME SubInv, NEW w \in Workers, NEW e \in SentEvents, NEW state \in {"processed", "ignored", "dead"},
           worker' = [worker EXCEPT ![w] = Sub!Idle], UNCHANGED <<subscription, second>>,
           e.state = "pending", sent' = sent \/ (e \in sent /\ Sub!Settled(e, state)),
           WrittenFor(e) \/ (state # "processed" /\ UNCHANGED <<licence, credential>>),
           state = "ignored" => Kind = "legacy"
    PROVE  SubInv' /\ ProcessedStay
<1>1. /\ SentOK' /\ StripeOK' /\ ProcessedStay
      /\ \A f \in sent : \E g \in sent' : SameEvent(f, g)
      /\ \A g \in sent' : \E f \in sent : SameEvent(f, g)
      /\ \A g \in sent' : g \in sent \/ (SameEvent(e, g) /\ g.state = state)
  <2>1. CASE sent' = sent
      BY <2>1 DEF SubInv, SentOK, StripeOK, ProcessedStay, SameEvent
  <2>2. CASE e \in sent /\ Sub!Settled(e, state)
      BY <2>2, SettleIs
  <2> QED
      BY <2>1, <2>2
<1>2. WorkersOK'
    BY <1>1, OthersHold
<1>3. CASE WrittenFor(e)
  <2>1. ASSUME NEW g \in sent' PROVE /\ g.state = "processed" => licence' # None /\ Reached(g)'
                                     /\ g.state = "ignored" => Kind = "legacy"
    <3>1. CASE g \in sent
        BY <1>3, <3>1 DEF SubInv, HandledOK, WrittenFor
    <3>2. CASE SameEvent(e, g) /\ g.state = state
        BY <1>3, <3>2 DEF WrittenFor, Reached, SameEvent
    <3> QED
        BY <1>1, <3>1, <3>2
  <2>2. HandledOK'
      BY <2>1 DEF HandledOK, Reached
  <2> QED
      BY <1>1, <1>2, <1>3, <2>2 DEF SubInv, WrittenFor
<1>4. CASE state # "processed" /\ UNCHANGED <<licence, credential>>
  <2>1. ASSUME licence # None PROVE \E g \in sent' : licence.at = g.at /\ licence.id = g.id
      BY <1>1, <2>1 DEF SubInv, LicenceOK, SameEvent
  <2>4. ASSUME NEW g \in sent', Last(sent', g.change), licence # None, licence.at = g.at, licence.id = g.id
        PROVE  Agrees(licence.status)
    <3>1. PICK f \in sent : SameEvent(f, g)
        BY <1>1
    <3>2. Last(sent, f.change) /\ licence.at = f.at /\ licence.id = f.id
        BY <1>1, <2>4, <3>1, LastStays DEF SameEvent
    <3> QED
        BY <2>4, <3>2 DEF SubInv, LicenceOK
  <2>2. LicenceOK'
      BY <1>4, <2>1, <2>4 DEF SubInv, LicenceOK, Agrees
  <2>3. HandledOK'
      BY <1>1, <1>4 DEF SubInv, HandledOK, Reached
  <2> QED
      BY <1>1, <1>2, <2>2, <2>3 DEF SubInv
<1> QED
    BY <1>3, <1>4

LEMMA SubReconcile ==
    ASSUME Sub!SubscriptionAssumption, SubInv, NEW w \in Workers, Sub!Reconcile(w) \/ Sub!ReconcileLate(w)
    PROVE  SubInv' /\ ProcessedStay
<1>1. PICK r : r = worker[w]
    OBVIOUS
<1>2. PICK to : to = Sub!Transition(r)
    OBVIOUS
<1>3. /\ r.stage = "invoice" /\ Sub!Write(r, to) /\ worker' = [worker EXCEPT ![w] = Sub!Idle]
      /\ UNCHANGED <<subscription, second>>
      /\ sent' = sent \/ (r.event \in sent /\ Sub!Settled(r.event, "processed"))
    BY <1>1, <1>2 DEF Sub!Reconcile, Sub!ReconcileLate
<1>4. Holding(r) /\ r.event \in SentEvents /\ r.event.state = "pending"
    BY <1>1, <1>3 DEF SubInv, WorkersOK, Holding
<1>5. /\ \A f \in sent : \E g \in sent' : SameEvent(f, g)
      /\ \A g \in sent' : \E f \in sent : SameEvent(f, g)
      /\ SentOK'
  <2>1. CASE sent' = sent
      BY <1>3, <2>1 DEF SameEvent, SubInv, SentOK
  <2>2. CASE r.event \in sent /\ Sub!Settled(r.event, "processed")
      BY <1>3, <1>4, <2>2, SettleIs
  <2> QED
      BY <1>3, <2>1, <2>2
<1>6. WrittenFor(r.event)
    BY <1>2, <1>3, <1>4, <1>5, TransitionIs, WriteIs
<1> QED
    BY <1>3, <1>4, <1>6, SubWorkerEnds

LEMMA SubRefuse ==
    ASSUME SubInv, NEW w \in Workers, Sub!Refuse(w) PROVE SubInv' /\ ProcessedStay
<1>1. PICK r : r = worker[w]
    OBVIOUS
<1>2. /\ r.stage = "invoice" /\ worker' = [worker EXCEPT ![w] = Sub!Idle]
      /\ UNCHANGED <<subscription, second>> /\ UNCHANGED <<licence, credential>>
      /\ sent' = sent \/ (r.event \in sent /\ Sub!Settled(r.event, "dead"))
    BY <1>1 DEF Sub!Refuse
<1>3. r.event \in SentEvents /\ r.event.state = "pending"
    BY <1>1, <1>2 DEF SubInv, WorkersOK, Holding
<1> QED
    BY <1>2, <1>3, SubWorkerEnds

LEMMA SubLegacyIgnore ==
    ASSUME SubInv, NEW w \in Workers, Sub!LegacyIgnore(w) PROVE SubInv' /\ ProcessedStay
<1>1. PICK r : r = worker[w]
    OBVIOUS
<1>2. /\ Kind = "legacy" /\ r.stage = "invoice" /\ worker' = [worker EXCEPT ![w] = Sub!Idle]
      /\ UNCHANGED <<subscription, second>> /\ UNCHANGED <<licence, credential>>
      /\ sent' = sent \/ (r.event \in sent /\ Sub!Settled(r.event, "ignored"))
    BY <1>1 DEF Sub!LegacyIgnore
<1>3. r.event \in SentEvents /\ r.event.state = "pending"
    BY <1>1, <1>2 DEF SubInv, WorkersOK, Holding
<1> QED
    BY <1>2, <1>3, SubWorkerEnds

LEMMA SubLegacyUpsert ==
    ASSUME Sub!SubscriptionAssumption, SubInv, NEW w \in Workers, Sub!LegacyUpsert(w)
    PROVE  SubInv' /\ ProcessedStay
<1>1. PICK r : r = worker[w]
    OBVIOUS
<1>2. PICK to : to = Sub!LegacyTarget(r)
    OBVIOUS
<1>3. /\ r.stage = "invoice" /\ Sub!Write(r, to) /\ worker' = [worker EXCEPT ![w] = Sub!Idle]
      /\ UNCHANGED <<subscription, second>> /\ Kind = "legacy"
      /\ sent' = sent \/ (r.event \in sent /\ Sub!Settled(r.event, "processed"))
    BY <1>1, <1>2 DEF Sub!LegacyUpsert
<1>4. Holding(r) /\ r.event \in SentEvents /\ r.event.state = "pending"
    BY <1>1, <1>3 DEF SubInv, WorkersOK, Holding
<1>5. /\ \A f \in sent : \E g \in sent' : SameEvent(f, g)
      /\ \A g \in sent' : \E f \in sent : SameEvent(f, g)
      /\ SentOK'
  <2>1. CASE sent' = sent
      BY <1>3, <2>1 DEF SameEvent, SubInv, SentOK
  <2>2. CASE r.event \in sent /\ Sub!Settled(r.event, "processed")
      BY <1>3, <1>4, <2>2, SettleIs
  <2> QED
      BY <1>3, <2>1, <2>2
<1>6. WrittenFor(r.event)
    BY <1>2, <1>3, <1>4, <1>5, LegacyTargetIs, WriteIs
<1> QED
    BY <1>3, <1>4, <1>6, SubWorkerEnds

LEMMA SubInit == Sub!SubscriptionAssumption /\ Sub!Init => SubInv
<1> SUFFICES ASSUME Sub!SubscriptionAssumption, Sub!Init PROVE SubInv
    OBVIOUS
<1>1. /\ subscription = Sub!NoSubscription /\ second = 0 /\ sent = {} /\ licence = None /\ credential = FALSE
      /\ worker = [w \in Workers |-> Sub!Idle] /\ MaxSent \in Nat
    BY DEF Sub!Init, Sub!SubscriptionAssumption
<1>2. SentOK
    BY <1>1, FS_EmptySet DEF SentOK
<1>3. <<>> \in Seq(BOOLEAN)
    OBVIOUS
<1>4. StripeOK
    BY <1>1, <1>3 DEF StripeOK, Subscribed, Sub!NoSubscription, Sub!Statuses
<1>5. WorkersOK /\ LicenceOK /\ HandledOK
    BY <1>1 DEF WorkersOK, LicenceOK, HandledOK, Sub!Idle
<1> QED
    BY <1>2, <1>4, <1>5 DEF SubInv

LEMMA SubNext ==
    ASSUME Sub!SubscriptionAssumption PROVE SubInv /\ [Sub!Next]_(Sub!vars) => SubInv' /\ ProcessedStay
<1> SUFFICES ASSUME SubInv, [Sub!Next]_(Sub!vars) PROVE SubInv' /\ ProcessedStay
    OBVIOUS
<1>1. CASE UNCHANGED Sub!vars
  <2>1. UNCHANGED <<subscription, second, sent, worker, licence, credential>>
      BY <1>1 DEF Sub!vars
  <2>2. SentOK' /\ StripeOK' /\ WorkersOK' /\ LicenceOK' /\ HandledOK'
      BY <2>1 DEF SubInv, SentOK, StripeOK, WorkersOK, LicenceOK, HandledOK, Reached, Agrees, Holding
  <2> QED
      BY <2>1, <2>2 DEF SubInv, ProcessedStay
<1>2. CASE Sub!Next
    BY <1>2, StripeSubscribe, StripeRecover, StripeCancelLater, StripeResume, StripeTouch, StripeGiveUp, StripeEnd,
       StripeRenew,
       SubArchive, SubIssue, SubReadSubscription, SubReadInvoice, SubReconcile, SubRefuse, SubLegacyIgnore,
       SubLegacyUpsert, SubDie
    DEF Sub!Next
<1> QED
    BY <1>1, <1>2

\* A row at or above the newest watermark has it.
LEMMA NewestWrote ==
    ASSUME SentOK, LicenceOK, licence # None, NEW e \in sent, Sub!Newest(e), Reached(e)
    PROVE  licence.at = e.at /\ licence.id = e.id
<1>1. PICK f \in sent : licence.at = f.at /\ licence.id = f.id
    BY DEF LicenceOK
<1>2. f \in SentEvents /\ e \in SentEvents
    BY DEF SentOK
<1>3. f.at < e.at \/ (f.at = e.at /\ f.id <= e.id)
    BY DEF Sub!Newest
<1>4. f.at > e.at \/ (f.at = e.at /\ f.id >= e.id)
    BY <1>1 DEF Reached
<1> QED
    BY <1>1, <1>2, <1>3, <1>4 DEF SentEvents

\* What the webhook promises of a subscription, for any number of workers, of
\* renewals, and of events and changes of one second, archived prices included: a
\* denied licence has no token; once an end with the greatest watermark was
\* processed nothing reactivates the licence; and that of an upgrade says what
\* Stripe says as soon as every event is acknowledged, if one of the last change
\* has the greatest watermark (reconcileUpgradePricingSubscription and
\* upsertLicenseFromSubscription).
THEOREM SubscriptionsTrue ==
    ASSUME Sub!SubscriptionAssumption
    PROVE  /\ Sub!Spec => [](Sub!TypeOK /\ Sub!DeniedHasNoCredential /\ (Kind = "upgrade" => Sub!SettledAgrees))
           /\ Sub!Spec => Sub!EndIsFinal
<1>1. SubInv => Sub!TypeOK /\ Sub!DeniedHasNoCredential
  <2> SUFFICES ASSUME SubInv PROVE Sub!TypeOK /\ Sub!DeniedHasNoCredential
      OBVIOUS
  <2>1. /\ subscription.status \in Sub!Statuses /\ subscription.end \in 0..(MaxSent + 1)
        /\ subscription.verifies \in BOOLEAN
      BY DEF SubInv, StripeOK, Subscribed, Sub!SubscriptionAssumption
  <2>2. \A i \in DOMAIN subscription.paid : subscription.paid[i] \in BOOLEAN
      BY DEF SubInv, StripeOK, Subscribed
  <2>3. second \in 0..MaxSent /\ Sub!Cardinality(sent) <= MaxSent
    <3>1. PICK n \in Nat : n = Cardinality(sent) /\ n <= MaxSent /\ second <= n /\ second \in Nat
        BY FS_CardinalityType DEF SubInv, SentOK
    <3>2. second \in 0..MaxSent
        BY <3>1 DEF Sub!SubscriptionAssumption
    <3> QED
        BY <3>1, <3>2, SameCardinality
  <2>4. \A e \in sent : e.type \in Sub!EventTypes /\ e.at <= second
                        /\ e.state \in {"pending", "processed", "ignored", "dead"}
      BY DEF SubInv, SentOK, SentEvents
  <2>5. \A w \in Workers : worker[w].stage \in {"idle", "subscription", "invoice"}
      BY DEF SubInv, WorkersOK
  <2>6. licence # None => /\ licence.status \in {"active", "suspended", "revoked"}
                          /\ licence.reason \in Sub!Reasons
                          /\ \E e \in sent : licence.at = e.at /\ licence.id = e.id
      BY DEF SubInv, LicenceOK, LicenceRows
  <2>7. credential \in BOOLEAN /\ Sub!DeniedHasNoCredential
      BY DEF SubInv, LicenceOK, Sub!DeniedHasNoCredential, Sub!Entitled
  <2> QED
      BY <2>1, <2>2, <2>3, <2>4, <2>5, <2>6, <2>7 DEF Sub!TypeOK
<1>2. SubInv => (Kind = "upgrade" => Sub!SettledAgrees)
  <2> SUFFICES ASSUME SubInv, Kind = "upgrade", NEW e \in sent, Sub!Newest(e), Sub!Latest(e),
                      \A f \in sent : f.state \in {"processed", "ignored"}
               PROVE  /\ subscription.status = "active" /\ subscription.end = 0 => Sub!Entitled
                      /\ subscription.status # "active" => ~Sub!Entitled
      BY DEF Sub!SettledAgrees
  <2>1. Last(sent, e.change) /\ licence # None /\ Reached(e)
      BY DEF SubInv, HandledOK, Sub!Latest, Last
  <2>2. licence.at = e.at /\ licence.id = e.id
      BY <2>1, NewestWrote DEF SubInv
  <2> QED
      BY <2>1, <2>2 DEF SubInv, LicenceOK, Agrees, Sub!Entitled
<1>3. SubInv /\ SubInv' /\ ProcessedStay =>
        \A e \in sent : e.type = "customer.subscription.deleted" /\ e.state = "processed" /\ Sub!Newest(e)'
                         => ~Sub!Entitled'
  <2> SUFFICES ASSUME SubInv, SubInv', ProcessedStay, NEW e \in sent,
                      e.type = "customer.subscription.deleted", e.state = "processed", Sub!Newest(e)'
               PROVE  ~Sub!Entitled'
      OBVIOUS
  <2>1. e \in sent'
      BY DEF ProcessedStay
  <2>2. Last(sent', e.change) /\ subscription'.status = "canceled" /\ licence' # None /\ Reached(e)'
      BY <2>1 DEF SubInv, StripeOK, HandledOK
  <2>3. licence'.at = e.at /\ licence'.id = e.id
    <3>1. PICK f \in sent' : licence'.at = f.at /\ licence'.id = f.id
        BY <2>2 DEF SubInv, LicenceOK
    <3>2. f \in SentEvents /\ e \in SentEvents
        BY <2>1 DEF SubInv, SentOK
    <3>3. f.at < e.at \/ (f.at = e.at /\ f.id <= e.id)
        BY DEF Sub!Newest
    <3>4. f.at > e.at \/ (f.at = e.at /\ f.id >= e.id)
        BY <2>2, <3>1 DEF Reached
    <3> QED
        BY <3>1, <3>2, <3>3, <3>4 DEF SentEvents
  <2> QED
      BY <2>1, <2>2, <2>3 DEF SubInv, LicenceOK, Agrees, Sub!Entitled
<1>4. SubInv /\ [Sub!Next]_(Sub!vars) =>
        [\A e \in sent : e.type = "customer.subscription.deleted" /\ e.state = "processed" /\ Sub!Newest(e)'
                          => ~Sub!Entitled']_(Sub!vars)
    BY <1>3, SubNext
<1> QED
    BY <1>1, <1>2, <1>4, SubInit, SubNext, PTL DEF Sub!Spec, Sub!EndIsFinal
=============================================================================

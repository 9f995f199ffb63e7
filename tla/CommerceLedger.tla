--------------------------- MODULE CommerceLedger ---------------------------
(***************************************************************************)
(* What a customer has paid, projected from Stripe's events                 *)
(* (api/_lib/customer-commerce.ts and the functions of                      *)
(* db/migrations/20260715122000_add_customer_commerce_ledger.sql).          *)
(*                                                                          *)
(* An event is a snapshot of one Stripe object, and the queue presents it   *)
(* in any order, perhaps more than once.  The newest snapshot of an object  *)
(* is its fact.  Objects that name one another are aliases of one payment   *)
(* key, and a payment belongs to the one profile that its evidence names.   *)
(* A payment's settled instrument is what was paid; until it arrives, an    *)
(* invoice or a Checkout stands in for it.                                  *)
(*                                                                          *)
(* An action is one transaction under the namespace's advisory lock, and    *)
(* ends with the reconciliation of owners and the refresh of the totals.    *)
(* One namespace and one currency are modelled; discounts, tax, off-Stripe  *)
(* parts, inquiries, billing models and upgrade dates are left out.         *)
(***************************************************************************)
EXTENDS Integers, FiniteSets, FiniteSetsExt

CONSTANTS
    Objects,       \* Stripe's objects; each is an alias and may be a key
    TypeOf,        \* their types
    Rank,          \* order of the keys: sidestream_customer_commerce_key_priority
    Events,        \* the snapshots Stripe sends
    Links, Strong, \* identity links, and those of a payment or subscription
    Profiles,      \* 1..n, older first
    PaymentOf,     \* the payment that an object is about
    None

Types == {"intent", "charge", "invoice", "checkout", "refund", "dispute"}
States == {"pending", "settled", "open", "lost", "won", "failed"}
Instruments == {"intent", "charge"}

\* An event's snapshot: its place in the order of (event_created_at, event_id),
\* 0 being before every event; its object, state and amounts; the objects it
\* names, the links its ids are evidence of, and an invoice's allocations.
CommerceAssumption ==
    /\ TypeOf \in [Objects -> Types] /\ Rank \in [Objects -> Nat]
    /\ \A e \in Events :
        /\ e.at \in Nat \ {0} /\ e.of \in Objects /\ e.state \in States
        /\ e.amount \in Nat /\ e.refunded \in Nat
        /\ e.names \subseteq Objects /\ e.evidence \subseteq Links
        /\ e.paidBy \subseteq {o \in Objects : TypeOf[o] \in Instruments}
    /\ \A e, f \in Events : e.at = f.at => e = f
    /\ Strong \subseteq Links /\ PaymentOf \in [Objects -> Objects] /\ None \notin Profiles /\ None \notin Objects
    /\ Profiles \subseteq Nat /\ IsFiniteSet(Profiles)

VARIABLES
    fact,      \* sidestream_customer_commerce_materializations
    keyOf,     \* sidestream_customer_commerce_aliases
    edge,      \* sidestream_customer_commerce_invoice_payments: per invoice
    link,      \* sidestream_customer_identity_links
    merged,    \* profiles that were merged into another one
    money,     \* sidestream_customer_money_totals
    applied    \* events that were presented (history)

vars == <<fact, keyOf, edge, link, merged, money, applied>>

NoFact == [at |-> 0, gross |-> 0, refunded |-> 0, disputed |-> 0, first |-> 0, last |-> 0,
           key |-> None, owner |-> None, conflict |-> FALSE, evidence |-> {}]
NoEdge == [at |-> 0, paidBy |-> {}]
NoMoney == [gross |-> 0, refunded |-> 0, disputed |-> 0, net |-> 0, count |-> 0]

Init ==
    /\ fact = [o \in Objects |-> NoFact] /\ keyOf = [o \in Objects |-> None]
    /\ edge = [o \in Objects |-> NoEdge]
    /\ link = [l \in Links |-> None] /\ merged = {}
    /\ money = [p \in Profiles |-> NoMoney] /\ applied = {}

-----------------------------------------------------------------------------
(* normalizeCustomerCommerceEvent                                            *)

Least(a, b) == IF a < b THEN a ELSE b
Most(a, b) == IF a < b THEN b ELSE a

\* A payment's gross is money only once it is settled.
Gross(e) ==
    IF TypeOf[e.of] \in Instruments \cup {"invoice", "checkout"} /\ e.state = "settled"
    THEN e.amount ELSE 0
\* A charge reports what was refunded of it; a refund counts once settled.
Refunded(e) ==
    IF TypeOf[e.of] = "charge" THEN Least(Gross(e), e.refunded)
    ELSE IF TypeOf[e.of] = "refund" /\ e.state = "settled" THEN e.amount ELSE 0
\* Money is disputed while a dispute is open, and once it is lost.
Disputed(e) == IF TypeOf[e.of] = "dispute" /\ e.state \in {"open", "lost"} THEN e.amount ELSE 0
\* Only the event of the transition itself dates a payment.
PaidAt(e) == IF Gross(e) > 0 /\ e.transition THEN e.at ELSE 0

\* commerceAliases
Aliases(e) == {e.of} \cup e.names

-----------------------------------------------------------------------------
(* sidestream_customer_commerce_apply.  The tables are written one after the *)
(* other, so each step is a function of the tables before it.                *)

Tables == [fact |-> fact, keyOf |-> keyOf, edge |-> edge, link |-> link]
Key(ks) == CHOOSE k \in ks : \A j \in ks : Rank[k] <= Rank[j]

\* Every alias and fact of the keys that the event's aliases had moves to the
\* least of them.  Mutant: they keep theirs.
RekeyedAlone(d, e) ==
    LET key == Key(({d.keyOf[a] : a \in Aliases(e)} \ {None}) \cup Aliases(e))
    IN  [d EXCEPT !.keyOf = [a \in Objects |-> IF a \in Aliases(e) THEN key ELSE d.keyOf[a]]]
Rekeyed(d, e) ==
    LET prior == {d.keyOf[a] : a \in Aliases(e)} \ {None}
        key == Key(prior \cup Aliases(e))
    IN  [d EXCEPT
          !.keyOf = [a \in Objects |->
                       IF a \in Aliases(e) \/ d.keyOf[a] \in prior THEN key ELSE d.keyOf[a]],
          !.fact = [o \in Objects |->
                       IF d.fact[o].key \in prior THEN [d.fact[o] EXCEPT !.key = key] ELSE d.fact[o]]]

\* The live profiles that evidence names; a link is never on a merged one.
Named(d, ls) == {d.link[l] : l \in ls} \ {None}
Group(d, k) == {o \in Objects : d.fact[o] # NoFact /\ d.fact[o].key = k}
Owners(d, k) == {d.fact[o].owner : o \in Group(d, k)} \ {None}

\* The owner the event gives its own fact.
Sole(ps) == IF Cardinality(ps) = 1 THEN CHOOSE p \in ps : TRUE ELSE None
Conflicts(d, e, k) == Cardinality(Named(d, e.evidence) \cup Owners(d, k)) > 1
Resolved(d, e, k) ==
    IF Conflicts(d, e, k) THEN None
    ELSE IF Named(d, e.evidence \cap Strong) # {} THEN Sole(Named(d, e.evidence \cap Strong))
    ELSE Sole(Owners(d, k))

\* Dates widen with a newer event and never with an older one.
First(old, at) == IF old = 0 THEN at ELSE IF at = 0 THEN old ELSE Least(old, at)
Last(old, at) == IF at = 0 THEN old ELSE Most(old, at)

\* Mutant: the watermark is not compared.
NewerAlways(old, e) == TRUE
Newer(old, e) == old.at < e.at
\* A newer snapshot replaces what the object says.
Retold(old, e) ==
    IF ~Newer(old, e) THEN old
    ELSE [old EXCEPT !.at = e.at, !.gross = Gross(e), !.refunded = Refunded(e),
                     !.disputed = Disputed(e), !.evidence = e.evidence,
                     !.first = First(@, PaidAt(e)), !.last = Last(@, PaidAt(e))]
\* The upsert of the fact: a snapshot never takes an owner's payment, and an
\* older one may still find its owner or a conflict.
Upserted(d, e) ==
    LET old == d.fact[e.of]
        key == d.keyOf[e.of]
        conflict == Conflicts(d, e, key)
        owner == IF ~Newer(old, e) /\ old.conflict THEN old.owner
                 ELSE IF Newer(old, e) /\ conflict THEN None
                 ELSE IF old.owner = None THEN Resolved(d, e, key) ELSE old.owner
    IN  [d EXCEPT !.fact[e.of] =
            [Retold(old, e) EXCEPT !.key = key, !.owner = owner, !.conflict = old.conflict \/ conflict]]

\* The allocations of an invoice, and a key for an instrument without one.
Allocated(d, e) ==
    [d EXCEPT
      !.keyOf = [a \in Objects |-> IF a \in e.paidBy /\ d.keyOf[a] = None THEN a ELSE d.keyOf[a]],
      !.edge = IF e.paidBy # {} /\ d.edge[e.of].at < e.at
               THEN [d.edge EXCEPT ![e.of] = [at |-> e.at, paidBy |-> e.paidBy]] ELSE d.edge]

\* Invoices that a payment key's instruments paid.
Billed(d, k) == {i \in Objects : d.fact[i] # NoFact /\ \E a \in d.edge[i].paidBy : d.keyOf[a] = k}

\* sidestream_customer_commerce_reconcile_namespace.
Candidates(d, k) ==
    Owners(d, k) \cup UNION {Named(d, d.fact[o].evidence) : o \in Group(d, k) \cup Billed(d, k)}
Backed(d, k) ==
    \/ Owners(d, k) # {}
    \/ \E o \in Group(d, k) \cup Billed(d, k) : Named(d, d.fact[o].evidence \cap Strong) # {}
DisputedKey(d, k, clear) ==
    \/ Cardinality(Candidates(d, k)) > 1
    \/ ~clear /\ \E o \in Group(d, k) : d.fact[o].conflict
Reconciled(d, clear) ==
    [d EXCEPT !.fact = [o \in Objects |->
        IF d.fact[o] = NoFact THEN NoFact
        ELSE LET k == d.fact[o].key
             IN  [d.fact[o] EXCEPT
                    !.conflict = DisputedKey(d, k, clear),
                    !.owner = IF DisputedKey(d, k, clear) \/ ~Backed(d, k) THEN None
                              ELSE Sole(Candidates(d, k))]]]

-----------------------------------------------------------------------------
(* sidestream_customer_commerce_refresh_namespace                            *)

Total(f, S) == MapThenSumSet(LAMBDA o : f[o], S)
Of(d, k, types) == {o \in Group(d, k) : TypeOf[o] \in types}
\* The instrument of a payment: its intent, else a charge.
Instrument(d, k) ==
    IF Of(d, k, {"intent"}) # {} THEN Of(d, k, {"intent"}) ELSE Of(d, k, {"charge"})
Newest(d, S) == CHOOSE o \in S : \A x \in S : d.fact[x].at <= d.fact[o].at
Settled(d, k) == Instrument(d, k) # {} /\ d.fact[Newest(d, Instrument(d, k))].gross > 0

\* What stands in for an instrument that has not settled: an invoice whose
\* allocations have none either, or a Checkout that no paid invoice shadows.
\* Mutant: allocations are not looked at.
StandInsUnallocated(d, k) ==
    {o \in Of(d, k, {"invoice", "checkout"}) : d.fact[o].gross > 0 /\ ~Settled(d, k)}
StandIns(d, k) ==
    {o \in Of(d, k, {"invoice", "checkout"}) :
        /\ d.fact[o].gross > 0 /\ ~Settled(d, k)
        /\ TypeOf[o] = "checkout" =>
             ~\E i \in Billed(d, k) : /\ d.fact[i].gross > 0 /\ ~d.fact[i].conflict
                                      /\ d.fact[i].owner = d.fact[o].owner
        /\ TypeOf[o] = "invoice" =>
             \A a \in d.edge[o].paidBy : Settled(d, d.keyOf[a]) => Owners(d, d.keyOf[a]) = {}}
StandIn(d, k) ==
    LET invoices == StandIns(d, k) \cap Of(d, k, {"invoice"})
    IN  Newest(d, IF invoices # {} THEN invoices ELSE StandIns(d, k))

Counted(d, k) == Settled(d, k) \/ StandIns(d, k) # {}
Source(d, k) == IF Settled(d, k) THEN Newest(d, Instrument(d, k)) ELSE StandIn(d, k)
RefundedOf(d, k) ==
    Most(Max({d.fact[o].refunded : o \in Of(d, k, {"charge"})} \cup {0}),
         Total([o \in Objects |-> d.fact[o].refunded], Of(d, k, {"refund"})))
DisputedOf(d, k) == Total([o \in Objects |-> d.fact[o].disputed], Of(d, k, {"dispute"}))

\* The totals of a profile: the payments it owns, each counted once.
GrossOf(d, k) == IF Counted(d, k) THEN d.fact[Source(d, k)].gross ELSE 0
Owned(d, p) == {k \in Objects : p \in Owners(d, k) /\ (Counted(d, k) \/ Instrument(d, k) # {})}
MoneyOf(d, p) ==
    LET gross == Total([k \in Objects |-> GrossOf(d, k)], Owned(d, p))
        refunded == Total([k \in Objects |-> RefundedOf(d, k)], Owned(d, p))
        disputed == Total([k \in Objects |-> DisputedOf(d, k)], Owned(d, p))
    IN  [gross |-> gross, refunded |-> refunded, disputed |-> disputed,
         net |-> Most(gross - refunded - disputed, 0),
         count |-> Cardinality({k \in Owned(d, p) : Counted(d, k)})]
Refreshed(d) == [p \in Profiles |-> MoneyOf(d, p)]

Written(d) ==
    /\ fact' = d.fact /\ keyOf' = d.keyOf /\ edge' = d.edge /\ link' = d.link
    /\ money' = Refreshed(d)

-----------------------------------------------------------------------------
\* materializeCustomerCommerceEvent for one presentation of an event.
Apply(e) ==
    /\ Written(Reconciled(Allocated(Upserted(Rekeyed(Tables, e), e), e), FALSE))
    /\ applied' = applied \cup {e}
    /\ UNCHANGED merged

\* sidestream_customer_commerce_identity_attach, on a link that is written.
Attach(l, p) ==
    /\ link[l] = None /\ p \notin merged
    /\ Written(Reconciled([Tables EXCEPT !.link[l] = p], FALSE))
    /\ UNCHANGED <<merged, applied>>

\* A merge reassigns the links, which fires the attachment's trigger while the
\* facts still have the old owner; sidestream_customer_commerce_profile_merge
\* then moves the facts and may clear conflicts.
Relinked(p, q) == [Tables EXCEPT !.link = [l \in Links |-> IF link[l] = q THEN p ELSE link[l]]]
Moved(d, p, q) ==
    [d EXCEPT !.fact = [o \in Objects |->
                          IF d.fact[o].owner = q THEN [d.fact[o] EXCEPT !.owner = p] ELSE d.fact[o]]]
Merge(p, q) ==
    /\ p < q /\ {p, q} \cap merged = {}
    /\ LET relinked == IF \E l \in Links : link[l] = q THEN Reconciled(Relinked(p, q), FALSE) ELSE Tables
       IN  Written(Reconciled(Moved(relinked, p, q), TRUE))
    /\ merged' = merged \cup {q}
    /\ UNCHANGED applied

Next ==
    \/ \E e \in Events : Apply(e)
    \/ \E l \in Links, p \in Profiles : Attach(l, p)
    \/ \E p, q \in Profiles : Merge(p, q)

Spec == Init /\ [][Next]_vars

-----------------------------------------------------------------------------
TypeOK ==
    /\ DOMAIN fact = Objects /\ keyOf \in [Objects -> Objects \cup {None}]
    /\ \A o \in Objects :
        /\ fact[o].key \in Objects \cup {None} /\ fact[o].owner \in Profiles \cup {None}
        /\ fact[o].conflict \in BOOLEAN /\ edge[o].paidBy \subseteq Objects
    /\ link \in [Links -> Profiles \cup {None}] /\ merged \subseteq Profiles
    /\ \A p \in Profiles : \A x \in DOMAIN NoMoney : money[p][x] \in Nat

\* Keys are the connected components of what the events named: objects share a
\* key exactly when a chain of presented events ties them (alias upserts).
KeysAreComponents ==
    LET Closed(S) == \A e \in applied : Aliases(e) \cap S = {} \/ Aliases(e) \subseteq S
    IN  \A k \in Objects :
          LET S == {a \in Objects : keyOf[a] = k}
          IN  Closed(S) /\ \A T \in (SUBSET S) \ {{}, S} : ~Closed(T)

\* Whatever the order of presentation, a fact tells what the newest presented
\* snapshot of its object says, under the key of its alias; its dates are times
\* of presented transitions (the upsert's is_newer cases).
FactsAreNewest ==
    \A o \in Objects :
        LET told == {e \in applied : e.of = o}
        IN  /\ told = {} <=> fact[o] = NoFact
            /\ told # {} =>
                 LET e == CHOOSE x \in told : \A y \in told : y.at <= x.at
                 IN  /\ fact[o].at = e.at /\ fact[o].gross = Gross(e)
                     /\ fact[o].refunded = Refunded(e) /\ fact[o].disputed = Disputed(e)
                     /\ fact[o].key = keyOf[o]
            /\ {fact[o].first, fact[o].last} \subseteq {0} \cup {PaidAt(e) : e \in told}
            /\ fact[o].first <= fact[o].last

\* A payment has one owner, a live profile; none while live profiles compete
\* for it, and the one its strong evidence names otherwise (reconcile).
OwnedByEvidence ==
    \A o \in {x \in Objects : fact[x] # NoFact} :
        LET group == {x \in Objects : fact[x] # NoFact /\ fact[x].key = fact[o].key}
            named == {link[l] : l \in UNION {fact[x].evidence : x \in group}} \ {None}
            strong == {link[l] : l \in (UNION {fact[x].evidence : x \in group}) \cap Strong} \ {None}
        IN  /\ \A x \in group : fact[x].owner = fact[o].owner /\ fact[x].conflict = fact[o].conflict
            /\ fact[o].owner \notin merged
            /\ fact[o].conflict => fact[o].owner = None
            /\ Cardinality(named) > 1 => fact[o].conflict
            /\ strong # {} /\ ~fact[o].conflict => strong = {fact[o].owner}

\* What the newest presented snapshots say that a payment brought in: what its
\* settled instrument says, and until one settles what an invoice or a Checkout
\* says; the reference that the totals are compared with.
Told(e) == e \in applied /\ \A f \in applied : f.of = e.of => f.at <= e.at
Says(x, types) == {Gross(e) : e \in {f \in applied : Told(f) /\ PaymentOf[f.of] = x /\ TypeOf[f.of] \in types}}
Paid(x) ==
    IF Max(Says(x, {"intent"}) \cup {0}) > 0 THEN Max(Says(x, {"intent"}))
    ELSE IF Says(x, {"intent"}) = {} /\ Max(Says(x, {"charge"}) \cup {0}) > 0 THEN Max(Says(x, {"charge"}))
    ELSE Max(Says(x, {"invoice", "checkout"}) \cup {0})
Revenue == MapThenSumSet(LAMBDA p : money[p].gross, Profiles)
AllPaid == MapThenSumSet(Paid, {PaymentOf[o] : o \in Objects})

\* No payment is counted twice, for one profile or for two; and once every fact
\* has an owner all that was paid is counted (docs/customer-360.md, "instead of
\* adding to it").
PaidOnce ==
    /\ Revenue <= AllPaid
    /\ (\A o \in Objects : fact[o] # NoFact => fact[o].owner # None) => Revenue = AllPaid

\* docs/customer-360.md:724, "The settled instrument atomically replaces the
\* fallback instead of adding to it": with every event presented, no more is
\* counted than was paid.
SettledReplacesFallback == applied = Events => Revenue <= AllPaid

LedgerHolds == KeysAreComponents /\ FactsAreNewest /\ OwnedByEvidence /\ PaidOnce
=============================================================================

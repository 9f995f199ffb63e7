----------------------------- MODULE MCDelivery -----------------------------
(* What is delivered late, twice, out of order or not at all, one component a *)
(* part: the event queue; the ledger its events are projected to; leads that  *)
(* outlive a lost answer, an outage or a dead process.                        *)
EXTENDS StripeEventQueue, TLC

CONSTANTS Nobody

\* Leads: two of the web page share a key; one of the mobile page is retried under
\* two replays; and one has a Blob that an older tool has carried over.
MCLeads == {"first", "second"}
MCOneLead == {"first"}
MCKeys == {"key"}
MCReplays == {"replay", "beside"}
MCCalls == {"call", "retry"}

\* Commerce: a Checkout that is paid, refunded and disputed; an invoice that a
\* payment is allocated to, with a Checkout of the same payment; and a Checkout
\* that names an invoice only.
Snapshot(at, of, state, amount, refunded, transition, names, evidence, paidBy) ==
    [at |-> at, of |-> of, state |-> state, amount |-> amount, refunded |-> refunded,
     transition |-> transition, names |-> names, evidence |-> evidence, paidBy |-> paidBy]
Bought == {"checkout", "intent", "charge", "refund", "dispute"}
BoughtRank == [o \in Bought |-> CASE o = "intent" -> 1 [] o = "charge" -> 2 [] o = "checkout" -> 4 [] OTHER -> 5]
BoughtEvents ==
    {Snapshot(1, "checkout", "settled", 2, 0, TRUE, {"intent"}, {"pay", "customer"}, {}),
     Snapshot(2, "intent", "settled", 2, 0, TRUE, {"charge"}, {"pay", "customer"}, {}),
     Snapshot(3, "charge", "settled", 2, 0, TRUE, {"intent"}, {"pay"}, {}),
     Snapshot(4, "dispute", "open", 1, 0, FALSE, {"charge", "intent"}, {"pay"}, {}),
     Snapshot(5, "refund", "settled", 1, 0, FALSE, {"charge"}, {}, {}),
     Snapshot(6, "charge", "settled", 2, 1, FALSE, {"intent"}, {"pay"}, {}),
     Snapshot(7, "dispute", "won", 1, 0, FALSE, {"charge", "intent"}, {"pay"}, {})}
Billed == {"invoice", "intent", "checkout"}
BilledRank == [o \in Billed |-> CASE o = "intent" -> 1 [] o = "invoice" -> 3 [] OTHER -> 4]
Invoice == Snapshot(4, "invoice", "settled", 2, 0, TRUE, {}, {"customer", "plan", "pay"}, {"intent"})
BilledEvents ==
    {Snapshot(1, "checkout", "settled", 2, 0, TRUE, {"intent"}, {"pay", "customer"}, {}),
     Snapshot(2, "intent", "pending", 2, 0, FALSE, {}, {"pay", "customer"}, {}),
     Snapshot(3, "intent", "settled", 2, 0, TRUE, {}, {"pay", "customer"}, {}), Invoice}
Types(objects) == [o \in objects |-> o]
Whole(objects) == [o \in objects |-> "intent"]

VARIABLES part, now, db, outages, leadRow, keys, receipts, blob, etag, used, request, replay, leadMailed, answered, stored,
          fact, keyOf, edge, link, merged, money, applied

W == INSTANCE DownloadLeads WITH Leads <- MCLeads, Keys <- MCKeys, NoKey <- "none", Legacy <- {}, Migrated <- {},
        Routes <- {"web"}, Requests <- MCCalls, Replays <- {"replay"}, EmailLimit <- 1, MaxWrites <- 2,
        Outages <- 1, Ambiguous <- TRUE, MaxTime <- 2, row <- leadRow, mailed <- leadMailed
M == INSTANCE DownloadLeads WITH Leads <- MCOneLead, Keys <- MCKeys, NoKey <- "none", Legacy <- {}, Migrated <- {},
        Routes <- {"mobile"}, Requests <- MCCalls, Replays <- MCReplays, EmailLimit <- 1, MaxWrites <- 2,
        Outages <- 1, Ambiguous <- FALSE, MaxTime <- 2, row <- leadRow, mailed <- leadMailed
L == INSTANCE DownloadLeads WITH Leads <- MCOneLead, Keys <- MCKeys, NoKey <- "none", Legacy <- MCOneLead, Migrated <- MCOneLead,
        Routes <- {"web"}, Requests <- {"call"}, Replays <- MCReplays, EmailLimit <- 2, MaxWrites <- 2,
        Outages <- 1, Ambiguous <- TRUE, MaxTime <- 2, row <- leadRow, mailed <- leadMailed
Purchase == INSTANCE CommerceLedger WITH Objects <- Bought, TypeOf <- Types(Bought), Rank <- BoughtRank,
        Events <- BoughtEvents, Links <- {"pay", "customer"}, Strong <- {"pay"}, Profiles <- {1, 2},
        PaymentOf <- Whole(Bought), None <- Nobody
Renewal == INSTANCE CommerceLedger WITH Objects <- Billed, TypeOf <- Types(Billed), Rank <- BilledRank,
        Events <- BilledEvents, Links <- {"pay", "customer", "plan"}, Strong <- {"pay", "plan"}, Profiles <- {1, 2},
        PaymentOf <- Whole(Billed), None <- Nobody

ASSUME LeadsAssumed == W!LeadsAssumption /\ M!LeadsAssumption /\ L!LeadsAssumption

queueVars == vars
leadVars == <<now, db, outages, leadRow, keys, receipts, blob, etag, used, request, replay, leadMailed, answered, stored>>
moneyVars == <<fact, keyOf, edge, link, merged, money, applied>>

DeliveryInit ==
    /\ part \in {"queue", "purchase", "renewal", "web", "mobile", "legacy"}
    /\ Init
    /\ CASE part = "mobile" -> M!Init [] part = "legacy" -> L!Init [] OTHER -> W!Init
    /\ IF part = "renewal" THEN Renewal!Init ELSE Purchase!Init
DeliveryNext ==
    /\ \/ part = "queue" /\ Next /\ UNCHANGED <<leadVars, moneyVars>>
       \/ part = "purchase" /\ Purchase!Next /\ UNCHANGED <<queueVars, leadVars>>
       \/ part = "renewal" /\ Renewal!Next /\ UNCHANGED <<queueVars, leadVars>>
       \/ part = "web" /\ W!Next /\ UNCHANGED <<queueVars, moneyVars>>
       \/ part = "mobile" /\ M!Next /\ UNCHANGED <<queueVars, moneyVars>>
       \/ part = "legacy" /\ L!Next /\ UNCHANGED <<queueVars, moneyVars>>
    /\ UNCHANGED part
DeliverySpec == DeliveryInit /\ [][DeliveryNext]_<<part, queueVars, leadVars, moneyVars>>

\* The properties are the components' own, in the parts that instantiate them.

\* A lead whose caller was told ok is in the database or in a Blob, nothing is
\* counted twice, and a Blob is deleted only as it was replayed (replay.ts).
LeadsHold ==
    /\ [](/\ part = "web" => W!TypeOK /\ W!AcceptedIsKept /\ W!CountedOnce
          /\ part = "mobile" => M!TypeOK /\ M!AcceptedIsKept /\ M!CountedOnce
          /\ part = "legacy" => L!TypeOK /\ L!AcceptedIsKept /\ L!CountedOnce)
    /\ W!DeletedWasRead
\* Keys are components, facts the newest snapshots, owners those of the evidence,
\* and a payment is counted once (sidestream_customer_commerce_apply, _attach,
\* _profile_merge).
LedgerHolds ==
    /\ part = "purchase" => Purchase!CommerceAssumption /\ Purchase!TypeOK /\ Purchase!LedgerHolds
    /\ part = "renewal" => Renewal!CommerceAssumption /\ Renewal!TypeOK /\ Renewal!LedgerHolds

Symmetry == Permutations(Events) \cup Permutations(Drains)
=============================================================================

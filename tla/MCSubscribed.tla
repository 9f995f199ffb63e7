---------------------------- MODULE MCSubscribed ----------------------------
(* A subscription's first payment: its Checkout Session names the invoice,    *)
(* the invoice's allocation names the payment intent, and the intent names    *)
(* neither.                                                                   *)
EXTENDS CommerceLedger

Snapshot(at, of, names, evidence, paidBy) ==
    [at |-> at, of |-> of, state |-> "settled", amount |-> 2, refunded |-> 0,
     transition |-> TRUE, names |-> names, evidence |-> evidence, paidBy |-> paidBy]
Subscribed == {"checkout", "invoice", "intent"}
Itself == [o \in Subscribed |-> o]
OnePayment == [o \in Subscribed |-> "intent"]
Ordered == [o \in Subscribed |-> CASE o = "intent" -> 1 [] o = "invoice" -> 3 [] OTHER -> 4]
Snapshots ==
    {Snapshot(1, "checkout", {"invoice"}, {"session", "customer"}, {}),
     Snapshot(2, "intent", {}, {"pay", "customer"}, {}),
     Snapshot(3, "invoice", {}, {"customer", "plan", "pay"}, {"intent"})}
=============================================================================

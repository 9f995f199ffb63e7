---------------------------- MODULE MCPurchases ----------------------------
(* The purchases, one component a part: nothing is shared between the parts, *)
(* and a behaviour stays in the part it starts in.  The paid Checkout is the *)
(* module extended; the other parts are instances.                           *)
EXTENDS TLC, Integers, PaidCheckout

CONSTANTS p1, b1, b2, a1, a2, i1, x1, x2, x3, c1, o1, o2, n1, n2

Workers == {x1, x2}
AllTurns == {"refunded", "open", "won"}

VARIABLES
    part,
    facts, buyer, licence, paid, claim, outbox, run, recon, activation, profile,
    review, stageOwner, bindings, linking,
    intent, start, session, late, attached, licensed,
    subscription, clock, events, worker, access, credential,
    prices, product, config, created, offer, script, mishaps,
    conn, assigned, quote, expired, covered,
    account, recent, lock, attempt, delivery, cookies, web, logout, visit, credited, faults

\* What Stripe and the deployment may hold: nothing; an old Price that the source
\* names; one Price of other terms before a configured one; the lookup key on
\* other terms; a default Price; and live mode without the built-in Price.
Price(terms, key) == [terms |-> terms, key |-> key, active |-> TRUE]
Configured(live, names) == [n \in {"configured", "default", "legacy", "monthly", "annual", "regional", "live"} |->
    IF n = "live" THEN live ELSE IF n \in DOMAIN names THEN names[n] ELSE 0]
Catalogue(held, default, live, names) ==
    [prices |-> held, default |-> default, config |-> Configured(live, names)]
AllCatalogues ==
    {Catalogue(<<>>, 0, FALSE, <<>>),
     Catalogue(<<Price("one_time", "none")>>, 0, FALSE, "legacy" :> 1),
     Catalogue(<<Price("other", "none"), Price("monthly", "monthly")>>, 1, FALSE, ("configured" :> 1) @@ ("monthly" :> 2)),
     Catalogue(<<Price("regional", "none"), Price("other", "one_time")>>, 0, FALSE, ("default" :> 1) @@ ("regional" :> 1)),
     Catalogue(<<Price("one_time", "none")>>, 1, FALSE, <<>>),
     Catalogue(<<Price("other", "none")>>, 0, TRUE, ("configured" :> 1) @@ ("default" :> 9) @@ ("regional" :> 1))}

\* The experiment closed, switched off, without its secret, at no traffic, and
\* at a threshold between the buckets of two accounts.
Rollout(closed, enabled, secret, threshold) ==
    [closed |-> closed, enabled |-> enabled, secret |-> secret, threshold |-> threshold]
AllRollouts ==
    {Rollout(TRUE, FALSE, TRUE, 0), Rollout(FALSE, FALSE, TRUE, 0), Rollout(FALSE, TRUE, FALSE, 1),
     Rollout(FALSE, TRUE, TRUE, 0), Rollout(FALSE, TRUE, TRUE, 2)}

\* One payment that turns, two accounts, one activation; then two activations
\* and an account that holds a licence of its own; then two concurrent visits.
Turning == INSTANCE PaidClaim WITH Payments <- {p1}, Accounts <- {b1, b2}, Activations <- {a1},
    Installs <- {i1}, Members <- {}, Runs <- {x3}, Reconcilers <- {c1}, Turns <- {"open", "won"},
    Answers <- {"accepted"}, Expiring <- {}
Binding == INSTANCE PaidClaim WITH Payments <- {p1}, Accounts <- {b1, b2}, Activations <- {a1, a2},
    Installs <- {i1}, Members <- {b2}, Runs <- {x3}, Reconcilers <- {}, Turns <- {},
    Answers <- {"accepted"}, Expiring <- {}
Mailing == INSTANCE PaidClaim WITH Payments <- {p1}, Accounts <- {b1}, Activations <- {},
    Installs <- {}, Members <- {}, Runs <- Workers, Reconcilers <- {c1}, Turns <- AllTurns,
    Answers <- {"accepted", "retryable", "dead_letter"}, Expiring <- {p1}
CO == INSTANCE Checkout WITH Accounts <- {b1}, Activations <- {a1},
    Offers <- {o1, o2}, Selected <- {o1, o2}, Ageing <- {a1, x3},
    worker <- start, stripe <- session, activation <- attached
\* Two workers of an upgrade that is canceled, resumed or ended within a second or
\* not, and two of one whose renewals fail; then one worker of longer histories;
\* two of a legacy subscription.
Upgrade == INSTANCE Subscriptions WITH Kind <- "upgrade", Changes <- {"cancel", "end"},
    MaxEvents <- 3, Ids <- 1..3, stripe <- subscription, licence <- access
Failing == INSTANCE Subscriptions WITH Kind <- "upgrade", Changes <- {"renew", "fail"},
    MaxEvents <- 4, Ids <- 1..2, stripe <- subscription, licence <- access
Leaving == INSTANCE Subscriptions WITH Kind <- "upgrade", Changes <- {"cancel", "end", "archive"}, Workers <- {x3},
    MaxEvents <- 4, Ids <- 1..2, stripe <- subscription, licence <- access
Renewing == INSTANCE Subscriptions WITH Kind <- "upgrade", Changes <- {"fail"}, Workers <- {x3},
    MaxEvents <- 6, Ids <- 1..2, stripe <- subscription, licence <- access
Legacy == INSTANCE Subscriptions WITH Kind <- "legacy", Changes <- {"cancel", "end", "archive"},
    MaxEvents <- 3, Ids <- 1..2, stripe <- subscription, licence <- access
Catalog == INSTANCE StripePrices WITH Requests <- Workers, Plans <- {"one_time", "monthly", "annual", "regional"},
    Catalogues <- AllCatalogues, MaxPrices <- 4, MaxMishaps <- 1, answered <- created, request <- offer
Pricing == INSTANCE UpgradePricing WITH Requests <- Workers, Connections <- {n1, n2}, Accounts <- {b1, b2},
    Bucket <- (b1 :> 0) @@ (b2 :> 3), Rollouts <- AllRollouts, Historical <- {b2},
    row <- assigned, request <- quote, licensed <- covered

\* Two tabs of a browser; two sign-ins beside a Stripe delivery, one of a Google
\* account that changed its email; a sign-in beside two deliveries.
Tabs == INSTANCE WebSessions WITH Attempts <- Workers, Deliveries <- {}, Identities <- {<<1, "work">>, <<2, "work">>},
    Customers <- {}, Emails <- {"work"}, Handoffs <- {"mailed"}, MaxAccounts <- 2, MaxMishaps <- 1,
    cookie <- cookies, session <- web, root <- visit, mishaps <- faults
Signers == INSTANCE WebSessions WITH Attempts <- Workers, Deliveries <- {c1},
    Identities <- {<<1, "work">>, <<1, "home">>, <<2, "work">>}, Customers <- {"customer"},
    Emails <- {"work", "home"}, Handoffs <- {}, MaxAccounts <- 3, MaxMishaps <- 0,
    cookie <- cookies, session <- web, root <- visit, mishaps <- faults
Buyers == INSTANCE WebSessions WITH Attempts <- {x3}, Deliveries <- {n1, n2}, Identities <- {<<1, "work">>},
    Customers <- {"customer", "other"}, Emails <- {"work", "home"}, Handoffs <- {}, MaxAccounts <- 3, MaxMishaps <- 0,
    cookie <- cookies, session <- web, root <- visit, mishaps <- faults

ASSUME OffersAssumption == Catalog!PricesAssumption /\ Pricing!PricingAssumption
ASSUME SubscriptionsAssumption ==
    /\ Upgrade!SubscriptionAssumption /\ Failing!SubscriptionAssumption
    /\ Leaving!SubscriptionAssumption /\ Renewing!SubscriptionAssumption
    /\ Legacy!SubscriptionAssumption
ASSUME SignersAssumption == Tabs!SignInAssumption /\ Signers!SignInAssumption /\ Buyers!SignInAssumption

claimVars == <<facts, buyer, licence, paid, claim, outbox, run, recon, activation, profile,
               review, stageOwner, bindings, linking>>
checkoutVars == <<intent, start, session, late, attached, licensed>>
subscriptionVars == <<subscription, clock, events, worker, access, credential>>
catalogVars == <<prices, product, config, created, offer, script, mishaps>>
pricingVars == <<conn, assigned, quote, expired, covered>>
signVars == <<account, recent, lock, attempt, delivery, cookies, web, logout, visit, credited, faults>>
otherVars == <<catalogVars, pricingVars, signVars>>
claimParts == {"turning", "binding", "mailing"}
upgradeParts == {"upgrade", "failing", "leaving", "renewing"}

\* The other parts start with one catalogue, not one behaviour for each.
NoCatalog ==
    /\ prices = <<>> /\ product = <<>> /\ config = <<>> /\ created = <<>>
    /\ offer = <<>> /\ script = <<>> /\ mishaps = 0
PurchasesInit ==
    /\ part \in claimParts \cup upgradeParts
               \cup {"checkout", "paid", "legacy", "catalog", "pricing", "tabs", "signers", "buyers"}
    /\ CASE part = "binding" -> Binding!Init [] part = "mailing" -> Mailing!Init [] OTHER -> Turning!Init
    /\ CO!Init /\ Init /\ Pricing!Init
    /\ CASE part = "signers" -> Signers!Init [] part = "buyers" -> Buyers!Init [] OTHER -> Tabs!Init
    /\ IF part = "catalog" THEN Catalog!Init ELSE NoCatalog
    /\ CASE part = "legacy" -> Legacy!Init [] part \in {"leaving", "renewing"} -> Leaving!Init
         [] OTHER -> Upgrade!Init

Claims == UNCHANGED <<part, checkoutVars, vars, subscriptionVars, otherVars>>
Subscribed == UNCHANGED <<part, claimVars, checkoutVars, vars, otherVars>>
Others == UNCHANGED <<part, claimVars, checkoutVars, vars, subscriptionVars>>
PurchasesNext ==
    \/ part = "turning" /\ Turning!Next /\ Claims
    \/ part = "binding" /\ Binding!Next /\ Claims
    \/ part = "mailing" /\ Mailing!Next /\ Claims
    \/ part = "checkout" /\ CO!Next /\ UNCHANGED <<part, claimVars, vars, subscriptionVars, otherVars>>
    \/ part = "paid" /\ Next /\ UNCHANGED <<part, claimVars, checkoutVars, subscriptionVars, otherVars>>
    \/ part = "upgrade" /\ Upgrade!Next /\ Subscribed
    \/ part = "failing" /\ Failing!Next /\ Subscribed
    \/ part = "leaving" /\ Leaving!Next /\ Subscribed
    \/ part = "renewing" /\ Renewing!Next /\ Subscribed
    \/ part = "legacy" /\ Legacy!Next /\ Subscribed
    \/ part = "catalog" /\ Catalog!Next /\ Others /\ UNCHANGED <<pricingVars, signVars>>
    \/ part = "pricing" /\ Pricing!Next /\ Others /\ UNCHANGED <<catalogVars, signVars>>
    \/ part = "tabs" /\ Tabs!Next /\ Others /\ UNCHANGED <<catalogVars, pricingVars>>
    \/ part = "signers" /\ Signers!Next /\ Others /\ UNCHANGED <<catalogVars, pricingVars>>
    \/ part = "buyers" /\ Buyers!Next /\ Others /\ UNCHANGED <<catalogVars, pricingVars>>

PurchasesSpec ==
    PurchasesInit /\ [][PurchasesNext]_<<part, claimVars, checkoutVars, vars, subscriptionVars, otherVars>>

\* The types and the promises of the paid Checkout are its module's TypeOK and
\* PaidCheckoutHolds; those of the other components are stated here, each in the
\* parts that instantiate it.

\* A claim belongs to its buyer and stays with it, and nothing is linked to it once
\* its payment is refunded or disputed; a mail has one sender, and concurrent
\* bindings agree (paid-acquisition.ts).
ClaimHolds ==
    /\ [](/\ part = "turning" => Turning!TypeOK
          /\ part = "binding" => Binding!TypeOK /\ Binding!BindingsConverge
          /\ part = "mailing" => Mailing!TypeOK /\ Mailing!OneSender
          /\ part \in {"turning", "binding"} => Turning!ClaimIsTheBuyers
          /\ part = "binding" => Binding!RowsAgree
          /\ part \in {"turning", "mailing"} => Turning!RowsAgree)
    /\ Turning!ClaimIsKept /\ Turning!LostGainsNothing
\* A Session that can be paid is the activation's own, its visitor is sent to
\* an open one, and an owner of a licence to none (account.ts, Checkout).
CheckoutHolds ==
    /\ [](part = "checkout" => CO!TypeOK /\ CO!RowsHaveSessions /\ CO!PayableIsAttached)
    /\ CO!OwnersAreNotCharged /\ CO!HandedIsOpen
\* Once every event is handled the licence says what Stripe says, and an end stays
\* an end, unless an event of its own second outranks it; a denied licence has no
\* credential (account.ts, subscriptions).
SubscriptionHolds ==
    /\ [](/\ part \in {"upgrade", "legacy"} => Upgrade!TypeOK
          /\ part = "failing" => Failing!TypeOK
          /\ part = "leaving" => Leaving!TypeOK
          /\ part = "renewing" => Renewing!TypeOK
          /\ part \in {"upgrade", "failing"} => Upgrade!SettledAgrees
          /\ part \in {"leaving", "renewing"} => Leaving!SettledAgrees
          /\ part \in upgradeParts \cup {"legacy"} => Upgrade!DeniedHasNoCredential)
    /\ Upgrade!EndIsFinal
\* A Price is sold on the approved terms, and no undisturbed search for one fails
\* or finds another than its like (account.ts, the Price resolvers); an account's
\* assignment is permanent, is made with its treatment, and is decided under its
\* lock alone (createCheckoutIntent, upgrade-pricing-experiment.ts).
OffersHold ==
    /\ part = "catalog" =>
        Catalog!TypeOK /\ Catalog!SoldAsApproved /\ Catalog!FailsForReason /\ Catalog!SameForAll
    /\ part = "pricing" =>
        /\ Pricing!TypeOK /\ Pricing!SnapshotsRead /\ Pricing!AssignmentIsPermanent
        /\ Pricing!BalanceIsClean /\ Pricing!OneAtATime /\ Pricing!StrayLocks
\* A session is the signer's; a purchase and a sign-in with one email meet in one
\* account unless an email was changed, and no sign-in fails for another reason;
\* a sign-in is credited to its own start, and a logout ends its session
\* (account.ts, upsertGoogleAccount, findOrCreateAccountForStripeCustomer).
SignInHolds ==
    /\ part = "tabs" => Tabs!TypeOK /\ Tabs!SignInCorrect
    /\ part = "signers" => Signers!TypeOK /\ Signers!SignInCorrect
    /\ part = "buyers" => Buyers!TypeOK /\ Buyers!SignInCorrect

Symmetry == Permutations(Workers) \cup Permutations({n1, n2})
=============================================================================

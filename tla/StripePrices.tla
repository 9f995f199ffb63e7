---------------------------- MODULE StripePrices ----------------------------
(***************************************************************************)
(* How a Checkout finds the Stripe Price it sells (api/_lib/account.ts:      *)
(* getSidestreamProPriceId and the recurring resolvers; checkout-offers.ts;  *)
(* scripts/provision-upgrade-plan-prices.mjs).                               *)
(*                                                                           *)
(* A request climbs down a ladder of places, one call to Stripe a rung: the  *)
(* configured Prices, the product, the lookup key, any Price of the product, *)
(* and at the end it creates the Price.  Other requests, the operator's      *)
(* script and the operator at Stripe's dashboard come between the rungs.     *)
(* Whatever was found is retrieved once more before it is sold.              *)
(***************************************************************************)
EXTENDS Naturals, Sequences, FiniteSets

CONSTANTS
    Requests,      \* checkout requests that need an offer
    Plans,         \* what they may ask for
    Catalogues,    \* the Prices that Stripe may hold at first
    MaxPrices,     \* bound: Prices at Stripe
    MaxMishaps     \* bound: dashboard edits and failed calls

VARIABLES
    prices,        \* the Prices at Stripe by id: terms, lookup key, active
    product,       \* whether the product is active, and its default Price
    config,        \* the deployment's Price ids, and whether its key is live
    answered,      \* Price that Stripe answers again under an idempotency key
    request,       \* plan, rung, Price found, and whether it was disturbed
    script,        \* the provisioning run: what it is to create
    mishaps

vars == <<prices, product, config, answered, request, script, mishaps>>

Recurring == {"monthly", "annual"}
Provisioned == <<"monthly", "one_time">>
Creatable == Recurring \cup {"one_time"}
Ids == 0..MaxPrices   \* 0 is no Price; a configured id may name one Stripe lacks
Writers == {"site", "script"}

PriceRows == [terms: Plans \cup {"other"}, key: Creatable \cup {"none"}, active: BOOLEAN]
Rungs == {"idle", "configured", "default", "legacy", "product", "lookup", "any",
          "create", "converge", "verify", "sold", "error"}
RequestRows == [plan: Plans, at: Rungs, found: Ids, disturbed: BOOLEAN]

\* A lookup key is one Price's from the start.
PricesAssumption ==
    /\ MaxPrices \in Nat /\ MaxMishaps \in Nat /\ Creatable \subseteq Plans
    /\ \A c \in Catalogues :
        /\ c.prices \in Seq(PriceRows) /\ Len(c.prices) <= MaxPrices
        /\ c.default \in Ids /\ c.config.regional \in Ids
        /\ \A p, q \in DOMAIN c.prices : c.prices[p].key = c.prices[q].key => p = q \/ c.prices[p].key = "none"

TypeOK ==
    /\ prices \in Seq(PriceRows) /\ Len(prices) <= MaxPrices
    /\ product \in [active: BOOLEAN, default: Ids] /\ config.regional \in Ids
    /\ answered \in [Writers \X Creatable -> 0..Len(prices)]
    /\ request \in [Requests -> RequestRows]
    /\ script \in [at: {"idle", "create", "over"}, missing: SUBSET {"monthly", "one_time"}]
    /\ mishaps \in 0..MaxMishaps

Init ==
    /\ \E c \in Catalogues :
        /\ prices = c.prices /\ config = c.config
        /\ product = [active |-> TRUE, default |-> c.default]
    /\ answered = [k \in Writers \X Creatable |-> 0]
    /\ request \in [Requests -> {[plan |-> p, at |-> "idle", found |-> 0, disturbed |-> FALSE] : p \in Plans}]
    /\ script = [at |-> "idle", missing |-> {}]
    /\ mishaps = 0

-----------------------------------------------------------------------------
(* What Stripe answers. *)

Known(p) == p \in DOMAIN prices
Holders(plan) == {p \in DOMAIN prices : prices[p].key = plan}
ActiveHolders(plan) == {p \in Holders(plan) : prices[p].active}

\* A lookup key belongs to one Price, an archived one too.
KeyTaken(plan) == Holders(plan) # {}

\* A Price of the approved terms; a recurring one has its lookup key as well.
IsSidestreamProPrice(p) == prices[p].active /\ prices[p].terms = "one_time"
IsUpgradePrice(p, plan) == prices[p].active /\ prices[p].terms = plan /\ prices[p].key = plan
Shaped(p, plan) ==
    IF plan \in Recurring THEN IsUpgradePrice(p, plan) ELSE IsSidestreamProPrice(p)

\* A recurring offer is found with one variable, the product and its key; the
\* one-time offer has the longer ladder.
Ladder(plan) ==
    IF plan \in Recurring
    THEN <<"configured", "product", "lookup", "create">>
    ELSE <<"configured", "default", "legacy", "product", "lookup", "any", "create">>
Below(r) ==
    LET l == Ladder(request[r].plan) IN
    l[1 + CHOOSE i \in DOMAIN l : l[i] = request[r].at]

At(r, rung) == request' = [request EXCEPT ![r].at = rung]
Found(r, p) == request' = [request EXCEPT ![r].at = "verify", ![r].found = p]
Read == UNCHANGED <<prices, product, config, answered, script, mishaps>>

\* Mutant: what was found is sold without another look.
SellableAsFound(plan, p) == Known(p)

\* The Price is retrieved and, for a recurring offer, the product with it: it
\* is sold on the approved terms or not at all.
Sellable(plan, p) ==
    /\ Known(p) /\ prices[p].active /\ prices[p].terms = plan
    /\ plan \in Recurring => prices[p].key = plan /\ product.active

\* What stands against an offer before anyone asks for it.
Obstructed(plan) ==
    \/ ~product.active
    \/ plan \in Creatable /\ \E p \in Holders(plan) : ~Shaped(p, plan)
    \/ plan \in Creatable /\ answered[<<"site", plan>>] # 0 /\ ~Shaped(answered[<<"site", plan>>], plan)
    \/ plan = "one_time" /\ config.live /\ ~Known(config.default)
    \/ plan \notin Creatable /\ ~Sellable(plan, config.regional)

\* Somebody else changed what Stripe holds while a request was about.
DisturbedBy(rs) == [r \in Requests |->
    IF r \in rs /\ request[r].at # "idle" THEN [request[r] EXCEPT !.disturbed = TRUE] ELSE request[r]]
-----------------------------------------------------------------------------
(* The requests. *)

\* A region with a configured Price is offered that one and no other; without
\* one it gets the global offer.
Selected(plan) == IF plan = "regional" /\ config.regional = 0 THEN "one_time" ELSE plan
Start(r) ==
    /\ request[r].at = "idle"
    /\ LET plan == Selected(request[r].plan) IN
       request' = [request EXCEPT
        ![r].plan = plan,
        ![r].at = IF plan \in Creatable THEN "configured" ELSE "verify",
        ![r].found = IF plan \in Creatable THEN 0 ELSE config.regional,
        ![r].disturbed = Obstructed(plan)]
    /\ Read

\* The ids of the environment and the source.
ConfiguredId(plan, rung) == IF plan \in Recurring THEN config[plan] ELSE config[rung]

\* One of the right shape is taken, another is passed over, except that in live
\* mode the built-in one must exist.
RetrieveConfigured(r) ==
    LET rung == request[r].at  plan == request[r].plan  id == ConfiguredId(plan, rung) IN
    /\ rung \in {"configured", "default", "legacy"}
    /\ IF Known(id) /\ Shaped(id, plan) THEN Found(r, id)
       ELSE At(r, IF rung = "default" /\ config.live /\ ~Known(id) THEN "error" ELSE Below(r))
    /\ Read

\* The product must be active; for the one-time offer its default Price may do.
RetrieveProduct(r) ==
    /\ request[r].at = "product"
    /\ IF ~product.active THEN At(r, "error")
       ELSE IF /\ request[r].plan = "one_time" /\ Known(product.default)
               /\ IsSidestreamProPrice(product.default)
            THEN Found(r, product.default) ELSE At(r, "lookup")
    /\ Read

\* The active Price under the lookup key; one of other terms is a conflict.
LookUp(r, otherwise) ==
    LET plan == request[r].plan
        matches == {p \in ActiveHolders(plan) : Shaped(p, plan)} IN
    /\ IF matches # {} THEN \E p \in matches : Found(r, p)
       ELSE At(r, IF ActiveHolders(plan) # {} THEN "error" ELSE otherwise)
    /\ Read
FindLookup(r) == request[r].at = "lookup" /\ LookUp(r, Below(r))

\* Any active Price of the product with the one-time terms, the newest first.
FindAny(r) ==
    LET fitting == {p \in DOMAIN prices : IsSidestreamProPrice(p)} IN
    /\ request[r].at = "any"
    /\ IF fitting = {} THEN At(r, "create")
       ELSE Found(r, CHOOSE p \in fitting : \A q \in fitting : q <= p)
    /\ Read

\* Mutant: Prices are created without their lookup key.
MadeUnkeyed(writer, plan) ==
    /\ Len(prices) < MaxPrices
    /\ prices' = Append(prices, [terms |-> plan, key |-> "none", active |-> TRUE])
    /\ answered' = [answered EXCEPT ![<<writer, plan>>] = Len(prices) + 1]

\* A creation that Stripe carries out, and remembers.
Made(writer, plan) ==
    /\ ~KeyTaken(plan) /\ Len(prices) < MaxPrices
    /\ prices' = Append(prices, [terms |-> plan, key |-> plan, active |-> TRUE])
    /\ answered' = [answered EXCEPT ![<<writer, plan>>] = Len(prices) + 1]

\* Mutant: a refused creation is the request's failure.
CreateGivingUp(r) ==
    LET plan == request[r].plan IN
    /\ request[r].at = "create"
    /\ \/ KeyTaken(plan) /\ At(r, "error") /\ UNCHANGED <<prices, answered>>
       \/ Made("site", plan) /\ Found(r, Len(prices) + 1)
    /\ UNCHANGED <<product, config, script, mishaps>>

\* The request's two keys at Stripe: the idempotency key replays the first
\* answer, whatever became of the Price since; a taken lookup key is refused.
Create(r) ==
    LET plan == request[r].plan  before == answered[<<"site", plan>>] IN
    /\ request[r].at = "create"
    /\ \/ before # 0 /\ Found(r, before) /\ UNCHANGED <<prices, answered>>
       \/ before = 0 /\ KeyTaken(plan) /\ At(r, "converge") /\ UNCHANGED <<prices, answered>>
       \/ before = 0 /\ Made("site", plan) /\ Found(r, Len(prices) + 1)
    /\ UNCHANGED <<product, config, script, mishaps>>

\* Refused, the request takes the Price of whoever was first.
Converge(r) == request[r].at = "converge" /\ LookUp(r, "error")

Verify(r) ==
    /\ request[r].at = "verify"
    /\ At(r, IF Sellable(request[r].plan, request[r].found) THEN "sold" ELSE "error")
    /\ Read

\* A call fails: the request with it, except that a failed creation is looked
\* up, and may have reached Stripe all the same.
Fault(r) ==
    LET plan == request[r].plan IN
    /\ request[r].at \notin {"idle", "sold", "error"}
    /\ mishaps < MaxMishaps /\ mishaps' = mishaps + 1
    /\ request' = [request EXCEPT ![r].disturbed = TRUE,
                    ![r].at = IF request[r].at = "create" THEN "converge" ELSE "error"]
    /\ \/ UNCHANGED <<prices, answered>>
       \/ request[r].at = "create" /\ answered[<<"site", plan>>] = 0 /\ Made("site", plan)
    /\ UNCHANGED <<product, config, script>>

-----------------------------------------------------------------------------
(* The operator. *)

\* The script lists the Prices of both keys, inactive ones too.  One that is
\* not what the contract says blocks the run before anything is created.
Provision ==
    /\ script.at = "idle"
    /\ LET blocked == \/ ~product.active
                      \/ \E i \in DOMAIN Provisioned :
                            \E p \in Holders(Provisioned[i]) : ~IsUpgradePrice(p, Provisioned[i])
       IN script' = IF blocked THEN [script EXCEPT !.at = "over"]
                    ELSE [at |-> "create", missing |->
                            {Provisioned[i] : i \in DOMAIN Provisioned} \ {prices[p].key : p \in DOMAIN prices}]
    /\ UNCHANGED <<prices, product, config, answered, request, mishaps>>

\* One missing Price, in the order of the contract; a failure ends the run.
NextMissing ==
    Provisioned[CHOOSE i \in DOMAIN Provisioned :
        /\ Provisioned[i] \in script.missing
        /\ \A j \in 1..(i - 1) : Provisioned[j] \notin script.missing]
ProvisionOne ==
    /\ script.at = "create"
    /\ \/ /\ \/ script.missing = {} /\ UNCHANGED mishaps
             \/ script.missing # {} /\ KeyTaken(NextMissing) /\ UNCHANGED mishaps
             \/ script.missing # {} /\ mishaps < MaxMishaps /\ mishaps' = mishaps + 1
          /\ script' = [script EXCEPT !.at = "over"]
          /\ UNCHANGED <<prices, answered, request>>
       \/ /\ script.missing # {} /\ Made("script", NextMissing)
          /\ script' = [script EXCEPT !.missing = @ \ {NextMissing}]
          /\ request' = DisturbedBy({r \in Requests : request[r].at \in {"sold", "verify"}})
          /\ UNCHANGED mishaps
    /\ UNCHANGED <<product, config>>

\* The dashboard: a Price archived or restored, its key taken away, the product
\* retired; and a day passes, after which Stripe forgets its answers.
Edit ==
    /\ mishaps < MaxMishaps /\ mishaps' = mishaps + 1
    /\ request' = DisturbedBy(Requests)
    /\ \/ /\ \E p \in DOMAIN prices :
              \/ prices' = [prices EXCEPT ![p].active = ~@]
              \/ prices[p].key # "none" /\ prices' = [prices EXCEPT ![p].key = "none"]
          /\ UNCHANGED <<product, answered>>
       \/ product' = [product EXCEPT !.active = ~@] /\ UNCHANGED <<prices, answered>>
       \/ answered' = [k \in DOMAIN answered |-> 0] /\ answered # answered' /\ UNCHANGED <<prices, product>>
    /\ UNCHANGED <<config, script>>

\* The ladders: of the one-time offer, and of the two recurring ones.
ProPrice(r) ==
    /\ request[r].plan = "one_time"
    /\ RetrieveConfigured(r) \/ RetrieveProduct(r) \/ FindLookup(r) \/ FindAny(r) \/ Create(r) \/ Converge(r)
MonthlyPrice(r) ==
    /\ request[r].plan = "monthly"
    /\ RetrieveConfigured(r) \/ RetrieveProduct(r) \/ FindLookup(r) \/ Create(r) \/ Converge(r)
AnnualPrice(r) ==
    /\ request[r].plan = "annual"
    /\ RetrieveConfigured(r) \/ RetrieveProduct(r) \/ FindLookup(r) \/ Create(r) \/ Converge(r)

Next ==
    \/ \E r \in Requests :
        Start(r) \/ ProPrice(r) \/ MonthlyPrice(r) \/ AnnualPrice(r) \/ Verify(r) \/ Fault(r)
    \/ Provision \/ ProvisionOne \/ Edit

Spec == Init /\ [][Next]_vars
-----------------------------------------------------------------------------
\* Nothing is sold but a Price of the terms asked for, and one that was active
\* unless Stripe was edited since: however stale the rung it was found on.
SoldAsApproved ==
    \A r \in Requests : request[r].at = "sold" =>
        LET p == request[r].found IN
        /\ prices[p].terms = request[r].plan
        /\ ~request[r].disturbed => prices[p].active

\* A request that nobody disturbed and nothing obstructed gets its offer: two
\* that create the same Price never both fail.
FailsForReason == \A r \in Requests : request[r].at = "error" => request[r].disturbed

\* Requests for one plan sell one Price, whoever created it, unless one of them
\* was disturbed: what that one creates, another may find.
SameForAll ==
    \A r, s \in Requests :
        /\ request[r].at = "sold" /\ request[s].at = "sold" /\ request[r].plan = request[s].plan
        /\ \A t \in Requests :
             request[t].at # "idle" /\ request[t].plan = request[r].plan => ~request[t].disturbed
        => request[r].found = request[s].found
=============================================================================

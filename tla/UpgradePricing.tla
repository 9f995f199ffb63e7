--------------------------- MODULE UpgradePricing ---------------------------
(***************************************************************************)
(* The offer of a new Checkout intent (api/_lib/account.ts:                  *)
(* createCheckoutIntent, resolveUpgradePricingCheckout;                      *)
(* api/_lib/upgrade-pricing-experiment.ts; config/upgrade-pricing-           *)
(* experiment.mjs).                                                          *)
(*                                                                           *)
(* A request takes a connection of the pool, opens a transaction on it and   *)
(* locks its account in it; decides on an offer from the account's           *)
(* assignment and the experiment's configuration; proves its Stripe Price;   *)
(* writes the assignment and the intent with its snapshot, and commits.      *)
(* Deployments overlap, so each request meets one of their configurations.   *)
(***************************************************************************)
EXTENDS Naturals, FiniteSets

CONSTANTS
    Requests, Connections, Accounts,
    Bucket,       \* bucket of each account (an HMAC of its id)
    Rollouts,     \* configurations of the experiment that are deployed
    Historical,   \* accounts with an assignment of the first experiment
    None

VARIABLES
    conn,         \* pooled connections: user, open transaction, locks
    row,          \* committed assignment of the current experiment by account
    request,      \* input, progress, decision and Price of each request
    expired,      \* whether the panel's activation has expired or been claimed
    licensed      \* accounts that hold a paid licence

vars == <<conn, row, request, expired, licensed>>

Variants == {"control_one_time", "monthly_half", "annual_same_price"}
Reasons == {"existing_assignment", "rollout_control", "rollout_annual", "rollout_zero",
            "kill_switch", "assignment_unavailable", "customer_choice"}
Choices == {"pro_monthly", "unlimited_one_time"}
Inputs == [account: Accounts, plan: Choices \cup {None}, region: {"global", "regional"}, panel: BOOLEAN]
Experiments == {"v1", "v2", "selected"}

\* A decision: the experiment, the arm, why, and the assignment it rests on.
Decisions == [experiment: Experiments, variant: Variants \cup Choices, reason: Reasons,
              assigned: BOOLEAN, persists: BOOLEAN]
Rows == [variant: Variants, bucket: Nat]
NoDecision == [experiment |-> "v2", variant |-> "control_one_time", reason |-> "kill_switch",
               assigned |-> FALSE, persists |-> FALSE]

ConnectionRows == [by: Requests \cup {None}, open: BOOLEAN, locks: SUBSET Accounts]
RequestRows ==
    [input: Inputs \cup {None},
     at: {"idle", "begun", "locked", "decided", "proved", "committed", "null", "error"},
     decision: Decisions, offer: {"one_time", "monthly", "annual"}]

\* A deployment's rollout; a closed experiment assigns nobody any more.
Configurations == [enabled: BOOLEAN, secret: BOOLEAN, closed: BOOLEAN, threshold: Nat]
PricingAssumption ==
    /\ Bucket \in [Accounts -> Nat] /\ Rollouts \subseteq Configurations
    /\ None \notin Requests /\ None \notin Rows

TypeOK ==
    /\ conn \in [Connections -> ConnectionRows] /\ row \in [Accounts -> Rows \cup {None}]
    /\ request \in [Requests -> RequestRows]
    /\ expired \in BOOLEAN /\ licensed \subseteq Accounts

Init ==
    /\ conn = [c \in Connections |-> [by |-> None, open |-> FALSE, locks |-> {}]]
    /\ row = [a \in Accounts |-> None]
    /\ request = [r \in Requests |-> [input |-> None, at |-> "idle", decision |-> NoDecision, offer |-> "one_time"]]
    /\ expired = FALSE /\ licensed = {}

-----------------------------------------------------------------------------
(* The decision. *)

Subscribes(variant) == variant \in {"monthly_half", "annual_same_price", "pro_monthly"}
Fallback(experiment, reason) ==
    [experiment |-> experiment, variant |-> "control_one_time", reason |-> reason,
     assigned |-> FALSE, persists |-> FALSE]
Assigned(experiment, variant) ==
    [experiment |-> experiment, variant |-> variant, reason |-> "existing_assignment",
     assigned |-> TRUE, persists |-> FALSE]
New(variant, reason) ==
    [experiment |-> "v2", variant |-> variant, reason |-> reason, assigned |-> FALSE, persists |-> TRUE]

Treated(a, cfg) == Bucket[a] < cfg.threshold

\* An account without a row: by its bucket, and annual only where the offer
\* has annual terms.
DecideNew(a, region, cfg) ==
    IF ~cfg.enabled THEN Fallback("v2", "kill_switch")
    ELSE IF ~cfg.secret THEN Fallback("v2", "assignment_unavailable")
    ELSE IF ~Treated(a, cfg)
    THEN New("control_one_time", IF cfg.threshold = 0 THEN "rollout_zero" ELSE "rollout_control")
    ELSE IF region = "global" THEN New("annual_same_price", "rollout_annual")
    ELSE Fallback("v2", "assignment_unavailable")

\* Mutant: an account's row is not looked for.
DecideAnew(a, region, cfg) ==
    IF cfg.closed THEN Fallback("v2", "kill_switch") ELSE DecideNew(a, region, cfg)

\* A row of the first experiment goes before one of the second; a closed
\* experiment looks at neither.
Decide(a, region, cfg) ==
    IF cfg.closed THEN Fallback("v2", "kill_switch")
    ELSE IF a \in Historical THEN Assigned("v1", "monthly_half")
    ELSE IF row[a] # None THEN Assigned("v2", row[a].variant)
    ELSE DecideNew(a, region, cfg)

Chosen(plan) ==
    [experiment |-> "selected", variant |-> plan, reason |-> "customer_choice",
     assigned |-> FALSE, persists |-> FALSE]

OfferOf(variant) ==
    CASE variant = "annual_same_price" -> "annual"
      [] variant \in {"monthly_half", "pro_monthly"} -> "monthly"
      [] OTHER -> "one_time"

-----------------------------------------------------------------------------
(* The transaction. *)

Of(r) == request[r].input.account
Using(r, c) == conn[c].by = r
Goto(r, at) == request' = [request EXCEPT ![r].at = at]

\* commit and rollback both end the transaction that is open, whoever opened
\* it, and give the connection back.
Idle == [by |-> None, open |-> FALSE, locks |-> {}]
Ends(c) == conn' = [conn EXCEPT ![c] = Idle]

\* begin: on a connection that was given back inside a transaction it opens
\* none, and the locks of that one stay.
Begin(r, c, input) ==
    /\ request[r].at = "idle" /\ conn[c].by = None
    /\ input.account \notin licensed
    /\ conn' = [conn EXCEPT ![c].by = r, ![c].open = TRUE]
    /\ request' = [request EXCEPT ![r].input = input, ![r].at = "begun"]
    /\ UNCHANGED <<row, expired, licensed>>

\* Mutant: the account is not locked.
UnlockedFor(c, a) == c \in Connections /\ a \in Accounts

LockFree(c, a) == \A d \in Connections \ {c} : a \notin conn[d].locks

\* lockPaidEligibility, and the licence again behind it.  An activation that is
\* no longer pending returns at once: neither commit nor rollback is called.
Lock(r, c) ==
    /\ Using(r, c) /\ request[r].at = "begun" /\ LockFree(c, Of(r))
    /\ \/ Of(r) \in licensed /\ Goto(r, "null") /\ Ends(c)
       \/ /\ Of(r) \notin licensed /\ request[r].input.panel /\ expired
          /\ Goto(r, "null")
          /\ conn' = [conn EXCEPT ![c].by = None, ![c].locks = @ \cup {Of(r)}]
       \/ /\ Of(r) \notin licensed /\ ~(request[r].input.panel /\ expired)
          /\ Goto(r, "locked")
          /\ conn' = [conn EXCEPT ![c].locks = @ \cup {Of(r)}]
    /\ UNCHANGED <<row, expired, licensed>>

\* A plan chosen by name is not a decision of the experiment.
Resolve(r, cfg) ==
    LET input == request[r].input IN
    /\ request[r].at = "locked"
    /\ request' = [request EXCEPT ![r].at = "decided",
            ![r].decision = IF input.plan # None THEN Chosen(input.plan)
                            ELSE Decide(input.account, input.region, cfg)]
    /\ UNCHANGED <<conn, row, expired, licensed>>

\* Mutant: the assignment is made before its Price is proved.
ProveAfterwards(r, c, found) ==
    LET d == request[r].decision IN
    /\ Using(r, c) /\ request[r].at = "decided"
    /\ request' = [request EXCEPT ![r].at = "proved", ![r].offer = IF found THEN OfferOf(d.variant) ELSE "one_time"]
    /\ UNCHANGED <<conn, row, expired, licensed>>

\* The Price of a recurring offer is found at Stripe or it is not.  A customer's
\* choice then fails; a decision falls back to the one-time offer, and the
\* assignment it would have made is not made.
Prove(r, c, found) ==
    LET d == request[r].decision IN
    /\ Using(r, c) /\ request[r].at = "decided"
    /\ IF found \/ ~Subscribes(d.variant)
       THEN /\ request' = [request EXCEPT ![r].at = "proved", ![r].offer = OfferOf(d.variant)]
            /\ UNCHANGED conn
       ELSE IF d.experiment = "selected" THEN Goto(r, "error") /\ Ends(c)
       ELSE /\ request' = [request EXCEPT ![r].at = "proved",
                            ![r].decision = Fallback(d.experiment, "assignment_unavailable")]
            /\ UNCHANGED conn
    /\ UNCHANGED <<row, expired, licensed>>

\* persistUpgradePricingAssignment
Persisted(a, d) == [row EXCEPT ![a] = [variant |-> d.variant, bucket |-> Bucket[a]]]

\* The assignment and the intent's row.  The intent of a panel
\* is inserted only while its activation is pending; otherwise all is undone.
Commit(r, c) ==
    LET d == request[r].decision  a == Of(r) IN
    /\ Using(r, c) /\ request[r].at = "proved" /\ Ends(c)
    /\ IF request[r].input.panel /\ expired THEN Goto(r, "null") /\ UNCHANGED row
       ELSE /\ request' = [request EXCEPT ![r].at = "committed",
                            ![r].decision = IF d.persists THEN [d EXCEPT !.assigned = TRUE, !.persists = FALSE] ELSE d]
            /\ row' = IF d.persists THEN Persisted(a, d) ELSE row
    /\ UNCHANGED <<expired, licensed>>

\* A statement fails or waits too long: rollback.  Or the process dies.
Fail(r, c) ==
    /\ Using(r, c) /\ request[r].at \in {"begun", "locked", "decided", "proved"}
    /\ Goto(r, "error") /\ Ends(c)
    /\ UNCHANGED <<row, expired, licensed>>

\* Elsewhere: the activation expires, a payment grants a licence under the
\* same lock.
Expire == ~expired /\ expired' = TRUE /\ UNCHANGED <<conn, row, request, licensed>>
Grant(a) ==
    /\ a \notin licensed /\ \A c \in Connections : a \notin conn[c].locks
    /\ licensed' = licensed \cup {a} /\ UNCHANGED <<conn, row, request, expired>>

Next ==
    \/ \E r \in Requests, c \in Connections :
        \/ \E input \in Inputs : Begin(r, c, input)
        \/ Lock(r, c) \/ Commit(r, c) \/ Fail(r, c)
        \/ \E found \in BOOLEAN : Prove(r, c, found)
    \/ \E r \in Requests, cfg \in Rollouts : Resolve(r, cfg)
    \/ Expire \/ \E a \in Accounts : Grant(a)

Spec == Init /\ [][Next]_vars
-----------------------------------------------------------------------------
(* What an intent says of its offer. *)

\* readUpgradePricingIntentSnapshot: what createOrReuseCheckoutSession accepts.
Readable(s) ==
    /\ IF s.experiment = "selected"
       THEN s.reason = "customer_choice" /\ s.variant \in Choices /\ ~s.assigned
       ELSE /\ s.reason # "customer_choice"
            /\ s.variant \in {"control_one_time", IF s.experiment = "v1" THEN "monthly_half" ELSE "annual_same_price"}

\* Every committed intent can be read back, and is sold as its arm is billed.
SnapshotsRead ==
    \A r \in Requests : request[r].at = "committed" =>
        Readable(request[r].decision) /\ request[r].offer = OfferOf(request[r].decision.variant)

\* An assignment is permanent across requests, regions and configurations: all
\* the intents of an account that rest on one show the same arm, the row's.
AssignmentIsPermanent ==
    \A r \in Requests : LET d == request[r].decision IN
        request[r].at = "committed" /\ d.assigned =>
            IF Of(r) \in Historical THEN d.experiment = "v1" /\ d.variant = "monthly_half"
            ELSE row[Of(r)] # None /\ row[Of(r)].variant = d.variant

\* A treated account was offered the treatment: a row of the annual arm has an
\* intent on the annual Price, and an intent without its Price leaves no row.
BalanceIsClean ==
    \A a \in Accounts : row[a] # None /\ row[a].variant = "annual_same_price" =>
        \E r \in Requests : request[r].at = "committed" /\ Of(r) = a /\ request[r].offer = "annual"

\* Between its lock and its commit a request is alone with its account, though
\* connections come back with a transaction open, and no licence is granted.
OneAtATime ==
    \A r \in Requests : request[r].at \in {"locked", "decided", "proved"} =>
        /\ Of(r) \notin licensed
        /\ \A s \in Requests \ {r} :
            request[s].at \in {"locked", "decided", "proved"} => Of(s) # Of(r)

\* A lock outlives its request only behind a panel whose activation had expired.
StrayLocks ==
    \A c \in Connections, a \in Accounts :
        a \in conn[c].locks /\ (conn[c].by = None \/ Of(conn[c].by) # a) =>
            \E r \in Requests : /\ request[r].at = "null" /\ expired
                                /\ request[r].input.panel /\ Of(r) = a
=============================================================================

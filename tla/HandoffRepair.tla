--------------------------- MODULE HandoffRepair ---------------------------
(***************************************************************************)
(* The operator's repair of one paid journey whose install, activation and  *)
(* account ended on two customer profiles                                   *)
(* (api/_lib/paid-telemetry-handoff-repair.ts, run by                       *)
(* scripts/reconcile-paid-telemetry-handoff.mjs; the binding table of       *)
(* db/migrations/20260810120000_bind_paid_telemetry_profile.sql).           *)
(*                                                                          *)
(* A dry run reads the journey and prints its fingerprint.  An apply,       *)
(* minutes later and under locks, finds the journey again, compares the     *)
(* fingerprint with the confirmed one, and moves everything in one          *)
(* serializable transaction or nothing.  Between the two, the rest of the   *)
(* site goes on: refunds, quarantine, merges, the customer's own claim.     *)
(*                                                                          *)
(* One acquisition with one purchase, account, install and receipt is       *)
(* modelled; its email, amount, product and plan agree, and a second        *)
(* activation may stand beside the first.  The fingerprint of the target    *)
(* database and the confirmations of the command line are left out.         *)
(***************************************************************************)
EXTENDS Naturals, FiniteSets

CONSTANTS
    Operators,
    Activations,
    Happenings,  \* bound: what else may happen
    None

First == CHOOSE a \in Activations : TRUE

\* Profiles are numbers, in the order of their creation.
Profiles == 1..3
Links == Activations \cup {"install", "receipt", "account", "other account", "customer"}
Stages == {"authentication_completed", "installation_claimed", "refunded"}
Claimed == {"authentication_completed", "installation_claimed"}
Kinds == {"install_bridge", "account_bridge"}

VARIABLES
    review,     \* the pending review that splits the journey
    link,       \* the profile of each identity link, 0 for none
    merged,     \* the profile each one was merged into, 0 for a live one
    root,       \* the acquisition
    purchase,   \* the checkout and claim rows, the entitlement, the Customer
    fact,       \* the commerce fact of the payment
    binding,    \* the paid telemetry profile binding
    confirmed   \* the fingerprint each operator's dry run printed

vars == <<review, link, merged, root, purchase, fact, binding, confirmed>>

TypeOK ==
    /\ review \in [kind : Kinds, candidate : Profiles, existing : Profiles]
    /\ link \in [Links -> 0..3] /\ merged \in [Profiles -> 0..3]
    /\ root.stages \subseteq Stages
    /\ purchase.payment \in {"active", "refunded"}
    /\ {purchase.paidClaim, purchase.claim} \subseteq {"unclaimed", "claimed", "refunded"}
    /\ purchase.activation \in Activations \cup {None}
    /\ fact.owner \in 0..3 /\ fact.net \in {0, 1}
    /\ binding = None \/ binding.activation \in Activations
    /\ DOMAIN confirmed = Operators

\* The shapes the tool was written for.  The install of the activation's receipt
\* is on another profile, or the account is.  Either one may be the older, the
\* claim may have lost its activation, the fact its owner, and a repair by an
\* older release may have left out the Stripe Customer.
Split(kind, c, e) ==
    [l \in Links |->
       CASE l = "customer" -> 0
         [] l = "other account" -> 0
         [] l = "install" -> IF kind = "install_bridge" THEN e ELSE c
         [] l = "account" -> IF kind = "install_bridge" THEN c ELSE e
         [] l \in Activations /\ l # First -> 0
         [] OTHER -> c]

NewPurchase == [payment |-> "active", paidClaim |-> "unclaimed", claim |-> "unclaimed",
                activation |-> None, current |-> TRUE, entitled |-> TRUE,
                sameCustomer |-> TRUE, customerReview |-> FALSE]
NewRoot == [intact |-> TRUE, conflict |-> FALSE, stages |-> {}, foreign |-> FALSE]

SplitJourney ==
    /\ link = Split(review.kind, review.candidate, review.existing)
    /\ merged = [p \in Profiles |-> 0]
    /\ root = NewRoot
    /\ \E a \in {None, First} : purchase = [NewPurchase EXCEPT !.activation = a]
    /\ \E n \in {0, 1} :
         fact = [owner |-> IF n = 0 THEN 0 ELSE link["account"], net |-> n, disturbed |-> FALSE]
    /\ binding = None
EarlierRepair ==
    LET old == 1  young == 2 IN
    /\ link = [l \in Links |-> IF Split("install_bridge", 1, 1)[l] = 0 THEN 0 ELSE old]
    /\ merged = [p \in Profiles |-> IF p = young THEN old ELSE 0]
    /\ root = [NewRoot EXCEPT !.stages = Claimed]
    /\ purchase = [NewPurchase EXCEPT !.activation = First, !.paidClaim = "claimed",
                                      !.claim = "claimed"]
    /\ fact = [owner |-> old, net |-> 1, disturbed |-> FALSE]
    /\ binding = [activation |-> First, profile |-> old]
Init ==
    /\ review \in {r \in [kind : Kinds, candidate : {1, 2}, existing : {1, 2}] :
                     r.candidate # r.existing}
    /\ SplitJourney \/ EarlierRepair
    /\ confirmed = [o \in Operators |-> None]

-----------------------------------------------------------------------------
(* Discovery: what a dry run reads, and an apply reads again under locks *)

\* coalesce(merged_into, id): one tombstone, not a chain of them
RootOf(p) == IF merged[p] = 0 THEN p ELSE merged[p]
Candidate == RootOf(review.candidate)
Existing == RootOf(review.existing)
Converged == Candidate = Existing
AccountsOn(p) == {l \in {"account", "other account"} : link[l] = p}

\* reviewedPathBoundarySql and reviewedPathBoundaryAgrees: a reviewed account
\* selects the activation of the claim.  {} where no such row is found, or
\* else the activations and whether the row agrees.
BoundaryRow(a) ==
    /\ review.kind = "account_bridge" /\ purchase.activation = a
    /\ link[a] \in {review.candidate, Candidate}
    /\ binding = None \/ binding.activation = a
BoundaryAgrees(a) ==
    /\ link[a] = Candidate /\ link["account"] = Existing
    /\ IF Converged THEN binding # None
       ELSE /\ AccountsOn(Candidate) = {} /\ link["customer"] # Candidate
            /\ binding = None

\* paidPathSql: the claim's activation, or any that shares the account's profile;
\* its live profile has the receipt, and the account or a review of it.
PathActivations(reviewed) ==
    {a \in Activations :
       /\ \/ purchase.activation = a
          \/ purchase.activation = None /\ link[a] # 0 /\ link[a] = link["account"]
       /\ reviewed # None => a = reviewed
       /\ link[a] # 0 /\ merged[link[a]] = 0 /\ link["receipt"] = link[a]
       /\ binding = None \/ binding.activation = a
       /\ \/ link["account"] = link[a]
          \/ /\ review.kind = "account_bridge"
             /\ Candidate = link[a] /\ Existing = link["account"]}

\* paidPathAgrees
PathAgrees(a) ==
    /\ purchase.payment = "active"
    /\ purchase.paidClaim = purchase.claim /\ purchase.claim \in {"unclaimed", "claimed"}
    /\ purchase.sameCustomer /\ purchase.current /\ purchase.entitled
    /\ purchase.activation \in {None, a}

\* exactIdentitySql and exactIdentityAgrees.
IdentityRow(a) ==
    /\ link[a] = Candidate /\ link["receipt"] = Candidate
    /\ IF review.kind = "install_bridge"
       THEN link["install"] = Existing /\ link["account"] = Candidate
       ELSE /\ link["install"] = Candidate /\ link["account"] = Existing
            /\ Converged => binding # None /\ binding.activation = a
\* Mutant: a second account on the other profile is not looked for.
IdentityAgreesBlind(a) == IdentityRow(a)
IdentityAgrees(a) ==
    /\ IdentityRow(a)
    /\ Cardinality(AccountsOn(Candidate)) =
         IF Converged \/ review.kind = "install_bridge" THEN 1 ELSE 0
    /\ Cardinality(AccountsOn(Existing)) =
         IF Converged \/ review.kind = "account_bridge" THEN 1 ELSE 0

\* currentCustomerLinkStateSql and normalizeCurrentCustomerLinkState
LiveProfiles == {p \in {review.candidate, review.existing} : merged[p] = 0}
Oldest(ps) == CHOOSE p \in ps : \A q \in ps : p <= q
CustomerMissing == link["customer"] = 0
CustomerAttached ==
    Converged /\ LiveProfiles # {} /\ link["customer"] = Oldest(LiveProfiles)
CustomerState ==
    /\ Cardinality(LiveProfiles) = IF Converged THEN 1 ELSE 2
    /\ ~purchase.customerReview
    /\ CustomerMissing \/ CustomerAttached

\* commerceStateSql and normalizeCommerceState
Recoverable == fact.net = 0 /\ fact.owner = 0 /\ ~fact.disturbed
AttachedPositive ==
    fact.net > 0 /\ fact.owner \in {review.candidate, review.existing} /\ ~fact.disturbed

\* mutableCountsSql and bindingAgrees
BindingAgrees(a) == binding.activation = a /\ binding.profile = Candidate

\* Mutant: refunds are left to the state of the payment.
NeverStopped == FALSE
Stopped == "refunded" \in root.stages
Recorded == Claimed \subseteq root.stages

\* derivePaidTelemetryJourneyFingerprint: the ids of the rows of the journey.
Fingerprint(a) == [activation |-> a, review |-> review]

\* discoverExactJourney and reportForDiscovery: the reason and the fingerprint.
Refused(reason) == [reason |-> reason, journey |-> None]
Report ==
    LET rows == {a \in Activations : BoundaryRow(a)}
        reviewed == IF rows = {} THEN None ELSE CHOOSE a \in rows : TRUE
        paths == PathActivations(reviewed)
        a == CHOOSE x \in paths : TRUE
        base == Converged /\ Recorded /\ binding # None /\ AttachedPositive IN
    IF ~root.intact THEN Refused("acquisition_missing_or_ambiguous")
    ELSE IF (\E x \in rows : ~BoundaryAgrees(x)) \/ Cardinality(paths) # 1
         THEN Refused("paid_path_missing_or_ambiguous")
    ELSE IF ~PathAgrees(a) THEN Refused("payment_or_account_conflict")
    ELSE IF ~IdentityAgrees(a) THEN Refused("exact_identity_missing_or_ambiguous")
    ELSE IF ~CustomerState THEN Refused("current_customer_link_conflict")
    ELSE IF Stopped THEN Refused("lifecycle_stop_present")
    ELSE IF ~Recoverable /\ ~AttachedPositive THEN Refused("commerce_conflict")
    ELSE IF root.conflict \/ root.foreign THEN Refused("namespace_or_profile_conflict")
    ELSE IF binding # None /\ ~BindingAgrees(a) THEN Refused("binding_conflict")
    ELSE [reason |->
            CASE base /\ CustomerAttached -> "already_repaired"
              [] base /\ CustomerMissing /\ purchase.claim = "claimed" -> "repair_ready"
              [] ~Converged /\ binding = None -> "repair_ready"
              [] OTHER -> "namespace_or_profile_conflict",
          journey |-> Fingerprint(a)]

-----------------------------------------------------------------------------
(* The operator *)

\* inspectPaidTelemetryHandoffRepair, in a read-only transaction.
DryRun(o) ==
    /\ confirmed' = [confirmed EXCEPT ![o] = Report.journey]
    /\ UNCHANGED <<review, link, merged, root, purchase, fact, binding>>

\* Mutant: whatever journey is found now is repaired.
ConfirmsAny(o) == confirmed[o] # None
Confirms(o) == confirmed[o] # None /\ confirmed[o] = Report.journey

\* mergeExactProfiles: the older root keeps the links of both.
Survivor == Oldest({Candidate, Existing})
Tombstone == CHOOSE p \in {Candidate, Existing} : p # Survivor
\* Mutant: the links that the review is not about stay behind.
MergedLinksFew == [link EXCEPT !["install"] = Survivor, !["account"] = Survivor]
MergedLinks == [l \in Links |-> IF link[l] = Tombstone THEN Survivor ELSE link[l]]

\* repairExactRecoverableCommerce.  The merge itself reconciles the ownership
\* of facts.  Mutant: the verified amount is not written.
SettledFactUnpaid == [fact EXCEPT !.owner = Survivor]
SettledFact ==
    [fact EXCEPT !.owner = Survivor, !.net = 1]

\* applyPaidTelemetryHandoffRepair.  A converged journey lacks its Customer
\* alone; for another one all of the steps are taken.  requireConvergedRepair
\* finds the journey once more and rolls back unless it is repaired.
AttachCustomer ==
    /\ link' = [link EXCEPT !["customer"] = Oldest(LiveProfiles)]
    /\ UNCHANGED <<review, merged, root, purchase, fact, binding>>

RepairSplit(a) ==
    /\ merged' = [merged EXCEPT ![Tombstone] = Survivor]
    /\ link' = [MergedLinks EXCEPT !["customer"] = Survivor]
    /\ root' = [root EXCEPT !.stages = @ \cup Claimed]
    /\ purchase' = [purchase EXCEPT !.paidClaim = "claimed", !.claim = "claimed",
                                    !.activation = a]
    /\ fact' = SettledFact
    /\ binding' = [activation |-> a, profile |-> Survivor]
    /\ UNCHANGED review

Apply(o) ==
    /\ Confirms(o) /\ Report.reason = "repair_ready"
    /\ IF Converged THEN AttachCustomer ELSE RepairSplit(Report.journey.activation)
    /\ UNCHANGED confirmed

-----------------------------------------------------------------------------
(* The rest of the site *)

Elsewhere == UNCHANGED <<review, confirmed>>

\* A refund: the entitlement, the acquisition's stage, the rows of the purchase
\* and the commerce fact, in transactions of their own.
RefundEntitlement ==
    /\ purchase.entitled /\ purchase' = [purchase EXCEPT !.entitled = FALSE]
    /\ UNCHANGED <<link, merged, root, fact, binding>>
RefundStage ==
    /\ ~purchase.entitled /\ root' = [root EXCEPT !.stages = @ \cup {"refunded"}]
    /\ UNCHANGED <<link, merged, purchase, fact, binding>>
RefundRows ==
    /\ "refunded" \in root.stages
    /\ purchase' = [purchase EXCEPT !.payment = "refunded", !.paidClaim = "refunded",
                                    !.claim = "refunded"]
    /\ UNCHANGED <<link, merged, root, fact, binding>>
RefundFact ==
    /\ ~purchase.entitled /\ fact' = [fact EXCEPT !.disturbed = TRUE]
    /\ UNCHANGED <<link, merged, root, purchase, binding>>
\* A refund that failed at the bank restores the entitlement and the payment,
\* not the claim.
RefundFails ==
    /\ ~purchase.entitled
    /\ purchase' = [purchase EXCEPT !.entitled = TRUE, !.payment = "active"]
    /\ UNCHANGED <<link, merged, root, fact, binding>>

Quarantine ==
    /\ root.intact /\ root' = [root EXCEPT !.intact = FALSE, !.conflict = TRUE]
    /\ UNCHANGED <<link, merged, purchase, fact, binding>>
StageElsewhere ==
    /\ ~Recorded /\ root' = [root EXCEPT !.foreign = TRUE]
    /\ UNCHANGED <<link, merged, purchase, fact, binding>>
Expire ==
    /\ purchase.current /\ purchase' = [purchase EXCEPT !.current = FALSE]
    /\ UNCHANGED <<link, merged, root, fact, binding>>
\* The account gets another Customer in Stripe.
ReplaceCustomer ==
    /\ purchase.sameCustomer /\ purchase' = [purchase EXCEPT !.sameCustomer = FALSE]
    /\ UNCHANGED <<link, merged, root, fact, binding>>

\* customer-identity.ts: another account or a second activation comes to a
\* profile; the account's Customer is linked with it, or disputed.
SecondActivation(a) ==
    /\ link[a] = 0 /\ link' = [link EXCEPT ![a] = link["receipt"]]
    /\ UNCHANGED <<merged, root, purchase, fact, binding>>
OtherAccount(p) ==
    /\ link["other account"] = 0 /\ AccountsOn(p) = {} /\ merged[p] = 0
    /\ link' = [link EXCEPT !["other account"] = p]
    /\ UNCHANGED <<merged, root, purchase, fact, binding>>
LinkCustomer ==
    /\ link["customer"] = 0 /\ link' = [link EXCEPT !["customer"] = link["account"]]
    /\ UNCHANGED <<merged, root, purchase, fact, binding>>
DisputeCustomer ==
    /\ purchase' = [purchase EXCEPT !.customerReview = TRUE]
    /\ UNCHANGED <<link, merged, root, fact, binding>>
\* A profile merge, which two accounts cannot share.
MergeProfiles(p, q) ==
    /\ p < q /\ merged[p] = 0 /\ merged[q] = 0
    /\ Cardinality(AccountsOn(p) \cup AccountsOn(q)) <= 1
    /\ merged' = [merged EXCEPT ![q] = p]
    /\ link' = [l \in Links |-> IF link[l] = q THEN p ELSE link[l]]
    /\ fact' = [fact EXCEPT !.owner = IF @ = q THEN p ELSE @]
    /\ UNCHANGED <<root, purchase, binding>>
\* A newer snapshot of the Checkout, whose evidence names the account's profile.
FactArrives ==
    /\ fact.net = 0 /\ fact' = [fact EXCEPT !.net = 1, !.owner = link["account"]]
    /\ UNCHANGED <<link, merged, root, purchase, binding>>

\* paid-acquisition.ts: the claim of another activation, and the linkage that
\* a confirmed activation makes where nothing is split.
ClaimActivation(a) ==
    /\ purchase.activation = None /\ purchase.claim = "unclaimed" /\ link[a] # 0
    /\ purchase' = [purchase EXCEPT !.activation = a]
    /\ UNCHANGED <<link, merged, root, fact, binding>>
FinishClaim(a) ==
    /\ purchase.activation = a /\ binding = None
    /\ root.intact /\ ~root.foreign /\ "refunded" \notin root.stages
    /\ purchase.payment = "active" /\ purchase.current /\ purchase.entitled
    /\ purchase.claim \in {"unclaimed", "claimed"}
    /\ \A l \in {"install", "receipt", "account"} : link[l] = link[a]
    /\ purchase' = [purchase EXCEPT !.paidClaim = "claimed", !.claim = "claimed"]
    /\ root' = [root EXCEPT !.stages = @ \cup Claimed]
    /\ binding' = [activation |-> a, profile |-> link[a]]
    /\ UNCHANGED <<link, merged, fact>>

World ==
    /\ Elsewhere
    /\ \/ "refund" \in Happenings /\ (RefundEntitlement \/ RefundStage \/ RefundRows \/ RefundFact \/ RefundFails)
       \/ "quarantine" \in Happenings /\ (Quarantine \/ StageElsewhere)
       \/ "time" \in Happenings /\ (Expire \/ ReplaceCustomer)
       \/ "identity" \in Happenings /\ (\/ LinkCustomer \/ DisputeCustomer
                                        \/ \E p \in Profiles : OtherAccount(p)
                                        \/ \E a \in Activations : SecondActivation(a)
                                        \/ \E p, q \in Profiles : MergeProfiles(p, q))
       \/ "commerce" \in Happenings /\ FactArrives
       \/ "claim" \in Happenings /\ \E a \in Activations : ClaimActivation(a) \/ FinishClaim(a)

Next ==
    \/ \E o \in Operators : DryRun(o) \/ Apply(o)
    \/ World

Spec == Init /\ [][Next]_vars
-----------------------------------------------------------------------------
\* However the repair and the ordinary attachments and merges interleave, no
\* profile ends with two accounts.
OneAccount == \A p \in Profiles : Cardinality(AccountsOn(p)) <= 1

\* A binding says that one customer installed, signed in and claimed; the
\* evidence it was made of stays on one live profile, whoever merges later.
BoundTogether ==
    binding # None =>
      /\ \A l \in {"install", "receipt", "account"} : link[l] = link[binding.activation]
      /\ merged[link["account"]] = 0
      /\ purchase.activation = binding.activation /\ Recorded

\* What the apply leaves behind is a repaired journey, with the fingerprint the
\* operator confirmed: the check that would roll it back never does, and a
\* second apply changes nothing.
RepairConverges ==
    [][\A o \in Operators :
         Apply(o) => Report' = [reason |-> "already_repaired", journey |-> confirmed[o]]]_vars

\* Nobody binds a journey whose payment was refunded, whichever of the refund's
\* transactions have committed, and no binding is ever replaced.
NoBindingAgainstRefund ==
    [][binding' # binding =>
         /\ binding = None /\ root.intact
         /\ "refunded" \notin root.stages
         /\ purchase.entitled /\ purchase.payment = "active"]_vars
=============================================================================

----------------------------- MODULE PaidClaim -----------------------------
(***************************************************************************)
(* The paid experiment after its Checkout Session is paid                    *)
(* (api/_lib/paid-acquisition.ts from completePaidAcquisitionCheckout on,    *)
(* api/paid-acquisition/claim.ts and artifact.ts, and the linkage at the     *)
(* end of api/activation/claim.ts).                                          *)
(*                                                                           *)
(* A run fulfils the licence, then completes the experiment's checkout row,  *)
(* then claims and sends the installer outbox, then goes on to what it was     *)
(* started for: nothing (webhook, return page), the claim of an activation,  *)
(* or the signed installer.  These are transactions of their own, and runs   *)
(* of the same payment and of the payment's refunds and disputes mix freely. *)
(* A transaction locks the claim and checkout rows it writes and sees them as  *)
(* they are under the lock; the licence, and in a claim the payment's state    *)
(* too, it reads without one, in a step of its own before it writes.           *)
(*                                                                           *)
(* The licence itself follows the newest Stripe facts, which is what         *)
(* OneTimeEntitlement is about; here it takes them in one step.  An account  *)
(* stands for its Google address.  A payment stands for its Session, its     *)
(* receipt, its acquisition, and its rows in the tables of the experiment.   *)
(***************************************************************************)
EXTENDS Integers, FiniteSets

CONSTANTS
    Payments, Accounts, Activations, Installs,
    Members,      \* accounts that a licence of another purchase entitles
    Runs,         \* fulfilCheckoutSession and what follows it
    Reconcilers,  \* lifecycle events of a payment
    Turns,        \* bound: what may become of a payment
    Answers,      \* bound: what may become of a mail
    Expiring,     \* bound: the activations and payments whose time may run out
    None

VARIABLES
    facts,     \* what Stripe says of a payment
    buyer,     \* the account of its verified Checkout address
    licence,   \* entitlement status
    paid,      \* the checkout row
    claim,     \* the claim row
    outbox,    \* the installer mail
    run, recon,
    activation,   \* account, expiry and installation of each session
    profile,      \* the customer profile that owns each identity
    review,       \* pending account reviews: <<activation, account>>
    stageOwner,   \* the payment whose acquisition recorded an installation
    bindings,     \* paid telemetry profile bindings
    linking       \* linkages under way: the activation's row is locked, the licence read

truth == <<facts, buyer, licence>>
rows == <<paid, claim>>
identity == <<profile, review, stageOwner, bindings, linking>>
vars == <<facts, buyer, licence, paid, claim, outbox, run, recon,
          activation, profile, review, stageOwner, bindings, linking>>

ClaimStates == {"unclaimed", "payment_pending", "email_mismatch", "claimed",
                "expired", "refunded", "disputed"}

\* What a claim of an activation may come to.
Outcomes == ClaimStates \ {"unclaimed"}

NoPaid == [completed |-> FALSE, payment |-> "pending", claim |-> "unclaimed",
           expired |-> FALSE]
NoClaim == [state |-> "absent", activation |-> None, account |-> None, google |-> None]
NoMail == [state |-> "absent", due |-> FALSE]
Idle == [goal |-> "none", payment |-> None, activation |-> None, account |-> None,
         stage |-> "idle"]

Sending == {"send", "accepted", "retryable", "dead_letter"}

Stages == Sending \cup {"idle", "fulfil", "complete", "deliver", "reread", "bind",
                        "claim", "serve"} \cup Outcomes

Identities == Activations \cup Installs \cup Accounts

Binding(p, a, acc, i) == [payment |-> p, activation |-> a, account |-> acc, install |-> i]
Linkages == [payment: Payments, activation: Activations, account: Accounts]

PaidRows == [completed: BOOLEAN, expired: BOOLEAN, claim: ClaimStates,
             payment: {"pending", "active", "refunded", "disputed"}]
ClaimRows == [state: ClaimStates \cup {"absent"}, activation: Activations \cup {None},
              account: Accounts \cup {None}, google: Accounts \cup {None}]
MailRows == [state: {"absent", "pending", "sending", "accepted", "retryable", "dead_letter"},
             due: BOOLEAN]
RunRows == [goal: {"none", "visit", "artifact", "claim"}, payment: Payments \cup {None},
            activation: Activations \cup {None}, account: Accounts \cup {None},
            stage: Stages]
ReconRows == [payment: Payments \cup {None}, dispute: BOOLEAN,
              status: {"none", "active", "suspended", "revoked"}]
ActivationRows == [account: Accounts \cup {None}, expired: BOOLEAN,
                   install: Installs \cup {None}]

TypeOK ==
    /\ facts \in [Payments -> {"unpaid", "paid", "refunded", "open", "won", "lost"}]
    /\ buyer \in [Payments -> Accounts \cup {None}]
    /\ licence \in [Payments -> {"absent", "active", "suspended", "revoked"}]
    /\ paid \in [Payments -> PaidRows] /\ claim \in [Payments -> ClaimRows]
    /\ outbox \in [Payments -> MailRows] /\ activation \in [Activations -> ActivationRows]
    /\ run \in [Runs -> RunRows] /\ recon \in [Reconcilers -> ReconRows]
    /\ profile \in [Identities -> Identities \cup {None}]
    /\ review \subseteq Activations \X Accounts
    /\ stageOwner \in [Installs -> Payments \cup {None}]
    /\ bindings \subseteq [payment: Payments, activation: Activations, account: Accounts,
                           install: Installs]
    /\ linking \subseteq Linkages

Init ==
    /\ facts = [p \in Payments |-> "unpaid"] /\ buyer = [p \in Payments |-> None]
    /\ licence = [p \in Payments |-> "absent"]
    /\ paid = [p \in Payments |-> NoPaid] /\ claim = [p \in Payments |-> NoClaim]
    /\ outbox = [p \in Payments |-> NoMail]
    /\ run = [r \in Runs |-> Idle]
    /\ recon = [c \in Reconcilers |-> [payment |-> None, status |-> "none", dispute |-> FALSE]]
    /\ activation = [a \in Activations |->
                       [account |-> None, expired |-> FALSE, install |-> None]]
    /\ profile = [e \in Identities |-> None]
    /\ review = {} /\ stageOwner = [i \in Installs |-> None] /\ bindings = {} /\ linking = {}

-----------------------------------------------------------------------------
(* Stripe, the app and the clock *)

Pay(p, b) ==
    /\ facts[p] = "unpaid"
    /\ facts' = [facts EXCEPT ![p] = "paid"] /\ buyer' = [buyer EXCEPT ![p] = b]
    /\ UNCHANGED <<licence, rows, outbox, run, recon, activation, identity>>

\* Refunds may fail again, disputes are won or lost.
Turn(p) ==
    /\ \E f \in Turns \cap CASE facts[p] = "paid" -> {"refunded", "open"}
                            [] facts[p] = "refunded" -> {"paid"}
                            [] facts[p] = "open" -> {"won", "lost"}
                            [] facts[p] = "won" -> {"refunded"}
                            [] OTHER -> {} :
         facts' = [facts EXCEPT ![p] = f]
    /\ UNCHANGED <<buyer, licence, rows, outbox, run, recon, activation, identity>>

StatusOf(f) == CASE f \in {"paid", "won"} -> "active"
                 [] f = "open" -> "suspended"
                 [] OTHER -> "revoked"

\* The app starts an activation of the paid source, with or without the
\* installation it came with; its identity attaches to a profile of its own or
\* to the one of its installation.
StartActivation(a, i) ==
    /\ profile[a] = None
    /\ activation' = [activation EXCEPT ![a].install = i]
    /\ profile' = [profile EXCEPT ![a] = a]
    /\ UNCHANGED <<truth, rows, outbox, run, recon, review, stageOwner, bindings, linking>>

\* The installation's telemetry arrives and makes its profile; it may have been
\* recorded for another customer before.
SeeInstall(i, e) ==
    /\ profile[i] = None
    /\ profile' = [profile EXCEPT ![i] = IF e = None THEN i ELSE profile[e]]
    /\ e # None => profile[e] # None
    /\ UNCHANGED <<truth, rows, outbox, run, recon, activation, review, stageOwner, bindings, linking>>

ExpireActivation(a) ==
    /\ a \in Expiring /\ profile[a] # None /\ ~activation[a].expired
    /\ activation' = [activation EXCEPT ![a].expired = TRUE]
    /\ UNCHANGED <<truth, rows, outbox, run, recon, identity>>

\* Seven days: the receipt and the claim expire.
ExpireReceipt(p) ==
    /\ p \in Expiring /\ paid[p].completed /\ ~paid[p].expired
    /\ paid' = [paid EXCEPT ![p].expired = TRUE]
    /\ UNCHANGED <<truth, claim, outbox, run, recon, activation, identity>>

MailDue(p) ==
    /\ outbox[p].state = "retryable" /\ ~outbox[p].due
    /\ outbox' = [outbox EXCEPT ![p].due = TRUE]
    /\ UNCHANGED <<truth, rows, run, recon, activation, identity>>

-----------------------------------------------------------------------------
(* Runs *)

At(r, stage) == run[r].stage = stage
Goto(r, stage) == run' = [run EXCEPT ![r].stage = stage]
Stop(r) == run' = [run EXCEPT ![r] = Idle]

\* The webhook's and the return page's run of fulfillCheckoutSession.
Visit(r, p) ==
    /\ At(r, "idle") /\ facts[p] # "unpaid"
    /\ run' = [run EXCEPT ![r] = [Idle EXCEPT !.goal = "visit", !.payment = p,
                                              !.stage = "fulfil"]]
    /\ UNCHANGED <<truth, rows, outbox, recon, activation, identity>>

\* getPaidAcquisitionReceiptState and the checks both routes make of it.
ReceiptUsable(p) ==
    paid[p].completed /\ ~paid[p].expired /\ paid[p].payment \notin {"refunded", "disputed"}

OpenArtifact(r, p) ==
    /\ At(r, "idle") /\ ReceiptUsable(p)
    /\ run' = [run EXCEPT ![r] = [Idle EXCEPT !.goal = "artifact", !.payment = p,
                                              !.stage = "fulfil"]]
    /\ UNCHANGED <<truth, rows, outbox, recon, activation, identity>>

\* The claim page of a signed-in account.
OpenClaim(r, p, a, acc) ==
    /\ At(r, "idle") /\ ReceiptUsable(p) /\ profile[a] # None
    /\ run' = [run EXCEPT ![r] =
         [goal |-> "claim", payment |-> p, activation |-> a, account |-> acc,
          stage |-> IF acc = buyer[p] THEN "fulfil" ELSE "claim"]]
    /\ UNCHANGED <<truth, rows, outbox, recon, activation, identity>>

\* fulfillCheckoutSession's own transaction, from the facts it fetched.
FulfilLicence(r) ==
    /\ At(r, "fulfil")
    /\ licence' = [licence EXCEPT ![run[r].payment] = StatusOf(facts[run[r].payment])]
    /\ Goto(r, "complete")
    /\ UNCHANGED <<facts, buyer, rows, outbox, recon, activation, identity>>

\* Mutant: a repeated completion overwrites what the first one stored.
CompletedClaimAnew(p) ==
    [NoClaim EXCEPT !.state = "unclaimed", !.account = buyer[p]]

\* Insert, or on conflict fill what is null.
CompletedClaim(p) ==
    IF claim[p].state = "absent"
    THEN [NoClaim EXCEPT !.state = "unclaimed", !.account = buyer[p]]
    ELSE [claim[p] EXCEPT !.account = IF @ = None THEN buyer[p] ELSE @]

\* completePaidAcquisitionCheckout.
Complete(r) ==
    /\ At(r, "complete")
    /\ LET p == run[r].payment IN
       /\ paid' = [paid EXCEPT ![p].completed = TRUE, ![p].payment = "active"]
       /\ claim' = [claim EXCEPT ![p] = CompletedClaim(p)]
       /\ outbox' = [outbox EXCEPT ![p] =
            IF @.state = "absent" THEN [state |-> "pending", due |-> TRUE] ELSE @]
    /\ Goto(r, "deliver")
    /\ UNCHANGED <<truth, recon, activation, identity>>

\* deliverPaidAcquisitionInstallerEmail: claim ...
\* Mutant: a job that is being sent is claimed again.
SendableAgain(p) == outbox[p].due \/ outbox[p].state = "sending"

Sendable(p) == outbox[p].due

ClaimMail(r) ==
    /\ At(r, "deliver")
    /\ LET p == run[r].payment IN
       IF Sendable(p)
       THEN outbox' = [outbox EXCEPT ![p] = [state |-> "sending", due |-> FALSE]]
            /\ Goto(r, "send")
       ELSE UNCHANGED outbox /\ Goto(r, "reread")
    /\ UNCHANGED <<truth, rows, recon, activation, identity>>

\* ... send, under a key made of the Session ...
SendMail(r) ==
    /\ At(r, "send")
    /\ \E s \in Answers \cap {"accepted", "retryable", "dead_letter"} : Goto(r, s)
    /\ UNCHANGED <<truth, rows, outbox, recon, activation, identity>>

\* ... and mark, if the job is still being sent.
MarkMail(r) ==
    /\ run[r].stage \in {"accepted", "retryable", "dead_letter"}
    /\ outbox' = [outbox EXCEPT ![run[r].payment] =
         IF @.state = "sending" THEN [state |-> run[r].stage, due |-> FALSE] ELSE @]
    /\ Goto(r, "reread")
    /\ UNCHANGED <<truth, rows, recon, activation, identity>>

\* The state is read again and the route goes on.
Reread(r) ==
    /\ At(r, "reread")
    /\ IF run[r].goal = "visit" \/ licence[run[r].payment] # "active"
       THEN Stop(r)
       ELSE Goto(r, IF run[r].goal = "claim" THEN "bind" ELSE "serve")
    /\ UNCHANGED <<truth, rows, outbox, recon, activation, identity>>

\* The signed URL is sent and the installer request recorded.
Serve(r) ==
    /\ At(r, "serve") /\ Stop(r)
    /\ UNCHANGED <<truth, rows, outbox, recon, activation, identity>>

\* claimActivationToAccount attaches the account to the activation's profile,
\* unless that has an account; it asks for a review where the account is
\* another profile's.
Bindable(a, acc) == ~activation[a].expired /\ activation[a].account \in {None, acc}

AttachAccount(a, acc) ==
    /\ activation' = [activation EXCEPT ![a].account = acc]
    /\ profile' = IF profile[acc] = None /\ \A other \in Accounts : profile[other] # profile[a]
                  THEN [profile EXCEPT ![acc] = profile[a]] ELSE profile
    /\ review' = IF profile[acc] \in {None, profile[a]} THEN review
                 ELSE review \cup {<<a, acc>>}

\* No linkage holds the activation's row.
RowFree(a) == \A l \in linking : l.activation # a

BindActivation(r) ==
    /\ At(r, "bind") /\ RowFree(run[r].activation)
    /\ IF Bindable(run[r].activation, run[r].account)
       THEN AttachAccount(run[r].activation, run[r].account) /\ Goto(r, "claim")
       ELSE Stop(r) /\ UNCHANGED <<activation, profile, review>>
    /\ UNCHANGED <<truth, rows, outbox, recon, stageOwner, bindings, linking>>

\* claimPaidAcquisitionActivation: the state the claim row takes.
ClaimOutcome(p, a, acc) ==
    CASE activation[a].expired -> "expired"
      [] paid[p].payment = "refunded" -> "refunded"
      [] paid[p].payment = "disputed" \/ licence[p] = "suspended" -> "disputed"
      [] paid[p].payment # "active" \/ licence[p] # "active" -> "payment_pending"
      [] buyer[p] # acc -> "email_mismatch"
      [] OTHER -> "claimed"

\* Of the rows it joins, the transaction locks the claim row alone ...
ReadClaim(r) ==
    /\ At(r, "claim")
    /\ LET p == run[r].payment  a == run[r].activation IN
       IF claim[p].activation # a THEN Stop(r) ELSE Goto(r, ClaimOutcome(p, a, run[r].account))
    /\ UNCHANGED <<truth, rows, outbox, recon, activation, identity>>

\* ... and writes what it made of the others when it read them.
ClaimPaid(r) ==
    /\ run[r].stage \in Outcomes
    /\ LET p == run[r].payment  acc == run[r].account  o == run[r].stage IN
       IF o = "claimed" /\ claim[p].account \notin {None, acc}
       THEN UNCHANGED claim
       ELSE claim' = [claim EXCEPT
              ![p].state = o,
              ![p].google = IF o \in {"email_mismatch", "claimed"} THEN acc ELSE @,
              ![p].account = IF o = "claimed" THEN acc ELSE @]
    /\ Stop(r)
    /\ UNCHANGED <<truth, paid, outbox, recon, activation, identity>>

Die(r) ==
    /\ run[r] # Idle /\ Stop(r)
    /\ UNCHANGED <<truth, rows, outbox, recon, activation, identity>>

-----------------------------------------------------------------------------
(* Refunds and disputes *)

\* reconcileOneTimePaymentLifecycle commits the licence ...
Reconcile(c, p) ==
    /\ recon[c].payment = None /\ licence[p] # "absent"
    /\ licence' = [licence EXCEPT ![p] = StatusOf(facts[p])]
    /\ recon' = [recon EXCEPT ![c] = [payment |-> p, status |-> StatusOf(facts[p]),
                                      dispute |-> facts[p] \in {"open", "lost"}]]
    /\ UNCHANGED <<facts, buyer, rows, outbox, run, activation, identity>>

PaymentState(c) ==
    IF recon[c].dispute \/ recon[c].status = "suspended" THEN "disputed"
    ELSE IF recon[c].status = "revoked" THEN "refunded" ELSE "active"

\* Mutant: the claim row is taken for granted.
RecordLifecycleAlways(c) ==
    /\ recon[c].payment # None
    /\ LET p == recon[c].payment  s == PaymentState(c) IN
       /\ paid' = [paid EXCEPT ![p].payment = s]
       /\ claim' = [claim EXCEPT ![p].state = IF s = "active" THEN @ ELSE s]
    /\ recon' = [recon EXCEPT ![c].payment = None]
    /\ UNCHANGED <<truth, outbox, run, activation, identity>>

\* ... and recordPaidAcquisitionLifecycle the rows of the experiment.
RecordLifecycle(c) ==
    /\ recon[c].payment # None
    /\ LET p == recon[c].payment  s == PaymentState(c) IN
       IF ~paid[p].completed THEN UNCHANGED rows
       ELSE /\ paid' = [paid EXCEPT ![p].payment = s,
                                    ![p].claim = IF s = "active" THEN @ ELSE s]
            /\ claim' = [claim EXCEPT ![p].state = IF s = "active" THEN @ ELSE s]
    /\ recon' = [recon EXCEPT ![c].payment = None]
    /\ UNCHANGED <<truth, outbox, run, activation, identity>>

-----------------------------------------------------------------------------
(* The linkage of a confirmed activation: one transaction, which locks the    *)
(* activation's row, then the claim and the checkout row, with the licence as  *)
(* it was when it asked for those two.                                        *)

\* The claim page of the paid source claims the activation.
ClaimActivation(a, acc) ==
    /\ profile[a] # None /\ Bindable(a, acc) /\ RowFree(a)
    /\ acc \in Members \/ \E p \in Payments : licence[p] = "active" /\ buyer[p] = acc
    /\ AttachAccount(a, acc)
    /\ UNCHANGED <<truth, rows, outbox, run, recon, stageOwner, bindings, linking>>

\* The session's account and the browser's receipt, compared at the start.
Link(p, a, acc) ==
    /\ RowFree(a) /\ ~activation[a].expired /\ activation[a].account = acc
    /\ paid[p].completed /\ ~paid[p].expired /\ licence[p] = "active"
    /\ linking' = linking \cup {[payment |-> p, activation |-> a, account |-> acc]}
    /\ UNCHANGED <<truth, rows, outbox, run, recon, activation, profile, review, stageOwner, bindings>>

\* Mutant: whose claim it is, is not compared.
ClaimableByMember(p, a, acc) ==
    /\ paid[p].payment = "active"
    /\ claim[p].state = paid[p].claim /\ claim[p].state \in {"unclaimed", "claimed"}
    /\ claim[p].activation \in {None, a}

\* Mutant: what has been recorded of the payment is not looked at.
ClaimableUnread(p, a, acc) ==
    /\ claim[p].account = acc /\ buyer[p] = acc
    /\ claim[p].activation \in {None, a}

Claimable(p, a, acc) ==
    /\ paid[p].payment = "active"
    /\ claim[p].state = paid[p].claim /\ claim[p].state \in {"unclaimed", "claimed"}
    /\ claim[p].account = acc /\ buyer[p] = acc
    /\ claim[p].activation \in {None, a}

\* selectExactPaidTelemetryIdentity: the account's own link is on the profile of
\* the activation, or a pending review of that profile names the account.
ExactIdentity(a, acc) ==
    /\ activation[a].install # None /\ profile[activation[a].install] # None
    /\ \/ profile[acc] = profile[a]
       \/ \E other \in Activations : <<other, acc>> \in review /\ profile[other] = profile[a]

\* The accounts on the installation's profile, of the profiles prof.
OwnersOf(prof, i) == {acc \in Accounts : prof[acc] = prof[i]}

\* exactPaidIdentityOwnersAgree.
\* Mutant: who owns the installation is not looked at.
OwnersAgreeAny(prof, a, acc, i) == Cardinality({prof[a], prof[i], prof[acc]}) <= 2

OwnersAgree(prof, a, acc, i) ==
    /\ Cardinality({prof[a], prof[i], prof[acc]}) <= 2
    /\ IF prof[i] = prof[acc] THEN OwnersOf(prof, i) \subseteq {acc}
       ELSE /\ OwnersOf(prof, i) = {}
            /\ prof[a] \in {prof[i], prof[acc]}

\* selectPaidTelemetryBinding and paidTelemetryBindingMatches.
NoOtherBinding(p, a, acc, i) ==
    \A b \in bindings : b.payment = p \/ b.activation = a => b = Binding(p, a, acc, i)

\* mergeCustomerProfilesInTransaction: every link of the loser moves.
Merged(gone, survivor) ==
    [e \in DOMAIN profile |-> IF profile[e] = gone THEN survivor ELSE profile[e]]

\* The rest of associatePaidAcquisitionActivationWithOutcome, under all its locks.
\* The identities are selected again after the merge.
Associate(l) ==
    LET p == l.payment  a == l.activation  acc == l.account  i == activation[a].install IN
    /\ l \in linking /\ Claimable(p, a, acc)
    /\ ExactIdentity(a, acc) /\ OwnersAgree(profile, a, acc, i)
    /\ NoOtherBinding(p, a, acc, i)
    /\ stageOwner[i] \in {None, p}    \* else acquisition_ownership_conflict
    /\ stageOwner' = [stageOwner EXCEPT ![i] = p]
    /\ claim' = [claim EXCEPT ![p].activation = a, ![p].state = "claimed"]
    /\ paid' = [paid EXCEPT ![p].claim = "claimed"]
    /\ profile' = Merged(IF profile[a] = profile[i] THEN profile[acc] ELSE profile[i], profile[a])
    /\ OwnersAgree(profile', a, acc, i)    \* else the transaction is rolled back
    /\ bindings' = bindings \cup {Binding(p, a, acc, i)}
    /\ linking' = linking \ {l}
    /\ UNCHANGED <<truth, outbox, run, recon, activation, review>>

\* It ends without a linkage: refused, rolled back or dead.
Unlink(l) ==
    /\ linking' = linking \ {l}
    /\ UNCHANGED <<truth, rows, outbox, run, recon, activation, profile, review, stageOwner, bindings>>

-----------------------------------------------------------------------------
Step(r) ==
    \/ \E p \in Payments : Visit(r, p) \/ OpenArtifact(r, p)
    \/ \E p \in Payments, a \in Activations, acc \in Accounts : OpenClaim(r, p, a, acc)
    \/ FulfilLicence(r) \/ Complete(r) \/ ClaimMail(r) \/ SendMail(r) \/ MarkMail(r)
    \/ Reread(r) \/ Serve(r) \/ BindActivation(r) \/ ReadClaim(r) \/ ClaimPaid(r) \/ Die(r)

Next ==
    \/ \E p \in Payments, b \in Accounts : Pay(p, b)
    \/ \E p \in Payments : Turn(p) \/ ExpireReceipt(p) \/ MailDue(p)
    \/ \E a \in Activations, i \in Installs \cup {None} : StartActivation(a, i)
    \/ \E i \in Installs, e \in Activations \cup Accounts \cup {None} : SeeInstall(i, e)
    \/ \E a \in Activations : ExpireActivation(a)
    \/ \E r \in Runs : Step(r)
    \/ \E c \in Reconcilers, p \in Payments : Reconcile(c, p)
    \/ \E c \in Reconcilers : RecordLifecycle(c)
    \/ \E a \in Activations, acc \in Accounts : ClaimActivation(a, acc)
    \/ \E p \in Payments, a \in Activations, acc \in Accounts : Link(p, a, acc)
    \/ \E l \in linking : Associate(l) \/ Unlink(l)

Spec == Init /\ [][Next]_vars

-----------------------------------------------------------------------------
(* Properties *)

\* A claim belongs to the account of the verified Checkout address, and whoever
\* is recorded as having claimed it signed in with that address.
ClaimIsTheBuyers ==
    \A p \in Payments :
        /\ claim[p].account \in {None, buyer[p]}
        /\ claim[p].activation # None => activation[claim[p].activation].account = buyer[p]
        /\ claim[p].state = "claimed" => claim[p].google \in {None, buyer[p]}

\* Whatever completions, claims, refunds and disputes follow, a claim keeps the
\* activation and the account it has.
ClaimIsKept ==
    [][\A p \in Payments :
          /\ claim[p].activation # None => claim'[p].activation = claim[p].activation
          /\ claim[p].account # None => claim'[p].account = claim[p].account]_vars

\* Once a refund or a dispute of a payment is recorded, nothing is linked to its
\* claim any more and the checkout row keeps what was recorded, although a claim
\* that read the payment before writes "claimed" over the claim row afterwards.
LostGainsNothing ==
    [][\A p \in Payments : paid[p].claim \in {"refunded", "disputed"} =>
          /\ paid'[p].claim \in {"refunded", "disputed"}
          /\ claim'[p].activation = claim[p].activation
          /\ \A b \in bindings' : b.payment = p => b \in bindings]_vars

\* One run at a time sends the installer mail of a payment, whichever of the
\* webhook, the return page, the claim page and the download got there.
OneSender ==
    \A r, s \in Runs :
        r # s /\ run[r].payment = run[s].payment
          => ~(run[r].stage \in Sending /\ run[s].stage \in Sending)

\* A binding's three identities are one profile for good, and no merge ever puts
\* two accounts on one profile.
BindingsConverge ==
    /\ \A b \in bindings :
         profile[b.activation] = profile[b.install] /\ profile[b.account] = profile[b.install]
    /\ \A x, y \in Accounts : x # y /\ profile[x] # None => profile[x] # profile[y]

\* The rows of the experiment exist together, a mail is due only while it waits,
\* and two payments never claim one activation (completePaidAcquisitionCheckout,
\* associatePaidAcquisitionActivationWithOutcome).
RowsAgree ==
    /\ \A p \in Payments :
         /\ claim[p].state # "absent" <=> paid[p].completed
         /\ outbox[p].state # "absent" <=> paid[p].completed
         /\ outbox[p].due => outbox[p].state \in {"pending", "retryable"}
    /\ \A p, q \in Payments : p # q /\ claim[p].activation # None
         => claim[p].activation # claim[q].activation

\* docs/paid-acquisition-contract.md: a mail's lease has a maximum of five
\* minutes, and a retry follows; a job without a sender is not left sending.
MailIsNotStranded ==
    \A p \in Payments : outbox[p].state = "sending" =>
        \E r \in Runs : run[r].payment = p /\ run[r].stage \in Sending
=============================================================================

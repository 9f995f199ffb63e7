------------------------------ MODULE Checkout ------------------------------
(***************************************************************************)
(* Checkout intents and Stripe Checkout Sessions (api/_lib/account.ts:       *)
(* createCheckoutIntent, createOrReuseCheckoutSession and what they call;    *)
(* api/checkout/start.ts and complete.ts).                                   *)
(*                                                                           *)
(* Every click on Upgrade makes an intent and takes it to a Session, so a    *)
(* request stands for its intent and for the Session created from it: the    *)
(* idempotency key of a creation holds the intent.  A request holds its      *)
(* intent's row, its account's eligibility lock and its activation's lock    *)
(* while it talks to Stripe, and writes nothing before it commits; a run     *)
(* that dies loses its locks and its writes, not what Stripe did for it.     *)
(***************************************************************************)
EXTENDS Naturals, FiniteSets

CONSTANTS
    Requests, Accounts, Activations,
    Offers,      \* a plan at its price: what the intent snapshots
    Selected,    \* the offers a customer chose by name (snapshot version 3)
    Ageing,      \* bound: the activations and Sessions whose time runs
    None

VARIABLES
    intent,      \* account, activation, offer, Session and state of each row
    worker,      \* stage of each request, the Session it replaces, and the one
                 \* its browser is sent to
    stripe,      \* what Stripe holds of each Session
    late,        \* Sessions past the expiry they were created with
    activation,  \* attached Session, age and owner
    licensed     \* accounts with a canonical active paid licence

vars == <<intent, worker, stripe, late, activation, licensed>>

NoIntent == [account |-> None, activation |-> None, offer |-> None,
             session |-> None, state |-> "absent", attempt |-> 0]

Stages == {"idle", "account", "activation", "decide", "expire", "create", "commit", "over"}

IntentRows == [account: Accounts \cup {None}, activation: Activations \cup {None},
               offer: Offers \cup {None}, session: Requests \cup {None},
               state: {"absent", "pending", "open", "completed"}, attempt: Nat]
WorkerRows == [stage: Stages, replaces: Requests \cup {None}, sent: Requests \cup {None}]
ActivationRows == [session: Requests \cup {None}, age: {"ample", "short", "over"},
                   account: Accounts \cup {None}]

TypeOK ==
    /\ intent \in [Requests -> IntentRows]
    /\ worker \in [Requests -> WorkerRows]
    /\ stripe \in [Requests -> {"none", "open", "complete", "expired"}]
    /\ activation \in [Activations -> ActivationRows]
    /\ late \subseteq Requests /\ licensed \subseteq Accounts

Init ==
    /\ intent = [r \in Requests |-> NoIntent]
    /\ worker = [r \in Requests |-> [stage |-> "idle", replaces |-> None, sent |-> None]]
    /\ stripe = [r \in Requests |-> "none"] /\ late = {}
    /\ activation = [a \in Activations |-> [session |-> None, age |-> "ample", account |-> None]]
    /\ licensed = {}

-----------------------------------------------------------------------------
(* Locks: a request holds them from the stage behind the one that takes them. *)

Holding(s, stages) == worker[s].stage \in stages

\* pg_advisory_xact_lock on the account's paid eligibility.
\* Mutant: the account is not locked.
AccountUnguarded(acc) == acc \in Accounts

AccountFree(acc) ==
    \A s \in Requests : intent[s].account = acc =>
        ~Holding(s, {"activation", "decide", "expire", "create", "commit"})

\* ... on checkout_activation, and the row of the activation.
ActivationFree(a) ==
    \A s \in Requests : intent[s].activation = a =>
        ~Holding(s, {"decide", "expire", "create", "commit"})

\* select ... for update of the intent.
RowFree(r) == Holding(r, {"idle", "over"})

Pending(a) == activation[a].age # "over" /\ activation[a].account = None

Goto(r, stage) == worker' = [worker EXCEPT ![r].stage = stage]
Over(r) == Goto(r, "over")

-----------------------------------------------------------------------------
\* createCheckoutIntent: its own transaction, under the eligibility lock.
CreateIntent(r, acc, a, o) ==
    /\ worker[r].stage = "idle"
    /\ AccountFree(acc) /\ acc \notin licensed
    /\ a # None => Pending(a)
    /\ intent' = [intent EXCEPT ![r] = [account |-> acc, activation |-> a, offer |-> o,
                                        session |-> None, state |-> "pending", attempt |-> 0]]
    /\ Goto(r, "account")
    /\ UNCHANGED <<stripe, late, activation, licensed>>

\* createOrReuseCheckoutSession: the eligibility of the account, again.
LockAccount(r) ==
    /\ worker[r].stage = "account" /\ AccountFree(intent[r].account)
    /\ Goto(r, IF intent[r].account \in licensed THEN "over"
               ELSE IF intent[r].activation = None THEN "create" ELSE "activation")
    /\ UNCHANGED <<intent, stripe, late, activation, licensed>>

LockActivation(r) ==
    /\ worker[r].stage = "activation" /\ ActivationFree(intent[r].activation)
    /\ Goto(r, IF Pending(intent[r].activation) THEN "decide" ELSE "over")
    /\ UNCHANGED <<intent, stripe, late, activation, licensed>>

-----------------------------------------------------------------------------
(* What becomes of the Session s that is attached to the activation.  Its row *)
(* is the one updated last, which has the highest attempt.                    *)

RowsOf(s) == {x \in Requests : intent[x].session = s}
Attached(s) == CHOOSE x \in RowsOf(s) : \A y \in RowsOf(s) : intent[y].attempt <= intent[x].attempt

\* selectedPlanMismatch: a plan chosen by name replaces what has other terms.
Mismatched(r, s) == intent[r].offer \in Selected /\ intent[s].offer # intent[r].offer

Keepable(r, s) == s \notin late /\ ~Mismatched(r, s)

Hand(r, s) == worker' = [worker EXCEPT ![r].stage = "over", ![r].sent = s]
Handed(s) == \E r \in Requests : worker[r].sent = s

\* buildCheckoutCompletionUrl: paid already.
SendToCompletion(r) == Over(r) /\ UNCHANGED intent

\* The open Session is kept; the new intent takes it unless its terms differ.
Reuse(r, s) ==
    /\ Hand(r, s)
    /\ intent' = IF intent[s].offer # intent[r].offer THEN intent
                 ELSE [intent EXCEPT ![r].session = s, ![r].state = "open",
                                     ![r].attempt = intent[Attached(s)].attempt]

Replace(r, s, stage) ==
    /\ worker' = [worker EXCEPT ![r].stage = stage, ![r].replaces = s]
    /\ intent' = [intent EXCEPT ![r].attempt = intent[Attached(s)].attempt + 1]

\* Mutant: a mismatched Session is left open behind the new one.
DecideLeavingOpen(r) ==
    /\ worker[r].stage = "decide"
    /\ LET s == activation[intent[r].activation].session IN
       IF s = None THEN Goto(r, "create") /\ UNCHANGED intent
       ELSE IF intent[Attached(s)].state = "completed" \/ stripe[s] = "complete"
       THEN SendToCompletion(r)
       ELSE IF Keepable(r, s) /\ stripe[s] = "open" THEN Reuse(r, s)
       ELSE Replace(r, s, "create")
    /\ UNCHANGED <<stripe, late, activation, licensed>>

\* Mutant: what the rows say of the Session is not read again from Stripe.
DecideUnread(r) ==
    /\ worker[r].stage = "decide"
    /\ LET s == activation[intent[r].activation].session IN
       IF s = None THEN Goto(r, "create") /\ UNCHANGED intent
       ELSE IF intent[Attached(s)].state = "completed"
       THEN SendToCompletion(r)
       ELSE IF Keepable(r, s) THEN Reuse(r, s)
       ELSE Replace(r, s, IF stripe[s] = "open" THEN "expire" ELSE "create")
    /\ UNCHANGED <<stripe, late, activation, licensed>>

Decide(r) ==
    /\ worker[r].stage = "decide"
    /\ LET s == activation[intent[r].activation].session IN
       IF s = None THEN Goto(r, "create") /\ UNCHANGED intent
       ELSE IF intent[Attached(s)].state = "completed" \/ stripe[s] = "complete"
       THEN SendToCompletion(r)
       ELSE IF Keepable(r, s) /\ stripe[s] = "open" THEN Reuse(r, s)
       ELSE Replace(r, s, IF stripe[s] = "open" THEN "expire" ELSE "create")
    /\ UNCHANGED <<stripe, late, activation, licensed>>

\* expireCheckoutSession; Stripe refuses what is paid by now, and the request fails.
ExpireOld(r) ==
    /\ worker[r].stage = "expire"
    /\ LET s == worker[r].replaces IN
       IF stripe[s] = "complete" THEN Over(r) /\ UNCHANGED stripe
       ELSE stripe' = [stripe EXCEPT ![s] = "expired"] /\ Goto(r, "create")
    /\ UNCHANGED <<intent, late, activation, licensed>>

\* checkout.sessions.create, if the activation leaves the buyer time enough.
CreateSession(r) ==
    /\ worker[r].stage = "create"
    /\ IF intent[r].activation # None /\ activation[intent[r].activation].age # "ample"
       THEN Over(r) /\ UNCHANGED stripe
       ELSE stripe' = [stripe EXCEPT ![r] = "open"] /\ Goto(r, "commit")
    /\ UNCHANGED <<intent, late, activation, licensed>>

\* attachCheckoutSessionToActivation: in place of the Session that was replaced.
Attachable(r) ==
    LET a == intent[r].activation IN
    Pending(a) /\ activation[a].session \in {None, worker[r].replaces}

Commit(r) ==
    /\ worker[r].stage = "commit"
    /\ LET a == intent[r].activation IN
       IF a # None /\ ~Attachable(r)
       THEN Over(r) /\ UNCHANGED <<intent, activation>>    \* throws: rolled back
       ELSE /\ intent' = [intent EXCEPT ![r].session = r, ![r].state = "open"]
            /\ activation' = IF a = None THEN activation
                             ELSE [activation EXCEPT ![a].session = r]
            /\ Hand(r, r)
    /\ UNCHANGED <<stripe, late, licensed>>

Die(r) ==
    /\ ~RowFree(r) /\ Over(r)
    /\ UNCHANGED <<intent, stripe, late, activation, licensed>>

-----------------------------------------------------------------------------
(* Buyers, Stripe's fulfilment and time *)

\* Whoever has the address of an open Session pays it.
Pay(s) ==
    /\ stripe[s] = "open" /\ Handed(s)
    /\ stripe' = [stripe EXCEPT ![s] = "complete"]
    /\ UNCHANGED <<intent, worker, late, activation, licensed>>

\* fulfillCheckoutSession's transaction: the eligibility lock, the row of the
\* intent, the row of the activation.
Bindable(s) ==
    LET a == intent[s].activation IN
    a # None /\ activation[a].session = s /\ activation[a].age # "over"
    /\ activation[a].account \in {None, intent[s].account}

\* Mutant: every intent of the account is completed.
FulfilAllRows(s) ==
    /\ stripe[s] = "complete" /\ intent[s].state = "open" /\ intent[s].session = s
    /\ AccountFree(intent[s].account) /\ RowFree(s)
    /\ intent[s].activation # None => ActivationFree(intent[s].activation)
    /\ licensed' = licensed \cup {intent[s].account}
    /\ activation' = IF Bindable(s)
                     THEN [activation EXCEPT ![intent[s].activation].account = intent[s].account]
                     ELSE activation
    /\ intent' = [x \in Requests |-> IF intent[x].account = intent[s].account
                                     THEN [intent[x] EXCEPT !.state = "completed"] ELSE intent[x]]
    /\ UNCHANGED <<worker, stripe, late>>

Fulfil(s) ==
    /\ stripe[s] = "complete" /\ intent[s].state = "open" /\ intent[s].session = s
    /\ AccountFree(intent[s].account) /\ RowFree(s)
    /\ intent[s].activation # None => ActivationFree(intent[s].activation)
    /\ licensed' = licensed \cup {intent[s].account}
    /\ activation' = IF Bindable(s)
                     THEN [activation EXCEPT ![intent[s].activation].account = intent[s].account]
                     ELSE activation
    /\ intent' = [x \in Requests |-> IF intent[x].session = s
                                     THEN [intent[x] EXCEPT !.state = "completed"] ELSE intent[x]]
    /\ UNCHANGED <<worker, stripe, late>>

Lapse(s) ==
    /\ s \in Ageing \ late /\ stripe[s] # "none"
    /\ late' = late \cup {s}
    /\ stripe' = [stripe EXCEPT ![s] = IF @ = "open" THEN "expired" ELSE @]
    /\ UNCHANGED <<intent, worker, activation, licensed>>

\* A Session ends ten minutes before its activation does.
Age(a) ==
    /\ a \in Ageing /\ activation[a].age # "over"
    /\ activation[a].age = "short" =>
         \A s \in Requests : intent[s].activation = a => stripe[s] # "open"
    /\ activation' = [activation EXCEPT ![a].age = IF @ = "ample" THEN "short" ELSE "over"]
    /\ UNCHANGED <<intent, worker, stripe, late, licensed>>

-----------------------------------------------------------------------------
Next ==
    \/ \E r \in Requests, acc \in Accounts, a \in Activations \cup {None}, o \in Offers :
         CreateIntent(r, acc, a, o)
    \/ \E r \in Requests :
         \/ LockAccount(r) \/ LockActivation(r) \/ Decide(r) \/ ExpireOld(r)
         \/ CreateSession(r) \/ Commit(r) \/ Die(r)
         \/ Pay(r) \/ Fulfil(r) \/ Lapse(r)
    \/ \E a \in Activations : Age(a)

Spec == Init /\ [][Next]_vars

-----------------------------------------------------------------------------
(* Properties *)

\* A row is open or completed exactly when it has a Session, which Stripe knows
\* (attachCheckoutSessionToActivation, fulfillCheckoutSession).
RowsHaveSessions ==
    \A r \in Requests :
        /\ intent[r].session # None <=> intent[r].state \in {"open", "completed"}
        /\ intent[r].session # None => stripe[intent[r].session] # "none"
        /\ intent[r].state = "absent" => worker[r].stage \in {"idle", "over"}

\* Of the Sessions of an activation that a browser was sent to, one at most can
\* still be paid or is paid, and it is the one attached: plan changes, crashes
\* between Stripe and the commit, and clicks in two windows leave no second one.
\* It is what a payment needs to bind its activation.
PayableIsAttached ==
    \A s \in Requests :
        LET a == intent[s].activation IN
        Handed(s) /\ stripe[s] \in {"open", "complete"} /\ a # None
          => activation[a].session = s

\* No Session is created for an account that owns the product, even when its
\* payment is fulfilled between the click and the creation.
OwnersAreNotCharged ==
    [][\A s \in Requests : stripe[s] = "none" /\ stripe'[s] = "open"
         => intent[s].account \notin licensed]_vars

\* A browser is sent to a Session only while Stripe still takes its payment.
HandedIsOpen ==
    [][\A r, s \in Requests :
         worker[r].sent = None /\ worker'[r].sent = s
           => stripe[s] \in {"open", "complete"} \/ s \in late]_vars

\* Whoever is sent to a Session is the account it is created for.
ChargesItsVisitor ==
    \A r \in Requests : worker[r].sent # None => intent[worker[r].sent].account = intent[r].account
=============================================================================

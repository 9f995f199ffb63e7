---------------------------- MODULE PaidCheckout ----------------------------
(***************************************************************************)
(* The paid experiment up to its Checkout Session: the signed assignment     *)
(* cookie, the entry a landing page is rendered with, and the checkout       *)
(* request (api/paid-acquisition/landing.ts, checkout.ts and what they call  *)
(* of api/_lib/paid-acquisition.ts).                                         *)
(*                                                                           *)
(* A request stands for the core intent it makes and for the Session of      *)
(* that intent.  Its steps are transactions of their own.  The database      *)
(* holds one checkout row per idempotency key and one per entry.             *)
(***************************************************************************)
EXTENDS Naturals, FiniteSets

CONSTANTS
    Requests, Entries, Keys, Cookies,
    Paid,       \* the cookies that assign the paid cohort
    Ageing,     \* bound: the cookies and entries whose time runs out
    None

VARIABLES
    entry,     \* cookie of each persisted entry, and whether it is expired
    cookie,    \* "valid" or "expired"
    request,   \* stage, entry, key, and the address it was answered with
    core,      \* core intents: the Session each has, if any
    rows       \* checkout rows: entry, key, intent, Session attached

vars == <<entry, cookie, request, core, rows>>

Stages == {"idle", "replay", "intent", "persist", "again", "session", "attach", "over"}

\* A row of the experiment names a Session only once it exists, and so does an
\* answer.
TypeOK ==
    /\ entry \in [Entries -> [cookie : Paid \cup {None}, expired : BOOLEAN]]
    /\ cookie \in [Cookies -> {"valid", "expired"}]
    /\ request \in [Requests -> [stage : Stages, entry : Entries \cup {None},
                                 key : Keys \cup {None}, answer : Requests \cup {None}]]
    /\ core \in [Requests -> {"none", "intent", "session"}]
    /\ rows \subseteq [entry : Entries, key : Keys, intent : Requests,
                       session : Requests \cup {None}]
    /\ \A r \in Requests : request[r].answer # None => core[request[r].answer] = "session"
    /\ \A w \in rows : w.session # None => w.session = w.intent /\ core[w.intent] = "session"

Init ==
    /\ entry = [e \in Entries |-> [cookie |-> None, expired |-> FALSE]]
    /\ cookie = [c \in Cookies |-> "valid"]
    /\ request = [r \in Requests |-> [stage |-> "idle", entry |-> None, key |-> None, answer |-> None]]
    /\ core = [r \in Requests |-> "none"] /\ rows = {}

-----------------------------------------------------------------------------
\* validatePaidAcquisitionAssignmentCookie: signature, format and thirty days.
ValidCookie(c) == cookie[c] = "valid"

\* landing.ts: createPaidAcquisitionEntryContext refuses the control cohort, and
\* persistPaidAcquisitionEntry binds the entry to the cookie it came with.
Land(e, c) ==
    /\ entry[e].cookie = None
    /\ ValidCookie(c) /\ c \in Paid
    /\ entry' = [entry EXCEPT ![e].cookie = c]
    /\ UNCHANGED <<cookie, request, core, rows>>

\* loadPaidAcquisitionEntry: by the hash of its token, while it lasts.
Loaded(e) == entry[e].cookie # None /\ ~entry[e].expired

\* validatePaidAcquisitionCheckoutEntry: the browser that asks is the one the
\* page was rendered for.
Validated(e, c) == Loaded(e) /\ ValidCookie(c) /\ entry[e].cookie = c

Goto(r, stage) == request' = [request EXCEPT ![r].stage = stage]
Answer(r, s) == request' = [request EXCEPT ![r].stage = "over", ![r].answer = s]
Refuse(r) == Goto(r, "over")

Begin(r, e, k, c) ==
    /\ request[r].stage = "idle" /\ Validated(e, c)
    /\ request' = [request EXCEPT ![r] = [stage |-> "replay", entry |-> e, key |-> k,
                                          answer |-> None]]
    /\ UNCHANGED <<entry, cookie, core, rows>>

\* resolvePaidAcquisitionCheckoutStart: a row of this key is this request's own,
\* made for the same entry.
\* Mutant: the context of the row is not compared.
SameIntentByKey(w, r) == w.key = request[r].key

SameIntent(w, r) == w.key = request[r].key /\ w.entry = request[r].entry

\* findPaidAcquisitionCheckoutReplay: what a row of the key answers; it refuses
\* another context, and an intent that has no address yet.
FindReplay(r, otherwise) ==
    IF \E w \in rows : w.key = request[r].key
    THEN LET w == CHOOSE w \in rows : w.key = request[r].key IN
         IF SameIntent(w, r) /\ core[w.intent] = "session"
         THEN Answer(r, w.intent) ELSE Refuse(r)
    ELSE Goto(r, otherwise)

Replay(r) ==
    /\ request[r].stage = "replay" /\ FindReplay(r, "intent")
    /\ UNCHANGED <<entry, cookie, core, rows>>

\* Mutant: the Session is made with the intent, before the row.
ConfirmIntentWithSession(r) ==
    /\ request[r].stage = "intent"
    /\ core' = [core EXCEPT ![r] = "session"] /\ Goto(r, "persist")
    /\ UNCHANGED <<entry, cookie, rows>>

\* createCheckoutIntentConfirmation.
ConfirmIntent(r) ==
    /\ request[r].stage = "intent"
    /\ core' = [core EXCEPT ![r] = "intent"] /\ Goto(r, "persist")
    /\ UNCHANGED <<entry, cookie, rows>>

\* The unique constraints on the key and on the entry.
\* Mutant: the entry may be used again.
UniqueKey(r) == \A w \in rows : w.key # request[r].key

Unique(r) == \A w \in rows : w.key # request[r].key /\ w.entry # request[r].entry

\* Mutant: the row names its Session before there is one.
PersistAttached(r) ==
    /\ request[r].stage = "persist"
    /\ IF Unique(r)
       THEN /\ rows' = rows \cup {[entry |-> request[r].entry, key |-> request[r].key,
                                   intent |-> r, session |-> r]}
            /\ Goto(r, "session")
       ELSE UNCHANGED rows /\ Goto(r, "again")
    /\ UNCHANGED <<entry, cookie, core>>

\* persistPaidAcquisitionCheckoutIntent; who is second looks for the first.
Persist(r) ==
    /\ request[r].stage = "persist"
    /\ IF Unique(r)
       THEN /\ rows' = rows \cup {[entry |-> request[r].entry, key |-> request[r].key,
                                   intent |-> r, session |-> None]}
            /\ Goto(r, "session")
       ELSE UNCHANGED rows /\ Goto(r, "again")
    /\ UNCHANGED <<entry, cookie, core>>

ReplayConcurrent(r) ==
    /\ request[r].stage = "again" /\ FindReplay(r, "over")
    /\ UNCHANGED <<entry, cookie, core, rows>>

\* createOrReuseCheckoutSession of the new intent.
MakeSession(r) ==
    /\ request[r].stage = "session"
    /\ core' = [core EXCEPT ![r] = "session"] /\ Goto(r, "attach")
    /\ UNCHANGED <<entry, cookie, rows>>

\* attachPaidAcquisitionCheckoutSession, and the answer.
Attach(r) ==
    /\ request[r].stage = "attach"
    /\ rows' = {IF w.intent = r THEN [w EXCEPT !.session = r] ELSE w : w \in rows}
    /\ Answer(r, r)
    /\ UNCHANGED <<entry, cookie, core>>

\* Stripe or the database fails, or the function stops: an error, or no answer.
Fail(r) ==
    /\ request[r].stage \notin {"idle", "over"} /\ Refuse(r)
    /\ UNCHANGED <<entry, cookie, core, rows>>

Expire(x) ==
    /\ x \in Ageing
    /\ \/ x \in Cookies /\ cookie[x] = "valid"
          /\ cookie' = [cookie EXCEPT ![x] = "expired"] /\ UNCHANGED entry
       \/ x \in Entries /\ entry[x].cookie # None /\ ~entry[x].expired
          /\ entry' = [entry EXCEPT ![x].expired = TRUE] /\ UNCHANGED cookie
    /\ UNCHANGED <<request, core, rows>>

Next ==
    \/ \E e \in Entries, c \in Cookies : Land(e, c)
    \/ \E r \in Requests, e \in Entries, k \in Keys, c \in Cookies : Begin(r, e, k, c)
    \/ \E r \in Requests :
         \/ Replay(r) \/ ConfirmIntent(r) \/ Persist(r) \/ ReplayConcurrent(r)
         \/ MakeSession(r) \/ Attach(r) \/ Fail(r)
    \/ \E x \in Entries \cup Cookies : Expire(x)

Spec == Init /\ [][Next]_vars

-----------------------------------------------------------------------------
(* Properties *)

\* Every answer to a key names one Session, and every answer to requests of one
\* landing page too: double clicks, retries and second windows buy once.
KeysConverge ==
    \A r, s \in Requests :
        request[r].answer # None /\ request[s].answer # None
        /\ (request[r].key = request[s].key \/ request[r].entry = request[s].entry)
          => request[r].answer = request[s].answer

\* A buyer is sent only to a Session whose row has its own entry, so that the
\* payment is attributed to the visit that led to it.
AnswersAreAttributed ==
    \A r \in Requests : request[r].answer # None =>
        \E w \in rows : w.intent = request[r].answer /\ w.entry = request[r].entry

\* No Session exists that no row of the experiment knows.
SessionsAreRecorded ==
    \A r \in Requests : core[r] = "session" => \E w \in rows : w.intent = r

\* The paid Checkout, whole: one answer a key or landing page, every answer and
\* every Session attributed (findPaidAcquisitionCheckoutReplay).
PaidCheckoutHolds == KeysConverge /\ AnswersAreAttributed /\ SessionsAreRecorded
=============================================================================

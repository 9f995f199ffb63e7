---------------------------- MODULE WebSessions ----------------------------
(***************************************************************************)
(* Google sign-in and the accounts it meets (api/auth/google/start.ts,       *)
(* callback.ts, api/auth/logout.ts and what they call of                     *)
(* api/_lib/account.ts; findOrCreateAccountForStripeCustomer).               *)
(*                                                                           *)
(* One browser signs in from several tabs: a request reads the cookies when  *)
(* it is sent and changes them when it is answered.  A Stripe delivery finds *)
(* or makes the account of a customer, under the same lock of the email, in  *)
(* the same table.  Neither of the two looks for the accounts that the other *)
(* has renamed.                                                              *)
(***************************************************************************)
EXTENDS Naturals, Sequences, FiniteSets

CONSTANTS
    Attempts,      \* sign-ins of the browser
    Deliveries,    \* Stripe events and return pages of a customer's Checkout
    Identities,    \* pairs of a Google subject and the email it presents
    Customers, Emails,
    Handoffs,      \* signed acquisitions of a mailed link
    MaxAccounts,   \* bound: accounts
    MaxMishaps,    \* bound: failures, expiries, forgotten cookies
    None

VARIABLES
    account,    \* rows: Google subject, email, Stripe customer; renamed or not
    recent,     \* the rows by their last update, the newest last
    lock,       \* holder of each advisory lock
    attempt, delivery,
    cookie,     \* the browser's: OAuth state, acquisition, session
    session,    \* the session row of each sign-in
    logout,
    root,       \* acquisitions
    credited,   \* acquisitions on which an account's sign-in is recorded
    mishaps

vars == <<account, recent, lock, attempt, delivery, cookie, session, logout, root, credited, mishaps>>

Subs == {i[1] : i \in Identities}
Rows == DOMAIN account
Roots == Attempts \cup Handoffs
AttemptStages == {"idle", "starting", "google", "exchange", "lock", "link", "insert",
                  "credit", "open", "answer", "failed", "refused", "over", "signed"}
DeliveryStages == {"idle", "customer", "email", "find", "claim", "insert", "over"}

\* An email and a subject are what Google and Stripe present, never nothing.
SignInAssumption ==
    /\ MaxAccounts \in Nat /\ MaxMishaps \in Nat /\ Attempts \cap Deliveries = {}
    /\ None \notin Attempts /\ None \notin Deliveries /\ None \notin Subs
    /\ None \notin Emails /\ None \notin Customers
    /\ \A i \in Identities : i[2] \in Emails

TypeOK ==
    /\ account \in Seq([sub : Subs \cup {None}, email : Emails,
                        customer : Customers \cup {None}, renamed : BOOLEAN])
    /\ Len(account) <= MaxAccounts /\ recent \in Seq(Rows) /\ Len(recent) = Len(account)
    /\ {recent[i] : i \in DOMAIN recent} = Rows
    /\ lock \in [Emails \cup Customers -> Attempts \cup Deliveries \cup {None}]
    /\ attempt \in [Attempts -> [at : AttemptStages, root : Roots \cup {None}, sub : Subs \cup {None},
                                 email : Emails \cup {None}, account : 0..MaxAccounts]]
    /\ delivery \in [Deliveries -> [at : DeliveryStages, customer : Customers \cup {None},
                                    email : Emails \cup {None}]]
    /\ cookie \in [state : Attempts \cup {None}, visit : Roots \cup {None}, session : Attempts \cup {None}]
    /\ session \in [Attempts -> {"none", "live", "revoked", "expired"}]
    /\ logout \in [at : {"idle", "answer", "over"}, token : Attempts \cup {None}]
    /\ root \in [Roots -> {"none", "intact", "quarantined"}]
    /\ credited \subseteq Roots \X Rows
    /\ mishaps \in 0..MaxMishaps

Init ==
    /\ account = <<>> /\ recent = <<>>
    /\ lock = [k \in Emails \cup Customers |-> None]
    /\ attempt = [t \in Attempts |-> [at |-> "idle", root |-> None, sub |-> None, email |-> None, account |-> 0]]
    /\ delivery = [d \in Deliveries |-> [at |-> "idle", customer |-> None, email |-> None]]
    /\ cookie = [state |-> None, visit |-> None, session |-> None]
    /\ session = [t \in Attempts |-> "none"]
    /\ logout = [at |-> "idle", token |-> None]
    /\ root = [r \in Roots |-> "none"]
    /\ credited = {} /\ mishaps = 0

accountVars == <<account, recent, lock>>
browserVars == <<cookie, session, logout, root, credited>>
Goto(t, at) == attempt' = [attempt EXCEPT ![t].at = at]
GotoD(d, at) == delivery' = [delivery EXCEPT ![d].at = at]
Mishap == mishaps < MaxMishaps /\ mishaps' = mishaps + 1

-----------------------------------------------------------------------------
(* The accounts table. *)

Place(a) == CHOOSE i \in DOMAIN recent : recent[i] = a
Newest(rows) == CHOOSE a \in rows : \A b \in rows : Place(b) <= Place(a)
Touched(a) ==
    [i \in DOMAIN recent |-> IF i < Place(a) THEN recent[i]
                             ELSE IF i < Len(recent) THEN recent[i + 1] ELSE a]

Update(a, row) == account' = [account EXCEPT ![a] = row] /\ recent' = Touched(a)
Added(row) ==
    /\ Len(account) < MaxAccounts
    /\ account' = Append(account, [row EXCEPT !.renamed = FALSE])
    /\ recent' = Append(recent, Len(account) + 1)
Renamed(a, email) ==
    [account[a] EXCEPT !.email = email, !.renamed = @ \/ email # account[a].email]

Owning(sub) == {a \in Rows : account[a].sub = sub}
CustomerOf(c) == {a \in Rows : account[a].customer = c}

\* Mutant: the email is not locked.
FreeAlways(key) == key \in DOMAIN lock

\* pg_advisory_xact_lock: until the commit or the rollback.
Free(key) == lock[key] = None
Taken(key, who) == lock' = [lock EXCEPT ![key] = who]
Released(who) == lock' = [k \in DOMAIN lock |-> IF lock[k] = who THEN None ELSE lock[k]]

-----------------------------------------------------------------------------
(* Signing in. *)

\* getSession
Authenticated == cookie.session # None /\ session[cookie.session] = "live"

\* resolveRequiredCheckoutAcquisition: the cookie's acquisition, else that of a
\* signed handoff, else a root of its own; one that is quarantined is none.
Visit(t, handoff) ==
    IF cookie.visit # None THEN cookie.visit ELSE IF handoff # None THEN handoff ELSE t
Ensured(r) == root' = [root EXCEPT ![r] = IF @ = "none" THEN "intact" ELSE @]

\* A browser that is signed in is sent on, unless it asked to choose an account.
Start(t, handoff) ==
    /\ attempt[t].at = "idle"
    /\ \/ Authenticated /\ Goto(t, "over") /\ UNCHANGED root
       \/ LET r == Visit(t, handoff) IN
          /\ Ensured(r)
          /\ attempt' = [attempt EXCEPT ![t].at = "starting",
                                        ![t].root = IF root[r] = "quarantined" THEN None ELSE r]
    /\ UNCHANGED <<accountVars, delivery, cookie, session, logout, credited, mishaps>>

StartAnswered(t) ==
    LET r == attempt[t].root IN
    /\ attempt[t].at = "starting" /\ Goto(t, "google")
    /\ cookie' = [cookie EXCEPT !.state = t, !.visit = IF r # None THEN r ELSE @]
    /\ UNCHANGED <<accountVars, delivery, session, logout, root, credited, mishaps>>

\* Google sends the browser back: the state must be that of the cookie, which
\* the last start of any tab wrote and the answer of any callback clears.
Callback(t) ==
    /\ attempt[t].at = "google"
    /\ IF cookie.state = t THEN Goto(t, "exchange") /\ UNCHANGED cookie
       ELSE Goto(t, "refused") /\ cookie' = [cookie EXCEPT !.state = None]
    /\ UNCHANGED <<accountVars, delivery, session, logout, root, credited, mishaps>>

\* exchangeGoogleCode: a verified email or nothing.
Exchange(t, identity) ==
    /\ attempt[t].at = "exchange"
    /\ attempt' = [attempt EXCEPT ![t].at = "lock", ![t].sub = identity[1], ![t].email = identity[2]]
    /\ UNCHANGED <<accountVars, delivery, browserVars, mishaps>>

LockEmail(t) ==
    /\ attempt[t].at = "lock" /\ Free(attempt[t].email)
    /\ Taken(attempt[t].email, t) /\ Goto(t, "link")
    /\ UNCHANGED <<account, recent, delivery, browserVars, mishaps>>

\* Mutant: any account of the email.
LinkableToAny(email) == {a \in Rows : account[a].email = email}

\* The accounts a sign-in may take over: those a purchase has made.
Linkable(email) == {a \in Rows : account[a].email = email /\ account[a].sub = None}

Committed(t, a) ==
    /\ attempt' = [attempt EXCEPT ![t].at = "credit", ![t].account = a] /\ Released(t)

\* upsertGoogleAccount, the update: the newest of them gets the subject, which
\* no other account may have.
Link(t) ==
    LET sub == attempt[t].sub  rows == Linkable(attempt[t].email) IN
    /\ attempt[t].at = "link"
    /\ IF rows = {} THEN Goto(t, "insert") /\ UNCHANGED accountVars
       ELSE IF Owning(sub) \ {Newest(rows)} # {}
       THEN Goto(t, "failed") /\ Released(t) /\ UNCHANGED <<account, recent>>
       ELSE /\ Update(Newest(rows), [account[Newest(rows)] EXCEPT !.sub = sub])
            /\ Committed(t, Newest(rows))
    /\ UNCHANGED <<delivery, browserVars, mishaps>>

\* The insert: an account that has the subject gets the email instead.
Insert(t) ==
    LET sub == attempt[t].sub  email == attempt[t].email IN
    /\ attempt[t].at = "insert"
    /\ \/ \E a \in Owning(sub) : Update(a, Renamed(a, email)) /\ Committed(t, a)
       \/ /\ Owning(sub) = {}
          /\ Added([sub |-> sub, email |-> email, customer |-> None, renamed |-> FALSE])
          /\ Committed(t, Len(account) + 1)
    /\ UNCHANGED <<delivery, browserVars, mishaps>>

\* Mutant: credited to the acquisition of the browser's cookie.
CreditedTo(t) == cookie.visit
Credited(t) == attempt[t].root

\* completeGoogleAuthenticationAcquisition: the acquisition of this sign-in's
\* start is credited, and its failure is nobody's.
Credit(t) ==
    LET r == Credited(t)  ok == r # None /\ root[r] = "intact" IN
    /\ attempt[t].at = "credit"
    /\ credited' = IF ok THEN credited \cup {<<r, attempt[t].account>>} ELSE credited
    /\ attempt' = [attempt EXCEPT ![t].at = "open", ![t].root = IF ok THEN @ ELSE None]
    /\ UNCHANGED <<accountVars, delivery, cookie, session, logout, root, mishaps>>

\* createWebSession: the browser's earlier session stays as it was.
Open(t) ==
    /\ attempt[t].at = "open" /\ Goto(t, "answer")
    /\ session' = [session EXCEPT ![t] = "live"]
    /\ UNCHANGED <<accountVars, delivery, cookie, logout, root, credited, mishaps>>

Answer(t) ==
    LET r == attempt[t].root IN
    /\ \/ /\ attempt[t].at = "answer" /\ Goto(t, "signed")
          /\ cookie' = [state |-> None, visit |-> IF r # None THEN r ELSE cookie.visit, session |-> t]
       \/ attempt[t].at = "failed" /\ Goto(t, "over") /\ cookie' = [cookie EXCEPT !.state = None]
    /\ UNCHANGED <<accountVars, delivery, session, logout, root, credited, mishaps>>

\* A statement or a call fails and the transaction with it.
Fail(t) ==
    /\ attempt[t].at \in {"exchange", "lock", "link", "insert", "open"} /\ Mishap
    /\ Goto(t, "failed") /\ Released(t)
    /\ UNCHANGED <<account, recent, delivery, browserVars>>

\* Mutant: the cookie is dropped and the session stays.
RevokedNever(t) == session

\* clearWebSession: revoked by the token of the request, and answered.
Revoked(t) == IF t = None THEN session ELSE [session EXCEPT ![t] = "revoked"]
Logout ==
    /\ logout.at = "idle"
    /\ logout' = [at |-> "answer", token |-> cookie.session]
    /\ session' = Revoked(cookie.session)
    /\ UNCHANGED <<accountVars, attempt, delivery, cookie, root, credited, mishaps>>
LogoutAnswered ==
    /\ logout.at = "answer"
    /\ logout' = [logout EXCEPT !.at = "over"]
    /\ cookie' = [cookie EXCEPT !.session = None]
    /\ UNCHANGED <<accountVars, attempt, delivery, session, root, credited, mishaps>>

-----------------------------------------------------------------------------
(* A customer's account. *)

Deliver(d, c, email) ==
    /\ delivery[d].at = "idle"
    /\ delivery' = [delivery EXCEPT ![d] = [at |-> "customer", customer |-> c, email |-> email]]
    /\ UNCHANGED <<accountVars, attempt, browserVars, mishaps>>

LockCustomer(d) ==
    /\ delivery[d].at = "customer" /\ Free(delivery[d].customer)
    /\ Taken(delivery[d].customer, d)
    /\ GotoD(d, IF delivery[d].email = None THEN "find" ELSE "email")
    /\ UNCHANGED <<account, recent, attempt, browserVars, mishaps>>
LockAccount(d) ==
    /\ delivery[d].at = "email" /\ Free(delivery[d].email)
    /\ Taken(delivery[d].email, d) /\ GotoD(d, "find")
    /\ UNCHANGED <<account, recent, attempt, browserVars, mishaps>>

\* An account that has the customer gets the email of the delivery.
ByCustomer(d) ==
    LET c == delivery[d].customer  email == delivery[d].email IN
    /\ delivery[d].at = "find"
    /\ IF CustomerOf(c) = {}
       THEN /\ UNCHANGED <<account, recent>>
            /\ IF email = None THEN GotoD(d, "over") /\ Released(d)
               ELSE GotoD(d, "claim") /\ UNCHANGED lock
       ELSE /\ GotoD(d, "over") /\ Released(d)
            /\ \E a \in CustomerOf(c) :
                 IF email = None THEN UNCHANGED <<account, recent>> ELSE Update(a, Renamed(a, email))
    /\ UNCHANGED <<attempt, browserVars, mishaps>>

\* Else the newest account of the email, one without a customer first, gets the
\* customer, in the place of its own if it has one.
ByEmail(d) ==
    LET c == delivery[d].customer
        rows == {a \in Rows : account[a].email = delivery[d].email}
        free == {a \in rows : account[a].customer = None}
        a == Newest(IF free # {} THEN free ELSE rows) IN
    /\ delivery[d].at = "claim"
    /\ IF rows = {} THEN GotoD(d, "insert") /\ UNCHANGED accountVars
       ELSE GotoD(d, "over") /\ Released(d) /\ Update(a, [account[a] EXCEPT !.customer = c])
    /\ UNCHANGED <<attempt, browserVars, mishaps>>

InsertCustomer(d) ==
    /\ delivery[d].at = "insert" /\ GotoD(d, "over") /\ Released(d)
    /\ Added([sub |-> None, email |-> delivery[d].email, customer |-> delivery[d].customer, renamed |-> FALSE])
    /\ UNCHANGED <<attempt, browserVars, mishaps>>

\* createStripeCustomerForSession, in the Checkout of whoever is signed in.
OwnCustomer(c) ==
    LET a == attempt[cookie.session].account IN
    /\ Authenticated /\ account[a].customer = None
    /\ CustomerOf(c) = {} /\ \A d \in Deliveries : delivery[d].customer # c
    /\ Update(a, [account[a] EXCEPT !.customer = c])
    /\ UNCHANGED <<lock, attempt, delivery, browserVars, mishaps>>

\* A session ends, an acquisition is quarantined, the browser forgets its visit.
Lapse ==
    /\ Mishap
    /\ \/ \E t \in Attempts : session[t] = "live" /\ session' = [session EXCEPT ![t] = "expired"]
          /\ UNCHANGED <<root, cookie>>
       \/ \E r \in Roots : root[r] = "intact" /\ root' = [root EXCEPT ![r] = "quarantined"]
          /\ UNCHANGED <<session, cookie>>
       \/ cookie.visit # None /\ cookie' = [cookie EXCEPT !.visit = None] /\ UNCHANGED <<session, root>>
    /\ UNCHANGED <<accountVars, attempt, delivery, logout, credited>>

SignIn(t) ==
    \/ \E h \in Handoffs \cup {None} : Start(t, h)
    \/ StartAnswered(t) \/ Callback(t) \/ (\E i \in Identities : Exchange(t, i))
    \/ LockEmail(t) \/ Link(t) \/ Insert(t) \/ Credit(t) \/ Open(t) \/ Answer(t) \/ Fail(t)
Delivered(d) ==
    \/ \E c \in Customers, e \in Emails \cup {None} : Deliver(d, c, e)
    \/ LockCustomer(d) \/ LockAccount(d) \/ ByCustomer(d) \/ ByEmail(d) \/ InsertCustomer(d)
Next ==
    \/ \E t \in Attempts : SignIn(t)
    \/ \E d \in Deliveries : Delivered(d)
    \/ Logout \/ LogoutAnswered \/ Lapse \/ \E c \in Customers : OwnCustomer(c)

Spec == Init /\ [][Next]_vars
-----------------------------------------------------------------------------
\* A session authenticates the Google subject that signed in, whatever happens
\* to its account later.
SessionIsTheSigners ==
    \A t \in Attempts : session[t] # "none" => account[attempt[t].account].sub = attempt[t].sub

\* A purchase and a sign-in with one email meet in one account, in either order
\* and at once; only an account that was given another email later may double.
PurchaseMeetsSigner ==
    \A a, b \in Rows : a # b /\ account[a].email = account[b].email =>
        \/ account[a].renamed \/ account[b].renamed
        \/ account[a].sub # None /\ account[b].sub # None

\* No sign-in of two that nothing disturbs fails, unless the email of an account
\* was changed: by its customer's next Checkout, or at Google.
FailsForReason ==
    \A t \in Attempts : attempt[t].at = "failed" /\ mishaps = 0 =>
        \E a \in Rows :
            account[a].renamed \/ (account[a].sub = attempt[t].sub /\ account[a].email # attempt[t].email)

\* A sign-in is credited to the acquisition that its own start found, although
\* other tabs start and finish in between.
CreditIsTheStarts ==
    \A p \in credited : \E t \in Attempts : attempt[t].root = p[1] /\ attempt[t].account = p[2]

\* The session that a logout presented authenticates nobody once it is answered.
LoggedOutIsOut ==
    logout.at = "over" /\ logout.token # None => session[logout.token] # "live"

\* What sign-in promises.
SignInCorrect ==
    /\ SessionIsTheSigners /\ PurchaseMeetsSigner /\ FailsForReason
    /\ CreditIsTheStarts /\ LoggedOutIsOut
=============================================================================

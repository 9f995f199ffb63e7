---------------------------- MODULE CreditWallet ----------------------------
(***************************************************************************)
(* The server-authoritative download credits of api/_lib/download-credits.ts*)
(* in one licence namespace: installation wallets, reservations, the credit *)
(* ledger, pack purchases through Stripe Checkout, and the binding of an    *)
(* installation to an account's wallet that MCP consent performs.           *)
(*                                                                          *)
(* Every credit operation is one Postgres transaction that holds the wallet *)
(* row (and the advisory lock of the device) from its first read to its     *)
(* commit, so an operation is one atomic action.  A purchase is not: the    *)
(* wallet id is read, Stripe makes a session of it, the customer pays, and  *)
(* a webhook grants the pack, with any other operation in between.          *)
(*                                                                          *)
(* A wallet is named by the device whose hash it was created under, which   *)
(* the table keeps unique.  SIDESTREAM_DOWNLOAD_REFERRALS_MODE is "off", its*)
(* default: the referral branches of the operations are not taken.          *)
(***************************************************************************)
EXTENDS Integers, FiniteSets, FiniteSetsExt

CONSTANTS
    Devices,      \* hashes of installation identities
    Accounts,     \* signed-in accounts
    Keys,         \* reservation keys a client makes up and repeats on retry
    Requests,     \* purchase request keys
    Starter,      \* STARTER_DOWNLOAD_CREDITS
    Cost,         \* DOWNLOAD_CREDIT_COSTS, equal for video and audio
    Pack,         \* credits of the configured pack
    LegacyUses,   \* legacy usage a first sync may report, already clamped
    NoAccount

ASSUME CreditAssumption ==
    /\ IsFiniteSet(Keys) /\ IsFiniteSet(Requests)
    /\ Starter \in Nat /\ Cost \in Nat \ {0} /\ Pack \in Nat \ {0}
    /\ LegacyUses \subseteq 0..Starter /\ 0 \in LegacyUses
    /\ NoAccount \notin Accounts

VARIABLES
    wallets,      \* rows of sidestream_credit_wallets
    row,          \* their columns
    alias,        \* sidestream_mcp_wallet_devices: the account a device is bound to
    reservation,  \* status of each (wallet, key), "none" when there is no row
    overdue,      \* reserved (wallet, key) pairs whose expires_at has passed
    session,      \* Stripe's Checkout Session of each (wallet, request key)
    quoted,       \* <<d, w, r>>: device d's purchase request r read wallet id w
    ledger        \* rows of sidestream_credit_ledger

vars == <<wallets, row, alias, reservation, overdue, session, quoted, ledger>>

Statuses == {"none", "reserved", "committed", "released", "expired"}

Rows == [available : Nat, granted : Nat, spent : Nat,
         account : Accounts \cup {NoAccount}]

NoRow == [available |-> 0, granted |-> 0, spent |-> 0, account |-> NoAccount]

Entry(w, key, delta) == [wallet |-> w, key |-> key, delta |-> delta]

TypeOK ==
    /\ wallets \subseteq Devices
    /\ row \in [Devices -> Rows]
    /\ alias \in [Devices -> Accounts \cup {NoAccount}]
    /\ reservation \in [Devices -> [Keys -> Statuses]]
    /\ overdue \subseteq Devices \X Keys
    /\ session \in [Devices -> [Requests -> {"none", "open", "paid"}]]
    /\ quoted \subseteq Devices \X Devices \X Requests
    /\ \A e \in ledger : e.wallet \in wallets /\ e.delta \in Int

Init ==
    /\ wallets = {}
    /\ row = [w \in Devices |-> NoRow]
    /\ alias = [d \in Devices |-> NoAccount]
    /\ reservation = [w \in Devices |-> [k \in Keys |-> "none"]]
    /\ overdue = {}
    /\ session = [w \in Devices |-> [r \in Requests |-> "none"]]
    /\ quoted = {}
    /\ ledger = {}

-----------------------------------------------------------------------------
\* The wallet an operation works on.

AccountWallets(a) == {w \in wallets : row[w].account = a}

\* selectWallet: the account's wallet through the alias, else the device's own.
DeviceWallets(d) ==
    IF alias[d] # NoAccount /\ AccountWallets(alias[d]) # {}
    THEN AccountWallets(alias[d]) ELSE {d}

Reserved(w) == {k \in Keys : reservation[w][k] = "reserved"}

Due(w) == {k \in Keys : <<w, k>> \in overdue}

\* releaseExpiredReservations, which every operation on a wallet runs first.
Released(w) == [row[w] EXCEPT !.available = @ + Cost * Cardinality(Due(w))]

Settled(w) ==
    [k \in Keys |-> IF k \in Due(w) THEN "expired" ELSE reservation[w][k]]

ExpiryEntries(w) == {Entry(w, <<"expire", k>>, Cost) : k \in Due(w)}

\* lockOrCreateWallet: the row to work on and what opening it writes.
Opened(w, used) ==
    IF w \in wallets THEN Released(w)
    ELSE [available |-> Starter - used, granted |-> Starter, spent |-> used,
          account |-> NoAccount]

OpeningEntries(w, used) ==
    IF w \in wallets THEN ExpiryEntries(w)
    ELSE {Entry(w, <<"starter", w>>, Starter)}
         \cup (IF used > 0 THEN {Entry(w, <<"legacy", w>>, -used)} ELSE {})

\* The commit of a transaction that settled w and then changed it.
Write(w, newRow, newReservation, entries) ==
    /\ wallets' = wallets \cup {w}
    /\ row' = [row EXCEPT ![w] = newRow]
    /\ reservation' = [reservation EXCEPT ![w] = newReservation]
    /\ overdue' = {p \in overdue : p[1] # w}
    /\ ledger' = ledger \cup entries

Touch(w, used) == Write(w, Opened(w, used), Settled(w), OpeningEntries(w, used))

-----------------------------------------------------------------------------
\* synchronizeDownloadCredits, for a device and for an authenticated account.
Sync(d, used) ==
    /\ \E w \in DeviceWallets(d) : Touch(w, used)
    /\ UNCHANGED <<alias, session, quoted>>

SyncAccount(a) ==
    /\ \E w \in AccountWallets(a) : Touch(w, 0)
    /\ UNCHANGED <<alias, session, quoted>>

\* reserveDownloadCredits: a known key answers with its status, a new one is
\* admitted when the balance covers it.
\* Mutant: the balance check forgotten.
AdmissibleUnpaid(w, k) == Settled(w)[k] = "none"

Admissible(w, k) == Settled(w)[k] = "none" /\ Opened(w, 0).available >= Cost

ReserveOn(w, k) ==
    LET r == Opened(w, 0) IN
    \/ /\ Admissible(w, k)
       /\ Write(w, [r EXCEPT !.available = @ - Cost],
                [Settled(w) EXCEPT ![k] = "reserved"],
                OpeningEntries(w, 0) \cup {Entry(w, <<"reserve", k>>, -Cost)})
    \/ ~Admissible(w, k) /\ Touch(w, 0)

Reserve(d, k) ==
    /\ \E w \in DeviceWallets(d) : ReserveOn(w, k)
    /\ UNCHANGED <<alias, session, quoted>>

ReserveForAccount(a, k) ==
    /\ \E w \in AccountWallets(a) : ReserveOn(w, k)
    /\ UNCHANGED <<alias, session, quoted>>

\* finalizeDownloadCredits: only a reservation still reserved after the expiry
\* pass takes the outcome; any other answers with its status, or not_found.
Commit(w, k) ==
    Write(w, [Released(w) EXCEPT !.spent = @ + Cost],
          [Settled(w) EXCEPT ![k] = "committed"],
          ExpiryEntries(w) \cup {Entry(w, <<"commit", k>>, 0)})

Release(w, k) ==
    Write(w, [Released(w) EXCEPT !.available = @ + Cost],
          [Settled(w) EXCEPT ![k] = "released"],
          ExpiryEntries(w) \cup {Entry(w, <<"release", k>>, Cost)})

\* Mutants: the status read before the expiry pass; the status not looked at.
FinalizableBeforeExpiry(w, k) == reservation[w][k] = "reserved"

FinalizableAnyStatus(w, k) == reservation[w][k] # "none"

Finalizable(w, k) == Settled(w)[k] = "reserved"

FinalizeOn(w, k, outcome) ==
    \/ Finalizable(w, k) /\ outcome = "committed" /\ Commit(w, k)
    \/ Finalizable(w, k) /\ outcome = "released" /\ Release(w, k)
    \/ ~Finalizable(w, k) /\ Touch(w, 0)

Finalize(d, k, outcome) ==
    /\ \E w \in DeviceWallets(d) \cap wallets : FinalizeOn(w, k, outcome)
    /\ UNCHANGED <<alias, session, quoted>>

FinalizeForAccount(a, k, outcome) ==
    /\ \E w \in AccountWallets(a) : FinalizeOn(w, k, outcome)
    /\ UNCHANGED <<alias, session, quoted>>

-----------------------------------------------------------------------------
\* createDownloadCreditPackCheckout: the wallet id is read (and the wallet
\* opened, without an expiry pass) in a transaction of its own ...
QuotePack(d, r) ==
    /\ \E w \in DeviceWallets(d) :
         /\ <<d, w, r>> \notin quoted
         /\ quoted' = quoted \cup {<<d, w, r>>}
         /\ IF w \in wallets THEN UNCHANGED <<wallets, row, ledger>>
            ELSE /\ wallets' = wallets \cup {w}
                 /\ row' = [row EXCEPT ![w] = Opened(w, 0)]
                 /\ ledger' = ledger \cup OpeningEntries(w, 0)
    /\ UNCHANGED <<alias, reservation, overdue, session>>

\* ... and then Stripe is asked for a session; its idempotency key is made of
\* the wallet id and the request key, so a repeated request gets the same one.
CreateSession(w, r) ==
    /\ \E d \in Devices : <<d, w, r>> \in quoted
    /\ session[w][r] = "none"
    /\ session' = [session EXCEPT ![w][r] = "open"]
    /\ UNCHANGED <<wallets, row, alias, reservation, overdue, quoted, ledger>>

\* The customer pays Stripe.
Pay(w, r) ==
    /\ session[w][r] = "open"
    /\ session' = [session EXCEPT ![w][r] = "paid"]
    /\ UNCHANGED <<wallets, row, alias, reservation, overdue, quoted, ledger>>

PurchaseEntry(w, r) == Entry(w, <<"purchase", w, r>>, Pack)

\* fulfillDownloadCreditPackCheckout for every delivery of a paid session's
\* events, repeated ones too: the grant goes to the wallet id in the session.
Granted(w, r) == \E e \in ledger : e.key = <<"purchase", w, r>>

Grant(w, r) ==
    /\ row' = [row EXCEPT ![w].available = @ + Pack, ![w].granted = @ + Pack]
    /\ ledger' = ledger \cup {PurchaseEntry(w, r)}
    /\ UNCHANGED <<wallets, alias, reservation, overdue, session, quoted>>

\* Mutant: a redelivered event grants again.
FulfillEveryDelivery(w, r) ==
    /\ session[w][r] = "paid"
    /\ w \in wallets
    /\ Grant(w, r)

Fulfill(w, r) ==
    /\ session[w][r] = "paid"
    /\ w \in wallets
    /\ ~Granted(w, r)
    /\ Grant(w, r)

-----------------------------------------------------------------------------
\* bindDownloadCreditAccount inside the consent transaction of mcp.ts, which
\* ends with a sync of the account's wallet.  A refusal rolls everything back.

\* The account has no wallet yet: the installation's becomes the account's.
\* Mutant: whether the account already owns a wallet is not looked up.
BindFirstUnchecked(a, d) ==
    /\ alias[d] = NoAccount
    /\ row[d].account = NoAccount
    /\ alias' = [alias EXCEPT ![d] = a]
    /\ Write(d, [Opened(d, 0) EXCEPT !.account = a], Settled(d),
             OpeningEntries(d, 0))
    /\ UNCHANGED <<session, quoted>>

BindFirst(a, d) ==
    /\ alias[d] = NoAccount
    /\ AccountWallets(a) = {}
    /\ row[d].account = NoAccount
    /\ alias' = [alias EXCEPT ![d] = a]
    /\ Write(d, [Opened(d, 0) EXCEPT !.account = a], Settled(d),
             OpeningEntries(d, 0))
    /\ UNCHANGED <<session, quoted>>

\* The account has a wallet and the installation none: only the alias is made.
BindNew(a, d) ==
    /\ alias[d] = NoAccount
    /\ d \notin wallets
    /\ alias' = [alias EXCEPT ![d] = a]
    /\ \E w \in AccountWallets(a) : Touch(w, 0)
    /\ UNCHANGED <<session, quoted>>

\* Both have one: usage of the installation is imported into the account's
\* wallet, its unused allowance is left behind.
\* Mutant: open reservations of the installation are not looked for.
MayMergeWithPending(o, d) ==
    /\ row[d].spent > 0 => Reserved(o) = {}
    /\ row[d].granted <= Starter

MayMerge(o, d) ==
    /\ \A k \in Keys : Settled(d)[k] # "reserved"
    /\ row[d].spent > 0 => Reserved(o) = {}
    /\ row[d].granted <= Starter

Imported(o, d) ==
    IF row[o].available < row[d].spent THEN row[o].available ELSE row[d].spent

\* Mutant: the ledger entry carries the usage, the wallet what it could bear.
UsageEntriesUncapped(o, d) ==
    IF row[d].spent > 0
    THEN {Entry(o, <<"usage", d>>, -row[d].spent)} ELSE {}

UsageEntries(o, d) ==
    IF Imported(o, d) > 0
    THEN {Entry(o, <<"usage", d>>, -Imported(o, d))} ELSE {}

BindExisting(a, d) ==
    /\ alias[d] = NoAccount
    /\ d \in wallets
    /\ row[d].account = NoAccount
    /\ \E o \in AccountWallets(a) :
         /\ MayMerge(o, d)
         /\ row' = [row EXCEPT
              ![d] = Released(d),
              ![o] = [Released(o) EXCEPT !.available = @ - Imported(o, d),
                                         !.spent = @ + Imported(o, d)]]
         /\ reservation' = [reservation EXCEPT ![d] = Settled(d),
                                               ![o] = Settled(o)]
         /\ overdue' = {p \in overdue : p[1] \notin {d, o}}
         /\ ledger' = ledger \cup ExpiryEntries(d) \cup ExpiryEntries(o)
                             \cup UsageEntries(o, d)
    /\ alias' = [alias EXCEPT ![d] = a]
    /\ UNCHANGED <<wallets, session, quoted>>

\* Seven days pass over a reservation.
Lapse(w, k) ==
    /\ reservation[w][k] = "reserved"
    /\ overdue' = overdue \cup {<<w, k>>}
    /\ UNCHANGED <<wallets, row, alias, reservation, session, quoted, ledger>>

-----------------------------------------------------------------------------
Next ==
    \/ \E d \in Devices, used \in LegacyUses : Sync(d, used)
    \/ \E a \in Accounts : SyncAccount(a)
    \/ \E d \in Devices, k \in Keys : Reserve(d, k)
    \/ \E a \in Accounts, k \in Keys : ReserveForAccount(a, k)
    \/ \E d \in Devices, k \in Keys, outcome \in {"committed", "released"} :
         Finalize(d, k, outcome)
    \/ \E a \in Accounts, k \in Keys, outcome \in {"committed", "released"} :
         FinalizeForAccount(a, k, outcome)
    \/ \E d \in Devices, r \in Requests : QuotePack(d, r)
    \/ \E w \in Devices, r \in Requests : CreateSession(w, r)
    \/ \E w \in Devices, r \in Requests : Pay(w, r)
    \/ \E w \in Devices, r \in Requests : Fulfill(w, r)
    \/ \E a \in Accounts, d \in Devices : BindFirst(a, d)
    \/ \E a \in Accounts, d \in Devices : BindNew(a, d)
    \/ \E a \in Accounts, d \in Devices : BindExisting(a, d)
    \/ \E w \in Devices, k \in Keys : Lapse(w, k)

Spec == Init /\ [][Next]_vars

-----------------------------------------------------------------------------
(* Properties *)

\* No credit appears or vanishes: what a wallet was granted is available, held
\* by its open reservations, or spent, whatever mix of reservations, retries,
\* expiries, imports and purchases it went through.
Conservation ==
    \A w \in wallets :
        row[w].available + Cost * Cardinality(Reserved(w)) + row[w].spent
            = row[w].granted

\* The append-only ledger explains every balance: its entries add up to the
\* available credits of the wallet.
LedgerExplainsBalance ==
    \A w \in wallets :
        MapThenSumSet(LAMBDA e : e.delta, {e \in ledger : e.wallet = w})
            = row[w].available

\* A paid session is granted once however often its events arrive: a wallet
\* holds one starter grant and one pack for each of its granted sessions.
GrantedOncePerSession ==
    \A w \in wallets :
        row[w].granted = Starter
            + Pack * Cardinality({r \in Requests : Granted(w, r)})

\* A wallet that its own device no longer reaches holds no open reservation: a
\* download admitted before the binding can still be finalized after it.
NoReservationLeftBehind ==
    \A d \in wallets : d \notin DeviceWallets(d) => Reserved(d) = {}

\* A bound device always finds its account's wallet, exactly one, so no
\* operation of it falls back to an installation wallet and a second starter.
BoundDeviceHasAccountWallet ==
    \A d \in Devices : alias[d] # NoAccount =>
        \E w \in wallets : AccountWallets(alias[d]) = {w}

\* A finished reservation keeps its outcome: neither a late finalize, an expiry
\* pass nor a binding turns a commit into a refund or the other way round.
OutcomeIsFinal ==
    [][\A w \in Devices, k \in Keys :
          reservation[w][k] \in {"committed", "released", "expired"}
              => reservation'[w][k] = reservation[w][k]]_vars

\* The installation that bought a pack can use it: the wallet the pack was
\* granted to is the one its device reaches.
PurchaseReachesBuyer ==
    \A q \in quoted :
        Granted(q[2], q[3]) => q[2] \in DeviceWallets(q[1])
=============================================================================

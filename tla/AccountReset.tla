---------------------------- MODULE AccountReset ----------------------------
(***************************************************************************)
(* The reset of the fixed test customer in Production                       *)
(* (scripts/reset-alex-upgrade-state.mjs).                                  *)
(*                                                                          *)
(* A run lists the Stripe Customers that bear the test identity's           *)
(* addresses, follows every edge from them and from its accounts to the     *)
(* rows that are its own, refuses when the closure touches another          *)
(* customer, deletes the closure in one serializable transaction, and only  *)
(* then deletes the Customers in Stripe, one call after the other.  The     *)
(* site goes on meanwhile, and a run may die between any two of its steps.  *)
(*                                                                          *)
(* Rows that hang from one parent and go with it (tokens, devices, stages,  *)
(* claims, commerce, usage) are left out, and so are the selectors of the   *)
(* command line, the connection and the recovery branch.                    *)
(***************************************************************************)
EXTENDS Naturals, FiniteSets

CONSTANTS
    Accounts, Customers, Licences, Activations, Intents, Profiles,
    TestAccounts, TestCustomers,   \* those with the identity's addresses
    None, AbsentRow

Identity == Accounts \cup Customers \cup Activations

VARIABLES
    account,     \* the Stripe Customer of each account
    licence,     \* its account and Customer
    activation,  \* its account and licence
    intent,      \* its account and Customer
    merged,      \* the profile each one was merged into
    link,        \* the profile of each identity
    stripe,      \* Customers that live in Stripe
    run          \* the reset's own memory

rows == <<account, licence, activation, intent, merged, link>>
vars == <<account, licence, activation, intent, merged, link, stripe, run>>

Idle == [stage |-> "idle", listed |-> {}, closure |-> None]

Has(table) == {x \in DOMAIN table : table[x] # AbsentRow}
TypeOK ==
    /\ \A a \in Has(account) : account[a] \in Customers \cup {None}
    /\ \A l \in Has(licence) : licence[l].account \in Accounts
    /\ \A p \in Has(merged) : merged[p] \in Profiles \cup {None}
    /\ link \in [Identity -> Profiles \cup {None}]
    /\ stripe \subseteq Customers /\ run.listed \subseteq Customers
    /\ run.stage \in {"idle", "listed", "inventoried", "checked", "reset", "clean"}

Init ==
    /\ account = [a \in Accounts |-> AbsentRow] /\ licence = [l \in Licences |-> AbsentRow]
    /\ activation = [a \in Activations |-> AbsentRow] /\ intent = [i \in Intents |-> AbsentRow]
    /\ merged = [p \in Profiles |-> AbsentRow] /\ link = [i \in Identity |-> None]
    /\ stripe = {} /\ run = Idle

-----------------------------------------------------------------------------
(* The closure: inventoryFreshPaidClosure *)

AccountsWith(customers) == {a \in Has(account) : account[a] \in customers}
LicencesOf(accounts, customers) ==
    {l \in Has(licence) : licence[l].account \in accounts \/ licence[l].customer \in customers}
ActivationsOf(accounts, licences) ==
    {a \in Has(activation) :
       activation[a].account \in accounts \/ activation[a].licence \in licences}
IntentsOf(accounts, customers) ==
    {i \in Has(intent) : intent[i].account \in accounts \/ intent[i].customer \in customers}

\* profile_closure: over the tombstones, both ways.  Mutant: to the survivors
\* alone.
RelatedUp(ps) == ps \cup ({merged[p] : p \in ps} \ {None, AbsentRow})
Related(ps) ==
    ps \cup ({merged[p] : p \in ps} \ {None, AbsentRow})
       \cup {p \in Has(merged) : merged[p] \in ps}
ProfileClosure(seeds) ==
    LET grown[n \in 0..Cardinality(Profiles)] ==
          IF n = 0 THEN seeds ELSE Related(grown[n - 1])
    IN grown[Cardinality(Profiles)]

Linked(ids) == {link[i] : i \in {j \in ids : link[j] # None}}
LinkedTo(ps, kind) == {i \in kind : link[i] \in ps}

Closure(given) ==
    LET seedAccounts == (Has(account) \cap TestAccounts) \cup AccountsWith(given)
        seedCustomers == given \cup ({account[a] : a \in seedAccounts} \ {None})
        seedLicences == LicencesOf(seedAccounts, seedCustomers)
        seedActivations == ActivationsOf(seedAccounts, seedLicences)
        profiles == ProfileClosure(Linked(seedAccounts \cup seedCustomers \cup seedActivations))
        held == seedCustomers \cup LinkedTo(profiles, Customers)
        accounts == (Has(account) \cap TestAccounts) \cup AccountsWith(held)
        customers == held \cup ({account[a] : a \in accounts} \ {None})
        licences == LicencesOf(accounts, customers)
        activations == ActivationsOf(accounts, licences)
                       \cup (LinkedTo(profiles, Activations) \cap Has(activation)) IN
    [accounts |-> accounts, customers |-> customers, licences |-> licences,
     activations |-> activations, profiles |-> profiles,
     intents |-> IntentsOf(accounts, customers)]

\* assertClosureDoesNotCrossCustomers
ForeignLinks(c) ==
    \/ LinkedTo(c.profiles, Accounts) \ c.accounts # {}
    \/ LinkedTo(c.profiles, Customers) \ c.customers # {}
    \/ LinkedTo(c.profiles, Activations) \ c.activations # {}
\* Mutant: an activation is taken with the profile it is linked to.
ForeignOwnersFew(c) ==
    \/ c.accounts \ TestAccounts # {}
    \/ \E l \in c.licences : licence[l].account \notin c.accounts
ForeignOwners(c) ==
    \/ c.accounts \ TestAccounts # {}
    \/ \E l \in c.licences : licence[l].account \notin c.accounts
    \/ \E a \in c.activations : \/ activation[a].account \notin c.accounts \cup {None}
                                \/ activation[a].licence \notin c.licences \cup {None}
    \/ \E i \in c.intents : \/ intent[i].account \notin c.accounts \cup {None}
                            \/ intent[i].customer \notin c.customers \cup {None}
Crosses(c) == ForeignLinks(c) \/ ForeignOwners(c)

-----------------------------------------------------------------------------
(* A run of the tool: main *)

Goto(stage) == run' = [run EXCEPT !.stage = stage]
\* Every refusal and every crash ends the run where it is.
End == run' = Idle

\* listMatchingStripeCustomers
ListCustomers ==
    /\ run.stage = "idle"
    /\ run' = [Idle EXCEPT !.stage = "listed", !.listed = stripe \cap TestCustomers]
    /\ UNCHANGED <<rows, stripe>>

\* In a read-only transaction of its own.
Inventory ==
    /\ run.stage = "listed"
    /\ LET c == Closure(run.listed) IN
       IF Crosses(c) THEN End
       ELSE run' = [run EXCEPT !.stage = "inventoried", !.closure = c]
    /\ UNCHANGED <<rows, stripe>>

\* loadClosureStripeCustomers fetches the closure's other Customers.
\* Mutant: whoever is linked to the identity's profile is taken for its own.
StrangersAmongNone(customers) == FALSE
StrangersAmong(customers) == customers \ TestCustomers # {}
LoadCustomers ==
    /\ run.stage = "inventoried"
    /\ LET live == run.closure.customers \cap (stripe \cup run.listed) IN
       IF StrangersAmong(live) THEN End
       ELSE run' = [run EXCEPT !.stage = "checked", !.listed = live]
    /\ UNCHANGED <<rows, stripe>>

\* Children go before their parents, so that no foreign key refuses.
Without(table, gone) == [x \in DOMAIN table |-> IF x \in gone THEN AbsentRow ELSE table[x]]

\* applyFreshPaidDatabaseReset.  Mutant: the closure is not taken again.
SameClosureAssumed == TRUE
SameClosure == Closure(run.closure.customers) = run.closure
DatabaseReset ==
    /\ run.stage = "checked"
    /\ IF SameClosure /\ ~Crosses(Closure(run.closure.customers))
       THEN /\ account' = Without(account, run.closure.accounts)
            /\ licence' = Without(licence, run.closure.licences)
            /\ activation' = Without(activation, run.closure.activations)
            /\ intent' = Without(intent, run.closure.intents)
            /\ merged' = Without(merged, run.closure.profiles)
            /\ link' = [i \in Identity |-> IF link[i] \in run.closure.profiles THEN None ELSE link[i]]
            /\ Goto("reset")
       ELSE End /\ UNCHANGED rows
    /\ UNCHANGED stripe

\* deleteMatchingStripeCustomerObjects, a call for each; Stripe answers a
\* repeated deletion with the deleted Customer.
DeleteCustomer(c) ==
    /\ run.stage = "reset" /\ c \in run.listed
    /\ stripe' = stripe \ {c} /\ run' = [run EXCEPT !.listed = @ \ {c}]
    /\ UNCHANGED rows

\* The second look, and the report.
CheckClean ==
    /\ run.stage = "reset" /\ run.listed = {}
    /\ LET left == Closure({}) IN
       IF stripe \cap TestCustomers = {} /\ \A k \in DOMAIN left : left[k] = {}
       THEN Goto("clean") ELSE End
    /\ UNCHANGED <<rows, stripe>>

Die == run.stage # "idle" /\ End /\ UNCHANGED <<rows, stripe>>

-----------------------------------------------------------------------------
(* The site *)

Site == UNCHANGED run

SignUp(a) ==
    /\ account[a] = AbsentRow /\ account' = [account EXCEPT ![a] = None]
    /\ UNCHANGED <<licence, activation, intent, merged, link, stripe>>
\* A payment link makes a Customer that no account has, and the backfill may
\* link it to the profile it knows the payment by.
PayAsGuest(c, p) ==
    /\ c \notin stripe /\ link[c] = None /\ merged[p] = None
    /\ stripe' = stripe \cup {c} /\ link' = [link EXCEPT ![c] = p]
    /\ UNCHANGED <<account, licence, activation, intent, merged>>
\* A Customer is made for an account; its address is the account's.
MakeCustomer(a, c) ==
    /\ account[a] = None /\ c \notin stripe /\ link[c] = None /\ c \notin {account[b] : b \in Accounts}
    /\ a \in TestAccounts <=> c \in TestCustomers
    /\ stripe' = stripe \cup {c} /\ account' = [account EXCEPT ![a] = c]
    /\ UNCHANGED <<licence, activation, intent, merged, link>>
StartCheckout(i, a) ==
    /\ intent[i] = AbsentRow /\ account[a] \in Customers
    /\ intent' = [intent EXCEPT ![i] = [account |-> a, customer |-> account[a]]]
    /\ UNCHANGED <<account, licence, activation, merged, link, stripe>>
Buy(l, a) ==
    /\ licence[l] = AbsentRow /\ account[a] \in Customers
    /\ licence' = [licence EXCEPT ![l] = [account |-> a, customer |-> account[a]]]
    /\ UNCHANGED <<account, activation, intent, merged, link, stripe>>
\* An activation comes with a profile of its own, or with the one its computer
\* is known by, whoever used it last.
Start(a, p) ==
    /\ activation[a] = AbsentRow /\ link[a] = None /\ merged[p] \in {AbsentRow, None}
    /\ activation' = [activation EXCEPT ![a] = [account |-> None, licence |-> None]]
    /\ merged' = [merged EXCEPT ![p] = None] /\ link' = [link EXCEPT ![a] = p]
    /\ UNCHANGED <<account, licence, intent, stripe>>
\* A claim links the account and its Customer unless one of them is elsewhere
\* or the profile has an account.
Claim(a, b, l) ==
    /\ activation[a] # AbsentRow /\ activation[a].account = None
    /\ licence[l] # AbsentRow /\ licence[l].account = b
    /\ activation' = [activation EXCEPT ![a] = [account |-> b, licence |-> l]]
    /\ link' = IF \/ LinkedTo({link[a]}, Accounts) \ {b} # {}
                  \/ \E i \in {b, account[b]} \cap Identity : link[i] \notin {None, link[a]}
               THEN link
               ELSE [i \in Identity |-> IF i \in {b, account[b]} THEN link[a] ELSE link[i]]
    /\ UNCHANGED <<account, licence, intent, merged, stripe>>
Merge(p, q) ==
    /\ p # q /\ merged[p] = None /\ merged[q] = None
    /\ Cardinality(LinkedTo({p, q}, Accounts)) <= 1
    /\ merged' = [merged EXCEPT ![q] = p]
    /\ link' = [i \in Identity |-> IF link[i] = q THEN p ELSE link[i]]
    /\ UNCHANGED <<account, licence, activation, intent, stripe>>

Next ==
    \/ ListCustomers \/ Inventory \/ LoadCustomers \/ DatabaseReset \/ CheckClean \/ Die
    \/ \E c \in Customers : DeleteCustomer(c)
    \/ Site /\ \/ \E a \in Accounts : SignUp(a) \/ \E c \in Customers : MakeCustomer(a, c)
               \/ \E a \in Accounts, i \in Intents : StartCheckout(i, a)
               \/ \E a \in Accounts, l \in Licences : Buy(l, a)
               \/ \E a \in Activations : \/ \E p \in Profiles : Start(a, p)
                                         \/ \E b \in Accounts, l \in Licences : Claim(a, b, l)
               \/ \E p, q \in Profiles : Merge(p, q)
               \/ \E c \in Customers, p \in Profiles : PayAsGuest(c, p)

Spec == Init /\ [][Next]_vars

-----------------------------------------------------------------------------
\* Whatever the edges between the customers are by then, the reset removes no
\* row and no link of an account that is not the test customer's.
OthersKept ==
    [][run.stage # "reset" /\ run'.stage = "reset" =>
         \A a \in Accounts \ TestAccounts :
           /\ account'[a] = account[a] /\ link'[a] = link[a]
           /\ \A l \in Has(licence) : licence[l].account = a => licence'[l] = licence[l]
           /\ \A v \in Has(activation) :
                activation[v].account = a => activation'[v] = activation[v] /\ link'[v] = link[v]
           /\ \A i \in Has(intent) : intent[i].account = a => intent'[i] = intent[i]]_vars

\* Only Customers of the identity's addresses are deleted in Stripe.
StrangersStayInStripe == [][stripe \ stripe' \subseteq TestCustomers]_stripe

\* What is left refers to rows that are there: profiles are not merged into
\* deleted ones, nothing is linked to them, and no licence or activation has
\* lost its owner.
NothingDangles ==
    /\ \A p \in Has(merged) : merged[p] # None => merged[p] \in Has(merged)
    /\ \A i \in Identity : link[i] # None => link[i] \in Has(merged)
    /\ \A l \in Has(licence) : licence[l].account \in Has(account)
    /\ \A a \in Has(activation) : /\ activation[a].account \in Has(account) \cup {None}
                                  /\ activation[a].licence \in Has(licence) \cup {None}
=============================================================================

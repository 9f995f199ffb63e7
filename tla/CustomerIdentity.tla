-------------------------- MODULE CustomerIdentity --------------------------
(***************************************************************************)
(* Customer profiles and the evidence that ties them together, in one        *)
(* licence namespace: api/_lib/customer-identity.ts, customer-profiles.ts,   *)
(* the first sighting of an install by customer-usage.ts and the backfill of *)
(* scripts/backfill-customer-360.mjs.                                        *)
(*                                                                           *)
(* Evidence is a value a caller presents (activation, install, installer     *)
(* receipt, support code) or the server reads of a verified account (the     *)
(* account, its Stripe ids).  A value is linked to one profile.  Every       *)
(* writer of links is one transaction under the namespace's advisory lock,   *)
(* which is why an attachment, a merge and a backfilled component are each   *)
(* one action here.  A profile is a number, in the order of creation; merges *)
(* leave a tombstone that points to an older profile.                        *)
(***************************************************************************)
EXTENDS Naturals, FiniteSets

CONSTANTS
    Presented,     \* anonymous evidence
    Installs,      \* the evidence that is an install, with a membership row
    Accounts,
    Purchase(_),   \* the Stripe ids the database holds for an account
    Rank,          \* the order in which anonymous evidence is consulted
    Components,    \* the components of a backfill, sets of evidence
    Watched,       \* bound: the presentations that "told" remembers
    MaxProfiles    \* bound: profiles ever created

VARIABLES
    born,       \* profiles created so far are 1..born
    merged,     \* the older profile each one was merged into, 0 for a live one
    link,       \* the profile of each evidence value, 0 for none
    member,     \* the profile of each install's membership row, 0 for none
    reviews,    \* the evidence that review rows dispute
    seed,       \* the deterministic profile of each backfilled component
    told        \* what has been presented together (history)

vars == <<born, merged, link, member, reviews, seed, told>>

Profiles == 1..MaxProfiles
Verified(a) == {a} \cup Purchase(a)
Evidence == Presented \cup UNION {Verified(a) : a \in Accounts} \cup UNION Components

TypeOK ==
    /\ born \in 0..MaxProfiles
    /\ merged \in [Profiles -> 0..MaxProfiles]
    /\ \A p \in Profiles : merged[p] # 0 => merged[p] < p /\ p <= born
    /\ link \in [Evidence -> 0..born] /\ member \in [Installs -> 0..born]
    /\ reviews \subseteq Evidence
    /\ seed \in [Components -> 0..born]

Init ==
    /\ born = 0 /\ merged = [p \in Profiles |-> 0]
    /\ link = [e \in Evidence |-> 0] /\ member = [i \in Installs |-> 0]
    /\ reviews = {} /\ seed = [c \in Components |-> 0] /\ told = {}

-----------------------------------------------------------------------------
\* resolveProfileRoot follows tombstones to the live profile.
Root(p) ==
    LET root[q \in Profiles] == IF merged[q] = 0 THEN q ELSE root[merged[q]] IN root[p]

\* findEvidenceOwners: the live profile a value is linked to, 0 if none.
Owner(e) == IF link[e] # 0 /\ merged[link[e]] = 0 THEN link[e] ELSE 0

\* firstEvidenceOwner, in the order the evidence is built
FirstOwner(ids) ==
    LET owned == {e \in ids : Owner(e) # 0} IN
    IF owned = {} THEN 0
    ELSE Owner(CHOOSE e \in owned : \A f \in owned : Rank[e] <= Rank[f])

\* findProfileAccountIdentity
AccountOf(p) == {a \in Accounts : link[a] = p}

\* attachEvidence for every presented value: a free value is linked, one of
\* another profile is left there and reviewed.  Mutant: it is taken.
Relinked(ids, p) == [e \in Evidence |-> IF e \in ids THEN p ELSE link[e]]
Linked(ids, p) == [e \in Evidence |-> IF e \in ids /\ link[e] = 0 THEN p ELSE link[e]]
Contested(ids, p) == {e \in ids : link[e] \notin {0, p}}

\* attachInstallMembership.  Mutant: a membership of another profile is taken.
MemberTaken(ids, p) == [i \in Installs |-> IF i \in ids THEN p ELSE member[i]]
MemberOf(ids, p) == [i \in Installs |-> IF i \in ids /\ member[i] = 0 THEN p ELSE member[i]]
MemberContested(ids, p) ==
    {i \in ids \cap Installs : member[i] \notin {0, p}}

\* attachVerifiedAccount: all of the account's evidence or none of it.
OwnersConflict(a, p) == \E e \in Verified(a) : Owner(e) \notin {0, p}
NoAccountConflict(a, p) == FALSE
AccountConflict(a, p) == AccountOf(p) \notin {{}, {a}}
\* Mutant: only an account on another profile is reviewed.
AccountOnlyReviews(a, p) == IF AccountConflict(a, p) THEN {a} ELSE {}
\* recordIdentityReview, once for each piece of evidence in conflict
AccountReviews(a, p) ==
    {e \in Verified(a) : Owner(e) \notin {0, p}}
    \cup (IF AccountConflict(a, p) THEN {a} ELSE {})

\* attachCustomerIdentity with the evidence of a request and, on a claim or a
\* licence request, the account the server verified ({} or {a}).
Attach(ids, verified) ==
    LET found == FirstOwner(ids)
        p == IF found # 0 THEN found ELSE born + 1
        conflict == \E a \in verified : OwnersConflict(a, p) \/ AccountConflict(a, p)
        account == IF conflict THEN {} ELSE UNION {Verified(a) : a \in verified} IN
    /\ ids # {} /\ p <= MaxProfiles
    /\ born' = IF found # 0 THEN born ELSE p
    /\ link' = Linked(ids \cup account, p)
    /\ member' = MemberOf(ids, p)
    /\ reviews' = reviews \cup Contested(ids, p) \cup MemberContested(ids, p)
                  \cup UNION {AccountReviews(a, p) : a \in verified}
    /\ told' = told \cup ({ids \cup verified} \cap Watched)
    /\ UNCHANGED <<merged, seed>>

\* ensureAnonymousCustomerInstall: the first telemetry of an install makes it a
\* profile, and a later one repairs a missing link.  A link that disagrees with
\* the membership throws and nothing is written.
Sight(i) ==
    LET p == IF member[i] # 0 THEN member[i] ELSE born + 1 IN
    /\ link[i] \in {0, p} /\ p <= MaxProfiles
    /\ born' = IF member[i] # 0 THEN born ELSE p
    /\ member' = [member EXCEPT ![i] = p] /\ link' = [link EXCEPT ![i] = p]
    /\ UNCHANGED <<merged, reviews, seed, told>>

\* mergeCustomerProfilesInTransaction: the older root survives and takes over
\* links and memberships.  Two accounts cannot share a profile: the unique index
\* refuses the reassignment and the merge rolls back.
ReassignLinks(from, to) == [e \in Evidence |-> IF link[e] = from THEN to ELSE link[e]]
\* Mutant: the memberships stay behind.
ReassignNoInstalls(from, to) == member
ReassignInstalls(from, to) == [i \in Installs |-> IF member[i] = from THEN to ELSE member[i]]

\* planProfileMerge: the older profile.  Mutant: the newer one.
Newest(p, q) == IF p < q THEN q ELSE p
Survivor(p, q) == IF p < q THEN p ELSE q

Merge(left, right) ==
    LET survivor == Survivor(Root(left), Root(right))
        tombstone == IF survivor = Root(left) THEN Root(right) ELSE Root(left) IN
    /\ left \in 1..born /\ right \in 1..born /\ survivor # tombstone
    /\ Cardinality(AccountOf(survivor) \cup AccountOf(tombstone)) <= 1
    /\ link' = ReassignLinks(tombstone, survivor)
    /\ member' = ReassignInstalls(tombstone, survivor)
    /\ merged' = [merged EXCEPT ![tombstone] = survivor]
    /\ UNCHANGED <<born, reviews, seed, told>>

\* applyComponent.  Its profile has an id derived from its records, so that a
\* second run, after a crash before the checkpoint was written, finds it again.
ComponentOwners(c) ==
    ({link[e] : e \in c} \cup {member[i] : i \in c \cap Installs}
     \cup (IF seed[c] = 0 THEN {} ELSE {Root(seed[c])})) \ {0}
Disagrees(c) ==
    \/ Cardinality(c \cap Accounts) > 1
    \/ Cardinality(ComponentOwners(c)) > 1
    \/ \E p \in ComponentOwners(c), a \in c \cap Accounts : AccountOf(p) \notin {{}, {a}}

Backfill(c) ==
    LET owners == ComponentOwners(c)
        p == IF owners = {} THEN born + 1 ELSE CHOOSE q \in owners : TRUE IN
    /\ ~Disagrees(c) /\ p <= MaxProfiles
    /\ born' = IF owners = {} THEN p ELSE born
    /\ seed' = IF owners = {} THEN [seed EXCEPT ![c] = p] ELSE seed
    /\ link' = Linked(c, p) /\ member' = MemberOf(c, p)
    /\ UNCHANGED <<merged, reviews, told>>

Next ==
    \/ \E ids \in SUBSET Presented :
         \/ Attach(ids, {})
         \/ \E a \in Accounts : Attach(ids, {a})
    \/ \E i \in Installs : Sight(i)
    \/ \E p, q \in Profiles : Merge(p, q)
    \/ \E c \in Components : Backfill(c)

Spec == Init /\ [][Next]_vars

-----------------------------------------------------------------------------
\* Whoever looks for evidence finds a live profile: no link and no membership
\* is left on a tombstone.
LinksAreLive ==
    /\ \A e \in Evidence : link[e] # 0 => merged[link[e]] = 0
    /\ \A i \in Installs : member[i] # 0 => merged[member[i]] = 0

\* An install's membership row and its identity link name the same profile,
\* which telemetry relies on: where they differ its batch throws for ever.
MembershipIsLinked == \A i \in Installs : link[i] = member[i]

\* One verified account for a profile, across attachments, merges and backfills.
OneAccount == \A p \in Profiles : Cardinality(AccountOf(p)) <= 1

\* Evidence that was presented together is on one profile, or a review row says
\* that something of it is disputed.
TogetherOrReviewed ==
    \A ids \in told :
      \/ \E p \in 1..born : \A e \in ids : link[e] = p
      \/ \E e \in ids : e \in reviews \/ (e \in Accounts /\ Verified(e) \cap reviews # {})

\* Evidence never changes hands but through a merge of its profile.
EvidenceStays ==
    [][\A e \in Evidence : link[e] # 0 => link'[e] \in {link[e], merged'[link[e]]}]_vars
=============================================================================

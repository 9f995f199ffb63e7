----------------------------- MODULE MCCustomer -----------------------------
(* Customer 360, one component a part: a behaviour stays in its part.        *)
EXTENDS TLC, Integers, FiniteSets

CONSTANTS a1, i1, i2, b1, b2, s1, k1, r1, r2, t1, t2, c1, c2, e1, e2, p1, p2, None

MCRank == (a1 :> 1) @@ (i1 :> 2) @@ (i2 :> 3) @@ (k1 :> 4)
MCPurchase(a) == IF a = b1 THEN {s1} ELSE {}
\* 2 requests a download, which ends on the next day (3) or on the same (4);
\* 1 occurred two days before the request, 5 on another installation.
MCBucket(e) == CASE e = 1 -> <<i1, -3>> [] e \in {2, 4} -> <<i1, -1>>
                 [] e = 3 -> <<i1, 0>> [] e = 5 -> <<i2, -1>>
MCBuckets == {<<i1, -3>>, <<i1, -1>>, <<i1, 0>>, <<i2, -1>>}
MCRequest(e) == IF e \in {3, 4} THEN 2 ELSE 0
\* Two claims of one install whose receipts differ, the second receipt known.
MCInstallOf == (c1 :> i1) @@ (c2 :> i1)
MCReceiptOf == (c1 :> e1) @@ (c2 :> e2)

VARIABLES
    part,
    born, merged, link, member, reviews, seed, told,
    day, source, state, sync, rescan, file, daily, totals, first, done,
    root, clash, session, claim, evidence, counted, owner, absorbed, expired, asked

Id == INSTANCE CustomerIdentity WITH Presented <- {a1, i1, i2}, Installs <- {i1, i2},
    Accounts <- {b1, b2}, Purchase <- MCPurchase, Rank <- MCRank,
    Components <- {{i2, b1}, {s1, k1}}, Watched <- {{a1, i1, b1}}, MaxProfiles <- 3
\* Runs that die: a download that ends on its own day, or on the next one; two
\* events and a rescan beside the runs.
Runs == INSTANCE CustomerUsage WITH Events <- {2, 4, 5}, Bucket <- MCBucket, Buckets <- MCBuckets,
    Request <- MCRequest, Overlap <- 1, Lateness <- 1, BatchSize <- 1, Rescans <- "none", MaxDay <- 2
Overnight == INSTANCE CustomerUsage WITH Events <- {1, 2, 3}, Bucket <- MCBucket, Buckets <- MCBuckets,
    Request <- MCRequest, Overlap <- 1, Lateness <- 1, BatchSize <- 1, Rescans <- "none", MaxDay <- 2
Rescanned == INSTANCE CustomerUsage WITH Events <- {2, 4}, Bucket <- MCBucket, Buckets <- MCBuckets,
    Request <- MCRequest, Overlap <- 1, Lateness <- 1, BatchSize <- 1, Rescans <- "apart", MaxDay <- 2
Visits == INSTANCE Acquisition WITH Roots <- {r1, r2}, Touches <- {t1, t2}, Claims <- {c1, c2},
    Installs <- {i1}, Receipts <- {e1, e2}, InstallOf <- MCInstallOf, ReceiptOf <- MCReceiptOf,
    Profiles <- {p1, p2}, Entries <- {<<r1, t1>>, <<r1, t2>>, <<r2, t2>>}, Known <- {<<e2, p2>>},
    Lapsing <- {c1}, merged <- absorbed

identityVars == <<born, merged, link, member, reviews, seed, told>>
usageVars == <<day, source, state, sync, rescan, file, daily, totals, first, done>>
visitVars == <<root, clash, session, claim, evidence, counted, owner, absorbed, expired, asked>>

Init ==
    /\ part \in {"identity", "runs", "overnight", "rescanned", "visits"}
    /\ Id!Init /\ Visits!Init
    /\ CASE part = "rescanned" -> Rescanned!Init
         [] part = "overnight" -> Overnight!Init
         [] OTHER -> Runs!Init
Next ==
    \/ part = "identity" /\ Id!Next /\ UNCHANGED <<part, usageVars, visitVars>>
    \/ part = "runs" /\ Runs!Next /\ UNCHANGED <<part, identityVars, visitVars>>
    \/ part = "overnight" /\ Overnight!Next /\ UNCHANGED <<part, identityVars, visitVars>>
    \/ part = "rescanned" /\ Rescanned!Next /\ UNCHANGED <<part, identityVars, visitVars>>
    \/ part = "visits" /\ Visits!Next /\ UNCHANGED <<part, identityVars, usageVars>>
Spec == Init /\ [][Next]_<<part, identityVars, usageVars, visitVars>>

\* The properties are the components' own, in the parts that instantiate them.
\* Links point at live profiles, memberships follow them, a profile has one
\* account, and evidence presented together ends together or under review; no
\* evidence is ever lost (customer-identity.ts).
IdentityHolds ==
    /\ [](Id!TypeOK /\ Id!LinksAreLive /\ Id!MembershipIsLinked /\ Id!OneAccount /\ Id!TogetherOrReviewed)
    /\ Id!EvidenceStays
\* No event within the lateness that the overlap allows is missed, the
\* checkpoint only moves forward, and neither an event nor a download finished
\* on its own day is counted away again (customer-usage.ts).
UsageHolds ==
    /\ [](/\ part = "runs" => Runs!TypeOK /\ Runs!NothingIsMissed
          /\ part = "overnight" => Overnight!TypeOK /\ Overnight!NothingIsMissed
          /\ part = "rescanned" => Rescanned!TypeOK /\ Rescanned!NothingIsMissed)
    /\ Runs!CheckpointKeeps
\* Contradictions about where an install came from are settled by quarantine
\* on both sides, with evidence and for good, and a plugin's claim never turns
\* back (acquisition-integrity.ts, anonymous-install-claim.ts).
VisitsHold ==
    /\ [](Visits!TypeOK /\ Visits!SharedInstallCountsForNone /\ Visits!ClaimedAgrees /\ Visits!QuarantineIsExplained)
    /\ Visits!NothingIsReopened
=============================================================================

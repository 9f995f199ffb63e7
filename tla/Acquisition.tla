---------------------------- MODULE Acquisition ----------------------------
(***************************************************************************)
(* Which website visit an installation came from                            *)
(* (api/_lib/acquisition-integrity.ts, anonymous-acquisition.ts,            *)
(* anonymous-install-claim.ts; called by api/acquisition/_lib.ts,           *)
(* api/download.ts and api/installation/claim-complete.ts).                 *)
(*                                                                          *)
(* A browser's signed cookie names an acquisition: a canonical root with an *)
(* immutable first touch and a ledger of stages, and a session that one     *)
(* customer profile may claim.  A plugin that verified its installer's      *)
(* receipt is issued a claim; the browser that opens it joins the claim to  *)
(* its cookie's acquisition.  Whatever contradicts a stored fact is never   *)
(* settled by a guess: both sides are quarantined for good, with evidence.  *)
(*                                                                          *)
(* Each action is one transaction under advisory locks.  The session's token*)
(* is derived from the root's id, so a root stands for its session too.     *)
(* Every stage but installation_claimed has a reference that contains its   *)
(* root's id; the installs are the references that two roots may share.     *)
(***************************************************************************)
EXTENDS Integers, FiniteSets

CONSTANTS
    Roots, Touches,
    Claims, Installs, Receipts,  \* what a claim's envelope carries:
    InstallOf, ReceiptOf,        \* its install and receipt hashes
    Profiles,                    \* ids a new profile may get
    Entries, Known, Lapsing,     \* bounds: the cookies' touches, the links made
    None                         \* elsewhere and the rows that may expire

AcquisitionAssumption ==
    /\ InstallOf \in [Claims -> Installs] /\ ReceiptOf \in [Claims -> Receipts]
    /\ Entries \subseteq Roots \X Touches /\ Known \subseteq (Installs \cup Receipts) \X Profiles
    /\ Lapsing \subseteq Claims \cup Roots
    /\ None \notin Roots \cup Touches \cup Profiles

VARIABLES
    root,      \* sidestream_acquisitions: first touch, state and evidence
    clash,     \* sidestream_acquisition_conflicts: the roots with a conflict
    session,   \* sidestream_anonymous_acquisition_sessions of the roots
    claim,     \* and those that mark an installation claim
    evidence,  \* sidestream_anonymous_acquisition_conflicts
    counted,   \* installation_claimed: the root each install is counted for
    owner,     \* the profile each install and receipt hash is linked to
    merged,    \* merged_into of each profile; None: live or not created
    expired,   \* claims and sessions past expires_at
    asked      \* the roots for which each install reached the stage ledger

vars == <<root, clash, session, claim, evidence, counted, owner, merged, expired, asked>>

Hashes == Installs \cup Receipts
NoRoot == [touch |-> None, state |-> "none", evidence |-> {}]
NoSession == [state |-> "none", touch |-> None, profile |-> None]
NoClaim == [state |-> "none", profile |-> None, opened |-> FALSE]

\* Mutant: a root is quarantined alone, its counterpart stays.
QuarantinedAlone(rs) ==
    LET one == CHOOSE r \in rs : TRUE
    IN  [r \in Roots |-> IF r = one THEN [root[r] EXCEPT !.state = "quarantined"] ELSE root[r]]
\* quarantine of canonical roots: sticky, with the conflict in clash.
Quarantined(rs) == [r \in Roots |-> IF r \in rs THEN [root[r] EXCEPT !.state = "quarantined"] ELSE root[r]]

\* createCanonicalAcquisitionRoot, and the landing that it observes.
Enter(r, t) ==
    /\ root' = IF root[r].state = "none"
               THEN [root EXCEPT ![r] = [touch |-> t, state |-> "intact", evidence |-> {"website_entry"}]]
               ELSE IF root[r].touch = t /\ root[r].state = "intact" THEN root ELSE Quarantined({r})
    /\ clash' = IF root[r].state = "none" \/ (root[r].touch = t /\ root[r].state = "intact")
                THEN clash ELSE clash \cup {r}
    /\ UNCHANGED <<session, claim, evidence, counted, owner, merged, expired, asked>>

\* quarantine of a session.
SessionQuarantined(r) == [session EXCEPT ![r].state = "quarantined"]
\* createAnonymousAcquisitionSession; other first touches than the stored one
\* quarantine the session.  What the download writes besides (the first
\* installer request's time and platform, a stage of the root's own and its
\* evidence) no property tells apart.
Download(r, t) ==
    /\ \/ /\ session[r].state = "none" /\ r \notin expired
          /\ session' = [session EXCEPT ![r] = [NoSession EXCEPT !.state = "unclaimed", !.touch = t]]
          /\ UNCHANGED evidence
       \/ /\ session[r].state # "none" /\ session[r].touch # t
          /\ session' = SessionQuarantined(r)
          /\ evidence' = evidence \cup {r}
    /\ UNCHANGED <<root, clash, claim, counted, owner, merged, expired, asked>>
\* claimAnonymousAcquisitionSession: a profile known by other means.
ClaimSession(r, p) ==
    /\ session[r].state # "none"
    /\ \/ /\ session[r].profile \notin {None, p}
          /\ session' = SessionQuarantined(r)
          /\ evidence' = evidence \cup {r}
       \/ /\ session[r].state = "unclaimed" /\ session[r].profile = None /\ r \notin expired
          /\ p \in Profiles /\ merged[p] = p
          /\ session' = [session EXCEPT ![r].state = "claimed", ![r].profile = p]
          /\ UNCHANGED evidence
    /\ UNCHANGED <<root, clash, claim, counted, owner, merged, expired, asked>>

IssueClaim(c) ==
    /\ claim[c].state = "none" /\ c \notin expired
    /\ claim' = [claim EXCEPT ![c] = [NoClaim EXCEPT !.state = "unclaimed"]]
    /\ UNCHANGED <<root, clash, session, evidence, counted, owner, merged, expired, asked>>
\* The page marks the claim opened before it looks at the cookie.
OpenClaim(c) ==
    /\ claim[c].state = "unclaimed" /\ c \notin expired
    /\ claim' = [claim EXCEPT ![c].opened = TRUE]
    /\ UNCHANGED <<root, clash, session, evidence, counted, owner, merged, expired, asked>>

-----------------------------------------------------------------------------
(* completeAnonymousInstallationClaim.                                      *)

HashesOf(c) == {InstallOf[c], ReceiptOf[c]}
\* findIdentityOwners: the live profiles the two hashes are linked to.
OwnersOf(c) == {owner[h] : h \in HashesOf(c)} \ {None}
Owner(c) == IF OwnersOf(c) = {} THEN None ELSE CHOOSE p \in OwnersOf(c) : TRUE

\* The profile that completes the claim: the evidence's owner, the session's,
\* or a new one.
ProfileFor(c, r) ==
    IF Owner(c) # None THEN {Owner(c)}
    ELSE IF session[r].profile # None THEN {session[r].profile}
    ELSE {p \in Profiles : merged[p] = None}

\* The evidence contradicts what the session or the claim already says.
\* Mutant: the session's profile is not compared.
ContradictedUnread(c, r) ==
    \/ root[r].state # "intact"
    \/ Cardinality(OwnersOf(c)) > 1
    \/ /\ claim[c].profile # None
       /\ ~(session[r].profile = claim[c].profile /\ Owner(c) \in {None, claim[c].profile})
Contradicted(c, r) ==
    \/ root[r].state # "intact"
    \/ Cardinality(OwnersOf(c)) > 1
    \/ /\ claim[c].profile # None
       /\ ~(session[r].profile = claim[c].profile /\ Owner(c) \in {None, claim[c].profile})
    \/ /\ claim[c].profile = None
       /\ session[r].profile # None /\ Owner(c) # session[r].profile

\* quarantineSessions: the claim and the session, with their evidence.
Conflict(c, r) ==
    /\ claim' = [claim EXCEPT ![c].state = "quarantined"]
    /\ session' = SessionQuarantined(r)
    /\ evidence' = evidence \cup {c, r}

\* Mutant: the later root takes the install over.
StageOwnerLatest(c, r) == r
\* finalizeCanonicalInstallationClaim: the install's stage is inserted once; a
\* second root that asks for it is quarantined together with the first.
StageOwner(c, r) == IF counted[InstallOf[c]] = None THEN r ELSE counted[InstallOf[c]]
Finalize(c, r) ==
    LET i == InstallOf[c]  s == StageOwner(c, r)
    IN  /\ counted' = [counted EXCEPT ![i] = s]
        /\ asked' = [asked EXCEPT ![i] = @ \cup {r}]
        /\ IF s # r
           THEN root' = Quarantined({s, r}) /\ clash' = clash \cup {s, r}
           ELSE /\ root' = [root EXCEPT ![r].evidence = @ \cup {"verified_installation_claim"}]
                /\ UNCHANGED clash
\* The links are kept when the root conflicts, the states are not.
Attach(c, p) ==
    /\ owner' = [h \in Hashes |-> IF h \in HashesOf(c) /\ owner[h] = None THEN p ELSE owner[h]]
    /\ merged' = IF merged[p] = None THEN [merged EXCEPT ![p] = p] ELSE merged

Complete(c, r) ==
    /\ claim[c].state \in {"unclaimed", "claimed"} /\ c \notin expired
    /\ session[r].state \in {"unclaimed", "claimed"} /\ r \notin expired
    /\ \/ /\ Contradicted(c, r)
          /\ Conflict(c, r)
          /\ UNCHANGED <<root, clash, counted, owner, merged, asked>>
       \/ /\ ~Contradicted(c, r) /\ claim[c].state = "claimed"
          /\ Finalize(c, r)
          /\ IF StageOwner(c, r) # r THEN Conflict(c, r) ELSE UNCHANGED <<session, claim, evidence>>
          /\ UNCHANGED <<owner, merged>>
       \/ /\ ~Contradicted(c, r) /\ claim[c].state = "unclaimed"
          /\ \E p \in ProfileFor(c, r) :
                /\ Attach(c, p)
                /\ Finalize(c, r)
                /\ IF StageOwner(c, r) # r THEN Conflict(c, r)
                   ELSE /\ claim' = [claim EXCEPT ![c].state = "claimed", ![c].profile = p]
                        /\ session' = [session EXCEPT ![r].state = "claimed", ![r].profile = p]
                        /\ UNCHANGED evidence
    /\ UNCHANGED expired

\* getAnonymousInstallationClaimStatus, what the plugin polls.
Status(c) ==
    CASE c \in expired -> "expired"
      [] claim[c].state = "none" -> "terminal_unknown"
      [] claim[c].state = "quarantined" -> "conflict"
      [] claim[c].state = "claimed" -> "claim_completed"
      [] OTHER -> IF claim[c].opened THEN "browser_opened" ELSE "pending"

-----------------------------------------------------------------------------
\* Other evidence links a hash to a live or a new profile (customer-identity.ts).
Link(h, p) ==
    /\ owner[h] = None /\ merged[p] \in {None, p}
    /\ owner' = [owner EXCEPT ![h] = p]
    /\ merged' = [merged EXCEPT ![p] = p]
    /\ UNCHANGED <<root, clash, session, claim, evidence, counted, expired, asked>>
\* Two live profiles are merged and the links move to the survivor.
MergeProfiles(p, q) ==
    /\ p # q /\ merged[p] = p /\ merged[q] = q
    /\ merged' = [x \in Profiles |-> IF merged[x] = q THEN p ELSE merged[x]]
    /\ owner' = [h \in Hashes |-> IF owner[h] = q THEN p ELSE owner[h]]
    /\ UNCHANGED <<root, clash, session, claim, evidence, counted, expired, asked>>
Expire(x) ==
    /\ x \notin expired
    /\ expired' = expired \cup {x}
    /\ UNCHANGED <<root, clash, session, claim, evidence, counted, owner, merged, asked>>

Init ==
    /\ root = [r \in Roots |-> NoRoot] /\ clash = {}
    /\ session = [r \in Roots |-> NoSession] /\ claim = [c \in Claims |-> NoClaim]
    /\ evidence = {} /\ counted = [i \in Installs |-> None]
    /\ owner = [h \in Hashes |-> None] /\ merged = [p \in Profiles |-> None]
    /\ expired = {} /\ asked = [i \in Installs |-> {}]

Next ==
    \/ \E e \in Entries : Enter(e[1], e[2]) \/ Download(e[1], e[2])
    \/ \E r \in Roots, p \in Profiles : ClaimSession(r, p)
    \/ \E c \in Claims : IssueClaim(c) \/ OpenClaim(c)
    \/ \E c \in Claims, r \in Roots : Complete(c, r)
    \/ \E k \in Known : Link(k[1], k[2])
    \/ \E p, q \in Profiles : MergeProfiles(p, q)
    \/ \E x \in Lapsing : Expire(x)

Spec == Init /\ [][Next]_vars

-----------------------------------------------------------------------------
TypeOK ==
    /\ root \in [Roots -> [touch : Touches \cup {None}, state : {"none", "intact", "quarantined"},
                           evidence : SUBSET {"website_entry", "verified_installation_claim"}]]
    /\ clash \subseteq Roots
    /\ session \in [Roots -> [state : {"none", "unclaimed", "claimed", "quarantined"},
                              touch : Touches \cup {None}, profile : Profiles \cup {None}]]
    /\ claim \in [Claims -> [state : {"none", "unclaimed", "claimed", "quarantined"},
                             profile : Profiles \cup {None}, opened : BOOLEAN]]
    /\ evidence \subseteq Claims \cup Roots /\ counted \in [Installs -> Roots \cup {None}]
    /\ owner \in [Hashes -> Profiles \cup {None}] /\ merged \in [Profiles -> Profiles \cup {None}]
    /\ expired \subseteq Claims \cup Roots /\ asked \in [Installs -> SUBSET Roots]

\* An install that was brought to the ledger for two acquisitions is counted
\* for neither: both roots are quarantined, with evidence
\* (recordStageWithClient).
SharedInstallCountsForNone ==
    \A i \in Installs : Cardinality(asked[i]) > 1 => asked[i] \subseteq {r \in clash : root[r].state = "quarantined"}

\* A claim that says claimed has its two hashes with the profile it names, or
\* with the one that profile was merged into, and an intact or later
\* quarantined root that the install is counted for
\* (completeAnonymousInstallationClaim).
ClaimedAgrees ==
    \A c \in Claims : claim[c].state = "claimed" =>
        /\ \A h \in HashesOf(c) : owner[h] = merged[claim[c].profile]
        /\ \E r \in Roots : /\ counted[InstallOf[c]] = r
                            /\ session[r].profile = claim[c].profile

\* Nothing is quarantined without stored evidence, and no evidence is stored
\* of what is still in good standing.
QuarantineIsExplained ==
    /\ clash = {r \in Roots : root[r].state = "quarantined"}
    /\ evidence = {r \in Roots : session[r].state = "quarantined"} \cup
                  {c \in Claims : claim[c].state = "quarantined"}

\* Quarantine is sticky, a claimed profile and a first touch are never
\* replaced, an install never changes its acquisition, delivery evidence only
\* grows (the tables' update guards), and the plugin that polls a claim never
\* sees its status turn back.
Rank(status) == CHOOSE n \in 1..6 : status =
    <<"terminal_unknown", "pending", "browser_opened", "claim_completed", "conflict", "expired">>[n]
NothingIsReopened ==
    [][/\ \A r \in Roots :
            /\ root[r].state = "quarantined" => root'[r].state = "quarantined"
            /\ session[r].state = "quarantined" => session'[r].state = "quarantined"
            /\ root[r].touch # None => root'[r].touch = root[r].touch
            /\ root[r].evidence \subseteq root'[r].evidence
            /\ session[r].profile # None => session'[r].profile = session[r].profile
       /\ \A c \in Claims :
            /\ Rank(Status(c)) <= Rank(Status(c)')
            /\ claim[c].state = "quarantined" => claim'[c].state = "quarantined"
            /\ claim[c].profile # None => claim'[c].profile = claim[c].profile
       /\ \A i \in Installs : counted[i] # None => counted'[i] = counted[i]]_vars
=============================================================================

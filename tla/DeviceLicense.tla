--------------------------- MODULE DeviceLicense ---------------------------
(***************************************************************************)
(* The two device seats of one account and the credentials of its licence  *)
(* (api/_lib/account.ts, api/_lib/device-policy.ts, api/activation).        *)
(*                                                                          *)
(* A plugin starts an activation; the owner claims it on a page, perhaps    *)
(* moving a seat from another device; the plugin polls until it receives    *)
(* its first token, refreshes and verifies it.  A poll is four              *)
(* transactions and a claim is three, and everything else runs in between.  *)
(* What reads or writes the seats holds the account's device lock, so each  *)
(* such transaction is one step; losing the licence holds none.             *)
(*                                                                          *)
(* A token stands for its access and refresh pair, an activation for one    *)
(* that has not expired.  Time that runs out (an activation, the replay     *)
(* window, a token) only makes the code do less, which is a poll given up   *)
(* or a token not used again.                                               *)
(***************************************************************************)
EXTENDS Integers, Sequences, FiniteSets

CONSTANTS
    Devices, Activations,
    Migrated,    \* devices that had a token before there was a registry
    Mode,        \* SIDESTREAM_DEVICE_POLICY_MODE
    Waits,       \* whether issueLicenseTokenPair may wait for the device
                 \* lock while transactions that began later have it
    Lossy,       \* whether the licence may be lost
    MaxBusy,     \* bound: polls and claims under way at once
    MaxRows,     \* bound: rows of the registry
    MaxTokens    \* bound: tokens

MaxActive == 2
None == "none"

ASSUME DeviceAssumption ==
    /\ None \notin Devices
    /\ Migrated \subseteq Devices /\ IsFiniteSet(Migrated)
    /\ MaxRows \in Nat /\ MaxTokens \in Nat
    /\ Cardinality(Migrated) <= MaxTokens

VARIABLES
    clock,     \* time of the last write; a transaction that began between
               \* two writes has the odd number between them
    rows,      \* sidestream_account_devices, in the order of insertion
    tokens,    \* sidestream_license_tokens, in the order of insertion
    act,       \* sidestream_activation_sessions
    poll,      \* the status poll of each activation
    claim,     \* the claim page and POST of each activation
    license,   \* whether the entitlement is active
    losing     \* tokens that a transaction revoking the licence has seen

vars == <<clock, rows, tokens, act, poll, claim, license, losing>>

Later == clock + 2

NoPoll == [stage |-> "idle", issuedAt |-> 0, began |-> 0]
NoClaim == [stage |-> "idle", reviewed |-> 0, prior |-> 0]

RowType == [device : Devices, slot : 1..MaxActive, activated : Nat,
            gone : {"no", "replaced", "deactivated"}, by : Activations \cup {None}]
TokenType == [act : Activations, device : Devices, gen : Nat, from : 0..MaxTokens,
              created : Nat, revoked : BOOLEAN, refresh : BOOLEAN]
ActType == [device : Devices \cup {None}, claimed : BOOLEAN, completed : Nat]
PollType == [stage : {"idle", "read", "checked", "issued"}, issuedAt : Nat, began : Nat]
ClaimType == [stage : {"idle", "page", "decided", "claimed"},
              reviewed : 0..MaxRows, prior : 0..MaxRows]

\* Types; the slots and the live token of an activation are unique
\* (sidestream_account_devices_active_slot_unique and
\* sidestream_license_tokens_one_live_activation_device).
TypeOK ==
    /\ clock \in Nat
    /\ rows \in Seq(RowType)
    /\ tokens \in Seq(TokenType)
    /\ act \in [Activations -> ActType]
    /\ poll \in [Activations -> PollType]
    /\ claim \in [Activations -> ClaimType]
    /\ license \in BOOLEAN
    /\ losing \subseteq 0..MaxTokens
    /\ \A i, j \in DOMAIN rows :
         rows[i].gone = "no" /\ rows[j].gone = "no" /\ rows[i].slot = rows[j].slot
           => i = j
    /\ \A s, t \in DOMAIN tokens :
         /\ ~tokens[s].revoked /\ tokens[s].refresh
         /\ ~tokens[t].revoked /\ tokens[t].refresh
         /\ tokens[s].act = tokens[t].act
         => s = t

-----------------------------------------------------------------------------
\* The registry, read under the device lock.
Active(rs) == {i \in DOMAIN rs : rs[i].gone = "no"}

RowsOf(rs, d) == {i \in DOMAIN rs : rs[i].device = d}

Before(rs, i, j) ==
    \/ rs[i].activated < rs[j].activated
    \/ rs[i].activated = rs[j].activated /\ i <= j

Latest(rs, S) == CHOOSE i \in S : \A j \in S : Before(rs, j, i)

\* The device's own seat if it has one, else the seat taken last.
Nearest(rs, d) ==
    IF Active(rs) \cap RowsOf(rs, d) # {}
    THEN Latest(rs, Active(rs) \cap RowsOf(rs, d))
    ELSE Latest(rs, Active(rs))

LatestIsGone(rs, d) ==
    RowsOf(rs, d) # {} /\ rs[Latest(rs, RowsOf(rs, d))].gone # "no"

\* Mutant: the rows of other devices that came later count too.
GenerationOfAll(rs, i) == Len(rs)

Generation(rs, i) == Cardinality({j \in DOMAIN rs : Before(rs, j, i)})

\* lockAccountDeviceBinding, first part: a free seat is taken.  since is the
\* age of the credential, 0 when the purpose is a first activation.
FreeSlot(rs) == IF \E i \in Active(rs) : rs[i].slot = 1 THEN 2 ELSE 1

NewRow(d, slot, at, by) ==
    [device |-> d, slot |-> slot, activated |-> at, gone |-> "no", by |-> by]

\* Mutants: a revoked device's credential takes a seat again; a device that
\* has a seat takes the other one too; seats are not counted.
ReturnsTakesSeat(rs, d, since) ==
    /\ Cardinality(Active(rs)) < MaxActive
    /\ \A i \in Active(rs) : rs[i].device # d

TwiceTakesSeat(rs, d, since) ==
    /\ Cardinality(Active(rs)) < MaxActive
    /\ since = 0 \/ ~LatestIsGone(rs, d)

CrowdTakesSeat(rs, d, since) ==
    /\ since = 0 \/ ~LatestIsGone(rs, d)
    /\ \A i \in Active(rs) : rs[i].device # d

TakesSeat(rs, d, since) ==
    /\ Cardinality(Active(rs)) < MaxActive
    /\ since = 0 \/ ~LatestIsGone(rs, d)
    /\ \A i \in Active(rs) : rs[i].device # d

Seated(rs, d, since, now) ==
    IF TakesSeat(rs, d, since)
    THEN Append(rs, NewRow(d, FreeSlot(rs), IF since = 0 THEN now ELSE since, None))
    ELSE rs

\* Second part: decideDeviceActivation for a first activation, and
\* evaluateDeviceCredentialBinding for a credential.
Bound(rs, d) == \E i \in Active(rs) : rs[i].device = d

Allows(rs, d, since) ==
    /\ Active(rs) # {}
    /\ \/ since = 0
       \/ ~LatestIsGone(rs, d) /\ since >= rs[Nearest(rs, d)].activated
    /\ \/ Bound(rs, d)
       \/ since = 0 /\ Cardinality(Active(rs)) < MaxActive
       \/ Mode # "enforce"

Live(t) == ~tokens[t].revoked /\ tokens[t].refresh

Token(a, d, gen, from, now) ==
    [act |-> a, device |-> d, gen |-> gen, from |-> from, created |-> now,
     revoked |-> FALSE, refresh |-> TRUE]

-----------------------------------------------------------------------------
\* Devices that were connected before the registry hold a token, of an
\* activation that is long complete; nothing else has happened yet.
Init ==
    \E f \in [Migrated -> Activations] :
      /\ \A d, e \in Migrated : f[d] = f[e] => d = e
      /\ \E order \in [1..Cardinality(Migrated) -> Migrated] :
           /\ {order[i] : i \in DOMAIN order} = Migrated
           /\ tokens = [i \in DOMAIN order |->
                          Token(f[order[i]], order[i], 0, 0, 2 * i)]
      /\ clock = 2 * Cardinality(Migrated)
      /\ rows = <<>>
      /\ act = [a \in Activations |->
           IF \E d \in Migrated : f[d] = a
           THEN [device |-> CHOOSE d \in Migrated : f[d] = a,
                 claimed |-> TRUE, completed |-> clock]
           ELSE [device |-> None, claimed |-> FALSE, completed |-> 0]]
      /\ poll = [a \in Activations |-> NoPoll]
      /\ claim = [a \in Activations |-> NoClaim]
      /\ license = TRUE
      /\ losing = {}

Busy == Cardinality({a \in Activations : poll[a].stage # "idle"})
          + Cardinality({a \in Activations : claim[a].stage # "idle"})

\* createActivationSession.
Start(a, d) ==
    /\ act[a].device = None
    /\ act' = [act EXCEPT ![a].device = d]
    /\ UNCHANGED <<clock, rows, tokens, poll, claim, license, losing>>

\* fulfillCheckoutSession binds the activation that was paid for.
BindCheckout(a) ==
    /\ act[a].device # None /\ ~act[a].claimed
    /\ license
    /\ act' = [act EXCEPT ![a].claimed = TRUE]
    /\ UNCHANGED <<clock, rows, tokens, poll, claim, license, losing>>

-----------------------------------------------------------------------------
\* The claim page.  GET shows the owner the device that a move would replace.
Decision(d) ==
    IF Bound(rows, d) \/ Cardinality(Active(rows)) < MaxActive
    THEN 0 ELSE Latest(rows, Active(rows))

\* A fresh activation, or one the account has claimed already.
Claimable(a) == act[a].device # None /\ (act[a].claimed \/ act[a].completed = 0)

OpenPage(a) ==
    /\ claim[a].stage = "idle" /\ Busy < MaxBusy
    /\ Claimable(a) /\ license
    /\ claim' = [claim EXCEPT ![a] = [stage |-> "page", prior |-> 0,
                                      reviewed |-> Decision(act[a].device)]]
    /\ UNCHANGED <<clock, rows, tokens, act, poll, license, losing>>

\* POST, first its own read of the decision: the page's intent must still fit
\* it; the form does not say which device the page showed.
Post(a) ==
    /\ claim[a].stage = "page"
    /\ license
    /\ (claim[a].reviewed = 0) = (Decision(act[a].device) = 0)
    /\ claim' = [claim EXCEPT ![a].stage = "decided",
                              ![a].prior = Decision(act[a].device)]
    /\ UNCHANGED <<clock, rows, tokens, act, poll, license, losing>>

\* Then claimActivationToAccount, a transaction of its own ...
ClaimActivation(a) ==
    /\ claim[a].stage = "decided"
    /\ Claimable(a)
    /\ act' = [act EXCEPT ![a].claimed = TRUE]
    /\ claim' = [claim EXCEPT ![a] =
         IF claim[a].prior = 0 THEN NoClaim ELSE [claim[a] EXCEPT !.stage = "claimed"]]
    /\ UNCHANGED <<clock, rows, tokens, poll, license, losing>>

\* ... and for a move confirmAccountDeviceTransfer, if the device to replace
\* still has its seat (else binding_changed).
\* Mutant: the replaced device keeps its tokens.
Spares(t, d) == FALSE

Loses(t, d) == tokens[t].device = d

Transfer(a) ==
    LET p == claim[a].prior
        d == rows[p].device
    IN /\ claim[a].stage = "claimed"
       /\ p \in Active(rows)
       /\ Len(rows) < MaxRows
       /\ clock' = Later
       /\ rows' = Append([rows EXCEPT ![p].gone = "replaced"],
                         NewRow(act[a].device, rows[p].slot, Later, a))
       /\ tokens' = [t \in DOMAIN tokens |->
                       IF Loses(t, d) THEN [tokens[t] EXCEPT !.revoked = TRUE]
                       ELSE tokens[t]]
       /\ claim' = [claim EXCEPT ![a] = NoClaim]
       /\ UNCHANGED <<act, poll, license, losing>>

\* A page is left, a POST is refused or finds the binding changed, or dies.
LeaveClaim(a) ==
    /\ claim[a].stage # "idle"
    /\ claim' = [claim EXCEPT ![a] = NoClaim]
    /\ UNCHANGED <<clock, rows, tokens, act, poll, license, losing>>

-----------------------------------------------------------------------------
\* getActivationStatus: the activation and its licence are read unlocked ...
PollRead(a) ==
    /\ poll[a].stage = "idle" /\ Busy < MaxBusy
    /\ act[a].claimed /\ license
    /\ poll' = [poll EXCEPT ![a] = [stage |-> "read", began |-> 0,
                                    issuedAt |-> act[a].completed]]
    /\ UNCHANGED <<clock, rows, tokens, act, claim, license, losing>>

\* ... checkActivationDeviceBinding may take a seat ...
PollCheck(a) ==
    LET seated == Seated(rows, act[a].device, poll[a].issuedAt, Later)
    IN /\ poll[a].stage = "read"
       /\ Len(seated) <= MaxRows
       /\ rows' = seated
       /\ clock' = IF seated = rows THEN clock ELSE Later
       /\ poll' = [poll EXCEPT ![a] =
            IF Allows(seated, act[a].device, poll[a].issuedAt)
            THEN [poll[a] EXCEPT !.stage = "checked",
                                 !.began = IF Waits THEN clock' + 1 ELSE 0]
            ELSE NoPoll]
       /\ UNCHANGED <<tokens, act, claim, license, losing>>

\* ... and issueLicenseTokenPair locks the binding again.  The family of this
\* activation, if it has one since the device took its seat, is repeated.
Family(rs, a) ==
    {t \in DOMAIN tokens :
       /\ tokens[t].act = a /\ tokens[t].refresh
       /\ tokens[t].created >= rs[Nearest(rs, act[a].device)].activated}

Oldest(S) == CHOOSE t \in S : \A s \in S : tokens[t].created <= tokens[s].created

\* What a unique index refuses: a second live token, or the same pair again.
Collides(a, gen) ==
    \E t \in DOMAIN tokens :
      /\ tokens[t].act = a
      /\ Live(t) \/ (tokens[t].from = 0 /\ tokens[t].gen = gen)

Times(a) == {Later} \cup IF Waits THEN {poll[a].began} ELSE {}

PollIssue(a) ==
    /\ poll[a].stage = "checked"
    /\ UNCHANGED <<act, claim, license, losing>>
    /\ \E now \in Times(a) :
         LET d == act[a].device
             seated == Seated(rows, d, poll[a].issuedAt, now)
             gen == Generation(seated, Nearest(seated, d))
             family == Family(seated, a)
             repeated == /\ ~tokens[Oldest(family)].revoked
                         /\ tokens[Oldest(family)].from = 0
                         /\ tokens[Oldest(family)].gen \in {0, gen}
         IN /\ Len(seated) <= MaxRows
            /\ \/ /\ ~Allows(seated, d, poll[a].issuedAt)
                  /\ rows' = seated
                  /\ poll' = [poll EXCEPT ![a] = NoPoll]
                  /\ UNCHANGED tokens
               \/ /\ Allows(seated, d, poll[a].issuedAt)
                  /\ family # {}
                  /\ rows' = seated
                  /\ poll' = [poll EXCEPT ![a] =
                       IF repeated THEN [poll[a] EXCEPT !.stage = "issued"] ELSE NoPoll]
                  /\ UNCHANGED tokens
               \/ /\ Allows(seated, d, poll[a].issuedAt)
                  /\ family = {} /\ Collides(a, gen)
                  /\ poll' = [poll EXCEPT ![a] = NoPoll]
                  /\ UNCHANGED <<rows, tokens>>
               \/ /\ Allows(seated, d, poll[a].issuedAt)
                  /\ family = {} /\ ~Collides(a, gen)
                  /\ Len(tokens) < MaxTokens
                  /\ rows' = seated
                  /\ tokens' = Append(tokens, Token(a, d, gen, 0, now))
                  /\ poll' = [poll EXCEPT ![a].stage = "issued"]
            /\ clock' = IF rows' = rows /\ tokens' = tokens THEN clock ELSE Later

\* At last the activation is completed, once.
PollComplete(a) ==
    /\ poll[a].stage = "issued"
    /\ poll' = [poll EXCEPT ![a] = NoPoll]
    /\ IF act[a].completed = 0
       THEN act' = [act EXCEPT ![a].completed = Later] /\ clock' = Later
       ELSE UNCHANGED <<act, clock>>
    /\ UNCHANGED <<rows, tokens, claim, license, losing>>

\* The poll dies, or the replay window is over.
PollStops(a) ==
    /\ poll[a].stage # "idle"
    /\ poll' = [poll EXCEPT ![a] = NoPoll]
    /\ UNCHANGED <<clock, rows, tokens, act, claim, license, losing>>

-----------------------------------------------------------------------------
\* refreshLicenseToken with the refresh token of t: t is rotated, or if that
\* was done already and the answer was lost, its successor is given again.
Successors(t) == {s \in DOMAIN tokens : tokens[s].from = t /\ Live(s)}

Presented(t) == IF Live(t) THEN t ELSE CHOOSE s \in Successors(t) : TRUE

\* Mutant: the rotated token is not revoked.
RevokeNone(t) == tokens

Revoke(t) == [tokens EXCEPT ![t].revoked = TRUE]

Rotates(t, gen) ==
    /\ Live(t)
    /\ Len(tokens) < MaxTokens
    /\ ~\E s \in DOMAIN tokens \ {t} : tokens[s].act = tokens[t].act /\ Live(s)
    /\ tokens' = Append(Revoke(t), Token(tokens[t].act, tokens[t].device, gen, t, Later))

RefreshInactive(t) ==
    /\ ~license
    /\ Live(t) \/ Successors(t) # {}
    /\ tokens' = Revoke(Presented(t))
    /\ UNCHANGED <<clock, rows, act, poll, claim, license, losing>>

Replays(s, gen) == tokens[s].gen \in {0, gen}

Refresh(t) ==
    LET s == Presented(t)
        d == tokens[t].device
        seated == Seated(rows, d, tokens[s].created, Later)
        gen == Generation(seated, Nearest(seated, d))
    IN /\ license
       /\ Live(t) \/ Successors(t) # {}
       /\ Len(seated) <= MaxRows
       /\ \/ /\ ~Allows(seated, d, tokens[s].created)
             /\ rows' = seated /\ UNCHANGED tokens
          \/ /\ Allows(seated, d, tokens[s].created)
             /\ rows' = seated /\ Rotates(t, gen)
          \/ /\ Allows(seated, d, tokens[s].created)
             /\ s # t
             /\ rows' = (IF Replays(s, gen) THEN seated ELSE rows)
             /\ UNCHANGED tokens
       /\ clock' = IF rows' = rows /\ tokens' = tokens THEN clock ELSE Later
       /\ UNCHANGED <<act, poll, claim, license, losing>>

\* verifyLicenseToken: a live token may take a free seat for its device.
Verify(t) ==
    LET seated == Seated(rows, tokens[t].device, tokens[t].created, Later)
    IN /\ license /\ ~tokens[t].revoked
       /\ seated # rows /\ Len(seated) <= MaxRows
       /\ rows' = seated
       /\ clock' = Later
       /\ UNCHANGED <<tokens, act, poll, claim, license, losing>>

\* authorizeLicenseDownload takes no seat: the token is current, and its device
\* has one, whatever the mode.
Authorizes(t) ==
    /\ license /\ Live(t)
    /\ Allows(rows, tokens[t].device, tokens[t].created) /\ Bound(rows, tokens[t].device)

\* deactivateAccountDevice: both seats and every token of the account.
Deactivate ==
    /\ Active(rows) # {} \/ \E t \in DOMAIN tokens : ~tokens[t].revoked
    /\ rows' = [i \in DOMAIN rows |->
                  IF i \in Active(rows) THEN [rows[i] EXCEPT !.gone = "deactivated"]
                  ELSE rows[i]]
    /\ tokens' = [t \in DOMAIN tokens |-> [tokens[t] EXCEPT !.revoked = TRUE]]
    /\ clock' = Later
    /\ UNCHANGED <<act, poll, claim, license, losing>>

\* Losing the licence: revokeLicenseCredentials updates the tokens it saw when
\* its statement began, without the device lock; those inserted since stay.
BeginLoss ==
    /\ Lossy /\ license /\ losing = {}
    /\ losing' = {0} \cup DOMAIN tokens
    /\ UNCHANGED <<clock, rows, tokens, act, poll, claim, license>>

LoseLicense ==
    /\ losing # {}
    /\ tokens' = [t \in DOMAIN tokens |->
                    IF t \in losing
                    THEN [tokens[t] EXCEPT !.revoked = TRUE, !.refresh = FALSE]
                    ELSE tokens[t]]
    /\ license' = FALSE /\ losing' = {}
    /\ UNCHANGED <<clock, rows, act, poll, claim>>

RestoreLicense ==
    /\ ~license
    /\ license' = TRUE
    /\ UNCHANGED <<clock, rows, tokens, act, poll, claim, losing>>

-----------------------------------------------------------------------------
Next ==
    \/ \E a \in Activations, d \in Devices : Start(a, d)
    \/ \E a \in Activations :
         \/ BindCheckout(a)
         \/ OpenPage(a) \/ Post(a) \/ ClaimActivation(a) \/ Transfer(a)
         \/ LeaveClaim(a)
         \/ PollRead(a) \/ PollCheck(a) \/ PollIssue(a) \/ PollComplete(a)
         \/ PollStops(a)
    \/ \E t \in DOMAIN tokens : RefreshInactive(t) \/ Refresh(t) \/ Verify(t)
    \/ Deactivate \/ BeginLoss \/ LoseLicense \/ RestoreLicense

Spec == Init /\ [][Next]_vars

-----------------------------------------------------------------------------
(* Properties *)

\* Whatever polls, verifications and moves race for the seats, a device never
\* holds two of them.
OneSeatPerDevice ==
    \A i, j \in Active(rows) : rows[i].device = rows[j].device => i = j

\* With the policy enforced, a live token belongs to a device that has a seat:
\* a move or a deactivation leaves no token behind, and none is issued past it.
LiveTokenHasSeat ==
    Mode = "enforce" /\ Migrated = {} =>
      \A t \in DOMAIN tokens : Live(t) => Bound(rows, tokens[t].device)

\* A device that was replaced or deactivated gets a seat again only by a move
\* to it or by an activation that had not been completed, in every mode.
NoReturnByCredential ==
    [][\A d \in Devices :
         RowsOf(rows, d) # {} /\ ~Bound(rows, d) /\ Bound(rows', d)
           => \/ \E a \in Activations : act[a].device = d /\ claim[a].stage = "claimed"
              \/ \E a \in Activations : /\ act[a].device = d
                                        /\ poll[a].stage \in {"read", "checked"}
                                        /\ poll[a].issuedAt = 0]_vars

\* docs/single-device-entitlements.md: the predecessor of a live token returns
\* the same family after a lost response.  Not so beside devices that predate
\* the registry, whose row is as old as their credential, and where a
\* transaction waits for the device lock.
LostAnswerReplays ==
    Mode = "enforce" /\ Migrated = {} /\ ~Waits =>
      \A t \in DOMAIN tokens :
        Live(t) /\ tokens[t].from # 0 /\ Bound(rows, tokens[t].device)
          => Replays(t, Generation(rows, Nearest(rows, tokens[t].device)))

\* Whatever the mode lets a token do, the account downloads on two devices at
\* most: of three tokens that authorise it two are one device's.
TwoDevicesDownload ==
    \A t, u, v \in DOMAIN tokens :
        Authorizes(t) /\ Authorizes(u) /\ Authorizes(v)
          => \/ tokens[t].device = tokens[u].device
             \/ tokens[u].device = tokens[v].device
             \/ tokens[t].device = tokens[v].device

\* The seats, whole: a device has one, a live token has its seat, a refresh
\* whose answer was lost still replays, and nothing a credential can do brings a
\* lost seat back (account.ts, devices).
SeatsHold ==
    /\ [](OneSeatPerDevice /\ LiveTokenHasSeat /\ LostAnswerReplays)
    /\ NoReturnByCredential

\* docs/single-device-entitlements.md: a move replaces the device that was
\* reviewed, never an unreviewed one.
ReviewedDeviceReplaced ==
    [][\A a \in Activations :
         claim[a].stage = "claimed" /\ Len(rows') > Len(rows) /\ rows'[Len(rows')].by = a
           => rows[claim[a].reviewed].gone = "no"
              /\ rows'[claim[a].reviewed].gone = "replaced"]_vars

\* README.md:1806: repeating a confirmation for the same unexpired activation
\* stays idempotent after it is linked.  A device that was moved to can be
\* connected: the activation its seat came from still yields a token, or has
\* yielded one that is not too old.
MovedDeviceConnects ==
    \A i \in Active(rows) :
      rows[i].by # None =>
        \/ act[rows[i].by].completed = 0
        \/ act[rows[i].by].completed >= rows[i].activated
=============================================================================

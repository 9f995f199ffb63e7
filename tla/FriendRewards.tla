---------------------------- MODULE FriendRewards ----------------------------
(***************************************************************************)
(* Friend rewards for downloads (api/_lib/download-referrals.ts, the        *)
(* branches it has in api/_lib/download-credits.ts, the tables of           *)
(* db/migrations/20260925120000_add_download_friend_rewards.sql): accounts  *)
(* connect their installations, invite, claim an invitation, and the first  *)
(* download that a newcomer finishes gives both of them thirty days.        *)
(*                                                                          *)
(* The advisory lock of the namespace, or the lock of the device and the    *)
(* wallet's row where an instance runs with the programme off, makes each   *)
(* operation one atomic step.  What interleaves is the order of the steps   *)
(* of several accounts, browsers and installations, and their retries.      *)
(*                                                                          *)
(* A tick of the clock is thirty days: it outlives a connection's fifteen   *)
(* minutes and a reservation's week, and is the length of a reward and of a *)
(* visit.  Balances are CreditWallet's; a wallet has credits left here.  A  *)
(* panel presents the credential it was given last, or none: another one is *)
(* refused without effect, and so is every request after 180 days.          *)
(***************************************************************************)
EXTENDS Naturals, FiniteSets

CONSTANTS
    Accounts, Devices, Keys, Visits, Connections,
    Founder,    \* an account that is a member from the start
    Home,       \* its installation, which makes no requests of its own
    Licensed,   \* <<account, device>> pairs of sidestream_account_devices
    Programme,  \* bound: which of "mcp", "paid", "off" and "used" happen
    MaxDay,     \* bound on the clock
    None

VARIABLES
    now,
    account,     \* the day each account was made, None before
    wallet,      \* by the device it was made for
    alias,       \* sidestream_mcp_wallet_devices: the account
    panel,       \* sidestream_download_referral_devices
    member,      \* its wallet and the end of its reward
    visit, claim, connection,
    charged,     \* reservations of credits, by wallet and key
    covered,     \* zero-cost ones
    grants

vars == <<now, account, wallet, alias, panel, member, visit, claim, connection,
          charged, covered, grants>>
links == <<alias, panel, member, connection>>
invitations == <<visit, claim, grants>>

Has(table) == {x \in DOMAIN table : table[x] # None}
Installations == Devices \cup {Home}
Slots == Installations \X Keys

FriendAssumption ==
    /\ Founder \in Accounts /\ None \notin Accounts \cup Slots
    /\ None \notin [owner : Accounts \cup {None}, day : Nat, used : BOOLEAN]
    /\ None \notin [wallet : Installations, until : Nat]
    /\ None \notin [inviter : Accounts, visit : Visits, key : Slots \cup {None}]
    /\ None \notin [status : {"reserved", "committed", "released", "expired"}, account : Accounts \cup {None}, day : Nat]

TypeOK ==
    /\ \A d \in Has(wallet) : wallet[d].owner \in Accounts \cup {None} /\ wallet[d].day \in 0..MaxDay
    /\ \A d \in Has(panel) : panel[d].account \in Has(member)
    /\ \A a \in Has(member) : member[a].wallet \in Has(wallet) /\ member[a].until \in 0..(MaxDay + 3)
    /\ \A s \in Has(charged) : charged[s].account \in Accounts \cup {None}
    /\ \A s \in Has(covered) : covered[s].account \in Has(member)
    /\ \A g \in grants : g.claim \in Has(claim) /\ g.account \in Has(member)

NewWallet(used) == [owner |-> None, day |-> now, used |-> used]
Reservation(a) == [status |-> "reserved", account |-> a, day |-> now]

Init ==
    /\ now = 0
    /\ account = [a \in Accounts |-> IF a = Founder THEN 0 ELSE None]
    /\ wallet = [d \in Installations |->
                   IF d = Home THEN [owner |-> Founder, day |-> 0, used |-> TRUE] ELSE None]
    /\ alias = [d \in Installations |-> None]
    /\ panel = [d \in Installations |-> IF d = Home THEN [account |-> Founder, credential |-> None] ELSE None]
    /\ member = [a \in Accounts |-> IF a = Founder THEN [wallet |-> Home, until |-> 0] ELSE None]
    /\ visit = [v \in Visits |-> None] /\ claim = [a \in Accounts |-> None]
    /\ connection = [c \in Connections |-> None]
    /\ charged = [s \in Slots |-> None] /\ covered = [s \in Slots |-> None]
    /\ grants = {}

-----------------------------------------------------------------------------
(* Wallets *)

WalletsOf(a) == {w \in Has(wallet) : wallet[w].owner = a}
\* selectWallet
WalletFor(d) ==
    IF alias[d] # None /\ WalletsOf(alias[d]) # {} THEN CHOOSE w \in WalletsOf(alias[d]) : TRUE
    ELSE d
\* An identity's downloads are its member's, wherever they are asked for.
Purse(d, with) == IF with THEN member[panel[d].account].wallet ELSE WalletFor(d)

\* releaseExpiredReservations
Lapsed(row) == row # None /\ row.status = "reserved" /\ row.day < now
Released(table, w) ==
    [s \in Slots |-> IF s[1] = w /\ Lapsed(table[s])
                     THEN [table[s] EXCEPT !.status = "expired"] ELSE table[s]]

SignUp(a) ==
    /\ account[a] = None /\ account' = [account EXCEPT ![a] = now]
    /\ UNCHANGED <<now, wallet, links, invitations, charged, covered>>

\* synchronizeDownloadCredits of a panel without a credential makes the wallet.
Sync(d, used) ==
    /\ wallet[WalletFor(d)] = None
    /\ wallet' = [wallet EXCEPT ![d] = NewWallet(used)]
    /\ UNCHANGED <<now, account, links, invitations, charged, covered>>

-----------------------------------------------------------------------------
(* Connections *)

\* startReferralConnection
StartConnection(c, d) ==
    /\ connection[c] = None
    /\ connection' = [connection EXCEPT ![c] = [device |-> d, account |-> None, day |-> now]]
    /\ UNCHANGED <<now, account, wallet, alias, panel, member, invitations, charged, covered>>

\* Who else may the installation belong to: the panel, the assistant, the
\* wallet, and the devices of licences.
Foreign(d, a) ==
    \/ panel[d] # None /\ panel[d].account # a
    \/ alias[d] \notin {None, a}
    \/ wallet[WalletFor(d)].owner \notin {None, a}
    \/ \E b \in Accounts \ {a} : <<b, d>> \in Licensed

\* A claimant's installation is new.  Mutant: only its age is looked at.
NewcomerByAge(a, w) == claim[a] # None => wallet[w].day >= visit[claim[a].visit].day
Newcomer(a, w) ==
    claim[a] # None => ~wallet[w].used /\ wallet[w].day >= visit[claim[a].visit].day

\* The index of the table: an account has one wallet.
Join(a, w) ==
    /\ Newcomer(a, w)
    /\ WalletsOf(a) \subseteq {w}
    /\ member' = [member EXCEPT ![a] = [wallet |-> w, until |-> 0]]
    /\ wallet' = [wallet EXCEPT ![w].owner = a]

\* completeReferralConnection.  The browser may confirm again.
Connect(c, a) ==
    /\ connection[c] # None /\ connection[c].day = now /\ connection[c].account \in {None, a}
    /\ account[a] # None
    /\ LET d == connection[c].device  w == WalletFor(d) IN
       /\ wallet[w] # None /\ ~Foreign(d, a)
       /\ IF member[a] = None THEN Join(a, w) ELSE UNCHANGED <<member, wallet>>
       /\ panel' = [panel EXCEPT ![d] = [account |-> a, credential |-> c]]
    /\ connection' = [connection EXCEPT ![c].account = a]
    /\ UNCHANGED <<now, account, alias, invitations, charged, covered>>

\* bindDownloadCreditAccount, with the assistant's consent in the browser.
\* Mutant: the panel's account is not asked.
BoundElsewhereButPanel(d, a) ==
    \/ alias[d] \notin {None, a}
    \/ wallet[d] # None /\ wallet[d].owner \notin {None, a}
    \/ \E b \in Accounts \ {a} : <<b, d>> \in Licensed
BoundElsewhere(d, a) ==
    \/ alias[d] \notin {None, a}
    \/ panel[d] # None /\ panel[d].account # a
    \/ wallet[d] # None /\ wallet[d].owner \notin {None, a}
    \/ \E b \in Accounts \ {a} : <<b, d>> \in Licensed

Busy(w) == \E k \in Keys : charged[w, k] # None /\ charged[w, k].status = "reserved"
                           /\ ~Lapsed(charged[w, k])
BindAssistant(d, a) ==
    /\ account[a] # None /\ alias[d] = None /\ ~BoundElsewhere(d, a)
    /\ LET own == WalletsOf(a)
           w == IF own = {} THEN d ELSE CHOOSE x \in own : TRUE
           imported == own # {} /\ w # d /\ wallet[d] # None IN
       /\ imported => ~Busy(d) /\ (wallet[d].used => ~Busy(w))
       /\ wallet' = [wallet EXCEPT ![w] =
                       IF own = {} THEN [IF @ = None THEN NewWallet(FALSE) ELSE @ EXCEPT !.owner = a]
                       ELSE [@ EXCEPT !.used = wallet[w].used \/ (imported /\ wallet[d].used)]]
       /\ charged' = IF imported THEN Released(charged, d) ELSE charged
       /\ covered' = IF imported THEN Released(covered, d) ELSE covered
    /\ alias' = [alias EXCEPT ![d] = a]
    /\ UNCHANGED <<now, account, panel, member, connection, invitations>>
\* A download through the assistant has no credential of the programme.
AssistantDownload(a) ==
    /\ \E d \in Installations : alias[d] = a
    /\ wallet' = [w \in Installations |-> IF w \in WalletsOf(a) THEN [wallet[w] EXCEPT !.used = TRUE] ELSE wallet[w]]
    /\ UNCHANGED <<now, account, links, invitations, charged, covered>>

-----------------------------------------------------------------------------
(* Invitations *)

\* startReferralVisit; a browser that comes back keeps its first visit.
Visit(v, a) ==
    /\ visit[v] = None /\ member[a] # None
    /\ visit' = [visit EXCEPT ![v] = [inviter |-> a, day |-> now]]
    /\ UNCHANGED <<now, account, wallet, links, claim, grants, charged, covered>>

\* claimDownloadReferral.  Mutant: a member may still claim.
NewAccountOnly(v, a) == account[a] # None /\ account[a] >= visit[v].day
NewAccount(v, a) ==
    account[a] # None /\ account[a] >= visit[v].day /\ member[a] = None
Claim(v, a) ==
    /\ visit[v] # None /\ now <= visit[v].day
    /\ visit[v].inviter # a /\ claim[a] = None
    /\ \A b \in Has(claim) : claim[b].visit # v
    /\ NewAccount(v, a)
    /\ claim' = [claim EXCEPT ![a] = [inviter |-> visit[v].inviter, visit |-> v, key |-> None]]
    /\ UNCHANGED <<now, account, wallet, links, visit, grants, charged, covered>>

-----------------------------------------------------------------------------
(* Downloads *)

Later(x, y) == IF x > y THEN x ELSE y
Starts(a) == Later(now, member[a].until)

\* qualifyDownloadReferral: both rewards, with the download that earned them.
Qualifies(a, s) ==
    IF claim[a] = None \/ claim[a].key # None THEN UNCHANGED <<claim, member, grants>>
    ELSE LET i == claim[a].inviter IN
         /\ member' = [b \in Accounts |->
                         IF b \in {a, i} THEN [member[b] EXCEPT !.until = Starts(b) + 1] ELSE member[b]]
         /\ grants' = grants \cup
              {[claim |-> a, role |-> "inviter", account |-> i, from |-> Starts(i)],
               [claim |-> a, role |-> "recipient", account |-> a, from |-> Starts(a)]}
         /\ claim' = [claim EXCEPT ![a].key = s]

\* reserveDownloadCredits, with the panel's credential or without.
Reserve(d, k, with, paid) ==
    /\ with => panel[d] # None
    /\ paid => with
    /\ LET w == Purse(d, with)
           s == <<w, k>>
           active == with /\ member[panel[d].account].until > now
           a == IF with THEN panel[d].account ELSE None
           kept == Released(charged, w)
           free == Released(covered, w) IN
       /\ wallet' = IF wallet[w] = None THEN [wallet EXCEPT ![w] = NewWallet(FALSE)] ELSE wallet
       /\ IF (with /\ covered[s] # None) \/ charged[s] # None
          THEN charged' = kept /\ covered' = free
          ELSE IF active \/ paid
          THEN charged' = kept /\ covered' = [free EXCEPT ![s] = Reservation(a)]
          ELSE charged' = [kept EXCEPT ![s] = Reservation(a)] /\ covered' = free
    /\ UNCHANGED <<now, account, links, invitations>>

\* A credential must be the one the download was reserved with.
Bearer(row, d, with) ==
    row.account # None => with /\ panel[d].account = row.account

\* Mutant: a download that failed earns the reward.
EarnsAnyway(row, outcome, with) == with /\ row.account # None
Earns(row, outcome, with) == with /\ row.account # None /\ outcome = "committed"

\* finalizeDownloadCredits.  An instance with the programme off does not look
\* at covered downloads, nor at credentials.
Finalize(d, k, outcome, with, off) ==
    /\ with => panel[d] # None /\ ~off
    /\ LET w == Purse(d, with)
           s == <<w, k>>
           kept == Released(charged, w)
           free == IF off THEN covered ELSE Released(covered, w) IN
       /\ wallet[w] # None
       /\ IF ~off /\ covered[s] # None
          THEN /\ Bearer(covered[s], d, with)
               /\ charged' = kept /\ UNCHANGED wallet
               /\ IF free[s].status # "reserved"
                  THEN covered' = free /\ UNCHANGED <<claim, member, grants>>
                  ELSE /\ covered' = [free EXCEPT ![s].status = outcome]
                       /\ IF Earns(covered[s], outcome, with) THEN Qualifies(panel[d].account, s)
                          ELSE UNCHANGED <<claim, member, grants>>
          ELSE IF charged[s] = None
          THEN charged' = kept /\ covered' = free /\ UNCHANGED <<wallet, claim, member, grants>>
          ELSE /\ Bearer(charged[s], d, with)
               /\ covered' = free
               /\ IF kept[s].status # "reserved"
                  THEN charged' = kept /\ UNCHANGED <<wallet, claim, member, grants>>
                  ELSE /\ charged' = [kept EXCEPT ![s].status = outcome]
                       /\ wallet' = IF outcome = "committed" THEN [wallet EXCEPT ![w].used = TRUE] ELSE wallet
                       /\ IF Earns(charged[s], outcome, with)
                          THEN Qualifies(panel[d].account, s)
                          ELSE UNCHANGED <<claim, member, grants>>
    /\ UNCHANGED <<now, account, alias, panel, connection, visit>>

Tick ==
    /\ now < MaxDay /\ now' = now + 1
    /\ UNCHANGED <<account, wallet, links, invitations, charged, covered>>

Next ==
    \/ Tick
    \/ \E a \in Accounts :
         \/ SignUp(a)
         \/ \E c \in Connections : Connect(c, a)
         \/ \E v \in Visits : Visit(v, a) \/ Claim(v, a)
         \/ "mcp" \in Programme /\ (AssistantDownload(a) \/ \E d \in Devices : BindAssistant(d, a))
    \/ \E d \in Devices :
         \/ Sync(d, FALSE)
         \/ "used" \in Programme /\ Sync(d, TRUE)
         \/ \E c \in Connections : StartConnection(c, d)
         \/ \E k \in Keys, with \in BOOLEAN :
              \/ Reserve(d, k, with, FALSE)
              \/ "paid" \in Programme /\ Reserve(d, k, with, TRUE)
              \/ \E outcome \in {"committed", "released"} :
                   \/ Finalize(d, k, outcome, with, FALSE)
                   \/ "off" \in Programme /\ Finalize(d, k, outcome, with, TRUE)

Spec == Init /\ [][Next]_vars

-----------------------------------------------------------------------------
\* The programme and the assistant never take one installation for two
\* accounts', whichever of them it was given to first, and a member's wallet is
\* the account's only one.
OneOwner ==
    /\ \A d \in Installations :
         Cardinality({alias[d], IF panel[d] = None THEN None ELSE panel[d].account,
                      IF wallet[d] = None THEN None ELSE wallet[d].owner} \ {None}) <= 1
    /\ \A a \in Has(member) : WalletsOf(a) = {member[a].wallet}

\* Nobody is, over any chain of invitations, his own inviter.
Inviters(as) == {claim[a].inviter : a \in as \cap Has(claim)}
InvitesNotItself ==
    \A a \in Accounts :
      LET chain[n \in 1..Cardinality(Accounts)] ==
            IF n = 1 THEN Inviters({a}) ELSE Inviters(chain[n - 1])
      IN \A n \in 1..Cardinality(Accounts) : a \notin chain[n]

\* A reward was earned: the two grants of a claim come together, with one
\* download that the recipient's own panel finished; and an account's rewards
\* never run at the same time, so that what was promised is what it gets.
RewardsAreEarned ==
    /\ \A a \in Has(claim) :
         {g.role : g \in {h \in grants : h.claim = a}} =
           IF claim[a].key = None THEN {} ELSE {"inviter", "recipient"}
    /\ \A a \in Has(claim) : claim[a].key # None =>
         \E table \in {charged, covered} :
           /\ table[claim[a].key] # None
           /\ table[claim[a].key].status = "committed" /\ table[claim[a].key].account = a
    /\ \A g, h \in grants : g.account = h.account /\ g # h => g.from # h.from
    /\ \A g \in grants : member[g.account].until > g.from

\* A recipient had never finished a download when it connected.
RecipientIsNew ==
    [][\A a \in Has(claim) :
         member[a] = None /\ member'[a] # None =>
           \A k \in Keys : charged[<<member'[a].wallet, k>>] # None =>
             charged[<<member'[a].wallet, k>>].status # "committed"]_vars
=============================================================================

---------------------------- MODULE MCDownloads ----------------------------
(* What a download costs and who may download, one component a part: the     *)
(* credit wallets; the friend rewards; the assistants of one account.        *)
EXTENDS CreditWallet, TLC

CONSTANTS
    None, founder, guest, home, laptop

VARIABLES
    part,
    now, account, wallet, boundTo, panel, member, visit, claim, connection, charged, covered, grants,
    clock, assistant, rows, licence, job, paidFrom

\* Two accounts over a month, with everything the programme has; two accounts
\* and three installations with the assistant; three accounts that invite.
Rewards == INSTANCE FriendRewards WITH Accounts <- {founder, guest}, Devices <- {laptop}, Keys <- {founder},
    Visits <- {guest}, Connections <- {home}, Founder <- founder, Home <- home, Licensed <- {},
    Programme <- {"mcp", "paid", "off", "used"}, MaxDay <- 1, alias <- boundTo
Assisted == INSTANCE FriendRewards WITH Accounts <- {founder, guest}, Devices <- Devices, Keys <- {founder},
    Visits <- {}, Connections <- Keys, Founder <- founder, Home <- home, Licensed <- {},
    Programme <- {"mcp"}, MaxDay <- 0, alias <- boundTo
Chain == INSTANCE FriendRewards WITH Accounts <- {founder} \cup Accounts, Devices <- Devices, Keys <- {founder},
    Visits <- Keys, Connections <- Keys, Founder <- founder, Home <- home, Licensed <- {},
    Programme <- {}, MaxDay <- 0, alias <- boundTo

\* Two assistants of one installation while seats and the licence come and go;
\* two that settle jobs; three installations for two seats.
Seats == INSTANCE McpDownloads WITH Connections <- Keys, Devices <- {laptop}, Requests <- {home},
    Prints <- {None}, Balance <- 1, Waits <- FALSE, MaxRows <- 2, Happenings <- {"devices", "licence"},
    connection <- assistant, ledger <- paidFrom
Jobs == INSTANCE McpDownloads WITH Connections <- Keys, Devices <- {laptop}, Requests <- Devices,
    Prints <- {None}, Balance <- 1, Waits <- FALSE, MaxRows <- 1, Happenings <- {"jobs", "tokens"},
    connection <- assistant, ledger <- paidFrom
Thirds == INSTANCE McpDownloads WITH Connections <- {founder}, Devices <- {laptop} \cup Devices, Requests <- {},
    Prints <- {}, Balance <- 1, Waits <- FALSE, MaxRows <- 3, Happenings <- {"devices", "pairing"},
    connection <- assistant, ledger <- paidFrom

ASSUME FriendsAssumed == Rewards!FriendAssumption /\ Assisted!FriendAssumption /\ Chain!FriendAssumption
ASSUME McpAssumed == Seats!McpAssumption /\ Jobs!McpAssumption /\ Thirds!McpAssumption

creditVars == vars
rewardVars == <<now, account, wallet, boundTo, panel, member, visit, claim, connection, charged, covered, grants>>
assistantVars == <<clock, assistant, rows, licence, job, paidFrom>>

Rewarding == {"rewards", "assisted", "chain"}
Assisting == {"seats", "jobs", "thirds"}

AllInit ==
    /\ part \in {"credits"} \cup Rewarding \cup Assisting
    /\ Init
    /\ CASE part = "assisted" -> Assisted!Init [] part = "chain" -> Chain!Init [] OTHER -> Rewards!Init
    /\ CASE part = "jobs" -> Jobs!Init [] part = "thirds" -> Thirds!Init [] OTHER -> Seats!Init
    /\ part \notin Assisting => licence
AllNext ==
    /\ UNCHANGED part
    /\ \/ /\ UNCHANGED <<rewardVars, assistantVars>>
          /\ part = "credits" /\ Next
       \/ /\ UNCHANGED <<creditVars, assistantVars>>
          /\ \/ part = "rewards" /\ Rewards!Next
             \/ part = "assisted" /\ Assisted!Next
             \/ part = "chain" /\ Chain!Next
       \/ /\ UNCHANGED <<creditVars, rewardVars>>
          /\ \/ part = "seats" /\ Seats!Next
             \/ part = "jobs" /\ Jobs!Next
             \/ part = "thirds" /\ Thirds!Next
AllSpec == AllInit /\ [][AllNext]_<<part, creditVars, rewardVars, assistantVars>>

\* Types of the records that the rewards and the assistants keep.
RecordsOK ==
    /\ CASE part = "assisted" -> Assisted!TypeOK [] part = "chain" -> Chain!TypeOK [] OTHER -> Rewards!TypeOK
    /\ CASE part = "jobs" -> Jobs!TypeOK [] part = "thirds" -> Thirds!TypeOK [] OTHER -> Seats!TypeOK
\* An installation is one account's, rewards are earned by one download of a
\* newcomer, and nobody invites himself (download-referrals.ts).  An assistant's
\* jobs end as the ledger says, its seat keeps it working, a device removed
\* stays removed, and an ended connection settles its own jobs (mcp.ts).
DownloadsHold ==
    /\ [](/\ RecordsOK
          /\ part = "rewards" => Rewards!OneOwner /\ Rewards!RewardsAreEarned
          /\ part = "assisted" => Assisted!OneOwner
          /\ part = "chain" => Chain!OneOwner /\ Chain!RewardsAreEarned /\ Chain!InvitesNotItself
          /\ part \in {"seats", "thirds"} => Seats!SeatedKeepsWorking
          /\ part = "seats" => Seats!JobsAgreeWithLedger
          /\ part = "jobs" => Jobs!JobsAgreeWithLedger)
    /\ Rewards!RecipientIsNew
    /\ Seats!RemovedStaysRemoved /\ Seats!EndedSettlesItsOwn

Symmetry == Permutations(Devices) \cup Permutations(Accounts) \cup Permutations(Keys)
=============================================================================

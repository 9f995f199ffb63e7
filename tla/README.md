# Sidestream website: formal models of its server

The server behind the Sidestream website (`api/`, Postgres, Stripe) sells a
plugin licence, subscriptions and download credits, decides which two computers
may use a licence, follows its customers from an advertisement to a purchase,
and answers their mail. This directory models the parts of it that carry money,
access and promises in TLA+: TLC checks them on small instances, TLAPS proves
the most important facts for instances of every size.

    tlc -workers 2 -config CreditWallet.cfg MCDownloads.tla
    tlapm CreditWalletProofs.tla

`PROJECT.json` lists components, runs, the source lines of every definition,
the hazards and the findings in machine-readable form.

## 1. The system

| Part | State | Operations | What is hard | Model |
| --- | --- | --- | --- | --- |
| Download credits (`download-credits.ts`, `api/credits/*`) | wallets, reservations, append-only ledger, device aliases | sync, reserve, finalize, expiry pass, pack purchase, fulfilment, account binding | client retries, lapses racing finalizes, redelivered Stripe events, bindings in the middle of either | `CreditWallet` |
| Friend rewards (`download-referrals.ts`) | members, invitations, connections, covered downloads | connect, invite, claim, qualify, cover | connecting with an open reservation, retries of every request | `FriendRewards` |
| MCP server (`mcp.ts`) | connections of assistants, jobs | start, approve, reserve, finalize, revoke | jobs that end after their connection or their seat | `McpDownloads` |
| Stripe event queue (`stripe-events.ts`, `stripe/webhook.ts`, cron) | one row per event: status, attempts, lease, claim token | record, claim a batch, process, mark, retry, bury | several drains, lapsed leases, death between effect and mark, duplicates | `StripeEventQueue`, `EventOutcomes` |
| One-time entitlement (`entitlement.ts`, `account.ts`) | licence row with reason and watermark | fulfil, apply refund, failed refund, dispute | events in any order, facts fetched before the lock, visits without an event | `OneTimeEntitlement` |
| Subscriptions (`account.ts`, `entitlement.ts`) | subscription licences with the same watermark | subscription, Checkout and invoice events, cancel | events read at one time and written at another, events of one second | `Subscriptions` |
| Activation, device seats, licence tokens (`account.ts`, `device-policy.ts`, `activation/*`, `license/*`) | activations, registry of two seats, token families | start, claim, move, poll, refresh, verify, deactivate, lose the licence | handlers of several transactions, seat races, lost answers | `DeviceLicense` |
| Device support command (`scripts/manage-license-device.mjs`) | bindings, credentials, audit | inspect, clear, note | snapshots taken before a lock is waited for | `DeviceSupport` |
| Checkout intents and Sessions (`account.ts`, `checkout/*`) | intent rows, Sessions at Stripe | start, reuse, expire, replace, complete | two windows, crashes between Stripe and the commit | `Checkout` |
| Prices and offers (`checkout-offers.ts`, `account.ts`, `scripts/provision-upgrade-plan-prices.mjs`) | Prices at Stripe, configured ids | find, create, converge, provision | requests that create the same Price at once, idempotent answers that have aged | `StripePrices` |
| Pricing experiment (`upgrade-pricing-experiment.ts`, `account.ts`) | assignments, pooled connections | decide, prove the Price, persist with the intent | overlapping deployments, panels that expire, a connection given back inside a transaction | `UpgradePricing` |
| Google sign-in and sessions (`auth/*`, `account.ts`) | accounts, sessions, cookies | start, callback, link, sign in, log out, a customer's account | tabs of one browser, a purchase and a sign-in that meet | `WebSessions` |
| Paid acquisition (`paid-acquisition.ts`, `paid-installer-email.ts`, `api/paid-acquisition/*`) | checkout rows, claims, mail outbox, bindings | land, start, complete, claim, mail, serve, refund | idempotency keys, concurrent visits, refunds between a read and its write | `PaidCheckout`, `PaidClaim`, `HandoffRepair` |
| Commerce ledger (`customer-commerce.ts` and its migration) | facts, payment keys, owners, totals | apply, attach, merge | snapshots in any order, fallbacks beside instruments | `CommerceLedger` |
| Customer identity (`customer-identity.ts`, `customer-profiles.ts`, backfill) | links, profiles, reviews | attach, merge, review, backfill | overlapping evidence in every order | `CustomerIdentity` |
| Customer usage (`customer-usage.ts`) | checkpoint, buckets, totals | sync, rescan | late rows, runs that die | `CustomerUsage` |
| Anonymous acquisition (`anonymous-acquisition.ts`, `acquisition-integrity.ts`, `anonymous-install-claim.ts`) | roots, sessions, claims, quarantine | visit, stage, claim, complete | contradictions that arrive later | `Acquisition` |
| Download leads (`download-leads.ts`, Blob, replay) | lead rows, Blobs | accept, store, mail, replay | database outage, lost answers, concurrent replays | `DownloadLeads` |
| Annual reminders (`annual-renewal-reminder.ts`) | reminder rows with leases | stage, send, cancel, retry | overlapping runs, a subscription that turns | `AnnualReminders` |
| Support desk (`support-*.ts`) | messages, jobs, alerts, audits | receive, triage, audit, alert, recover | send and verdict once under retries | `SupportDesk` |
| Operators' tools (`scripts/*`) | migrations, rollout manifest, test customer | apply, publish, advance, reset | crashes between two writes, old checkouts | `MigrationLedger`, `ReleaseRollout`, `AccountReset` |
| Rate limits, maintenance, reports, front end | | | single-row counters, projections, I/O | not modelled |

How the parts meet: Stripe's webhook only records an event in the queue. A
drain of the queue calls the entitlement, subscription, credit or
paid-acquisition code and then projects the event into the commerce ledger. The
entitlement code changes the licence row and, when it takes access away, revokes
the licence's tokens; the activation code hands out tokens for an active licence
and a seat. Checkout return pages and activation polls call the same fulfilment
code as the queue. The end of a paid activation binds the install, the activation
and the account to one customer profile; merges of profiles move the links,
facts and buckets that name them. An assistant's connection and a friend's
binding attach an installation's credit wallet to an account.

## 2. Modules

Every handler is split at its transaction boundaries: one transaction (or one
statement outside a transaction) is one action, because the code takes its row
or advisory lock before its first read that matters; everything else may run
between two of them. Where a transaction is long because it calls Stripe while it
holds its locks, the locks are modelled (`Checkout`). Expiry is a
nondeterministic step or a set of things that are due, never a clock in seconds.

**CreditWallet** - `wallets`, `row`, `ledger`, `reservation`, `alias` are the
tables; `overdue` is the set of reservations whose `expires_at` has passed;
`quoted` and `session` are the two points at which a purchase leaves the
transaction (the wallet id read, and Stripe's Session under the idempotency key
made of wallet and request). Every operation runs the expiry pass first
(`Released`, `Settled`) and commits one `Write`, as the code does. The model
has one price; the source charges video and audio the same. The referral mode
is `off`, the default.

**FriendRewards**, **McpDownloads** - what the programme and the assistants add
to a download. A tick of the programme's clock is thirty days. A request is one
transaction behind the namespace's or the connection's lock; what interleaves is
the order of the requests of several accounts, their retries and the owner's
other pages.

**StripeEventQueue** - a row's `status`, `attempts`, `token`, and `due` for a
passed `next_attempt_at` or `lease_expires_at`; a drain's batch with its attempt
numbers, its current event and the `stage` it is in. `granted` and `projected`
are the two effects of an event. `Throw` is an exception anywhere in the
`try`, `Die` a process that ends anywhere. A claim takes any set of at most
`BatchSize` candidates: the order of the LIMIT and SKIP LOCKED only narrow it.
**EventOutcomes** is what the queue promises without drains, leases or attempts;
`ImplementsOutcomes` is the refinement.

**OneTimeEntitlement** - Stripe's side (`refunded`, `dispute`, `events`) moves
freely; a reader (an event in a worker's hands, or a visit) fetches the Charge,
then the disputes, and then applies `Plan` in one transaction, if its stamp is
newer than the row's watermark. `missed` are events settled as
`missing_license`, before a licence row existed.

**Subscriptions** - a worker reads the subscription when it handles an event,
the invoice later and writes later still; `Kind` tells the licences of an
upgrade-pricing intent from those a price allowlist admits. Stripe may make several
changes in one second; their events are told apart by ids that say nothing of their
order (`Sent`), and `Newer` compares second and id as
`shouldApplyStripeEventWatermark` does. Withdrawing a cancellation (`Resume`), renewals,
failures and recoveries are Stripe's own steps; only `CancelLater` is a route. A Checkout
event of a legacy subscription reaches the same upsert (`account.ts:5714-5733`), and its
invoices are nobody's events.

**DeviceLicense** - the registry `rows` and `tokens` in order of insertion, and
`clock`, which orders writes: the code compares `activated_at`, `created_at`
and `completed_at`. A poll is read, check, issue, complete; a claim is page,
POST, claim, move. `losing` is the set of tokens that a running
`revokeLicenseCredentials` statement has seen, since it does not take the device
lock. `Authorizes` is the decision of a download, which writes only the times the
token and the seat were last seen. `Mode` is the rollout mode of the device
policy, `Migrated` the devices that had a token before there was a registry, and
`Waits` lets a token be stamped with the beginning of a transaction that waited
for the lock.

**Checkout** - a request is its intent and the Session made of it; `worker` is the
stage a request is in, which says the locks it holds; `stripe` is Stripe's side.
**PaidCheckout** - the same for the paid experiment, where rows are unique by
idempotency key and by landing page. **PaidClaim** - a run fulfils, completes,
claims and sends the mail, then goes on to what it was started for; each step is a
transaction, and refunds, disputes and profile merges run between them. Two
transactions read what they do not lock and are cut there: the claim of an activation
(`ReadClaim`, `ClaimPaid`: the claim row is locked, the payment's state and the licence
are as its snapshot had them) and the linkage (`Link`, `Associate`: the activation, the
claim and the checkout row are locked, the licence is not). `linking` holds the
linkages under way.
**HandoffRepair** - the operator's dry run and apply of one paid journey.

**StripePrices** - `prices` and `product` are Stripe's, `answered` what it replays
under an idempotency key; a request climbs down its `Ladder` by one call an action, and
`disturbed` records that something stood against it. **UpgradePricing** - `conn` is
the pool: who uses a connection, whether it is inside a transaction, and the locks it
holds, which is what makes a connection given back in a transaction visible.
**WebSessions** - a sign-in and a delivery are cut at their advisory locks; `recent` is
the order of `updated_at` that both of them pick the newest account by; `cookie` is the
browser's, read when a request is sent and written when it is answered.

**CommerceLedger** - `Apply` is a function of the tables, step by step as the SQL
function writes them: keys, fact, allocations, owners, totals.
**CustomerIdentity**, **CustomerUsage**, **Acquisition** - profiles are numbers in
order of creation and merges leave tombstones; a usage run reads and writes a
batch in two steps; a contradiction quarantines both sides for good. A bucket of
`CustomerUsage` is an installation and a day; a batch recounts every bucket within two
days of one it touches, from the events of just those days (`Near`, `Recount`), and
overwrites what was stored. A download counts on the day of its request, as finished if
the recount sees its outcome.

**DownloadLeads**, **AnnualReminders**, **SupportDesk** - queues with leases, each
with its own answer to a lost reply, a dead worker and a late one. In
`SupportDesk` jobs and alerts are one table of `Items`, as the two tables run the
same statements. **MigrationLedger**, **ReleaseRollout**, **AccountReset**,
**DeviceSupport** - an operator's command is split at its writes and may die
between them.

The `MC...` modules compose components that share a run. Components that share no
state run as `part`s: a behaviour stays in the part it starts in, the others stay
put, and the run's property is the conjunction of the parts' own properties.
`...Proofs` hold the theorems.

## 3. Runs

| Run | Bounds | Shows |
| --- | --- | --- |
| `credit_wallet` | 2 installations, 2 accounts, 2 keys, 1 request; rewards: 2-3 accounts, 1-2 installations; assistants: 2 connections | `Conservation`: granted = available + reserved + spent. `LedgerExplainsBalance`: the ledger adds up to the balance. `GrantedOncePerSession`: a redelivered event grants nothing. `NoReservationLeftBehind`, `BoundDeviceHasAccountWallet`: a binding strands nothing. `OutcomeIsFinal`: a settled reservation keeps its outcome. `DownloadsHold`: an installation is one account's, a reward is earned by a newcomer's one download, nobody invites himself; an assistant's jobs end as the ledger says, its seat keeps it working, a removed device stays removed. |
| `credit_purchase_binding` | 1 key | finding 1 |
| `delivery` | 2 events, 3 drains, 2 attempts, batches of 2; 7 snapshots of a purchase, 4 of a renewal, 2 profiles; 1-2 leads, 2 calls, 2 replays, 1 outage | `SettledIsHandled`: settled means both effects are committed. `DeadLetterSpentItsAttempts`. `LeaseIsExclusive`: nobody takes a row under a running lease. `TerminalIsFinal`: duplicates and late workers reopen nothing. `ImplementsOutcomes`: the queue implements `EventOutcomes`. `LedgerHolds`: payment keys are the components of what events named, facts the newest snapshots, owners the evidence's, and no payment is counted twice. `LeadsHold`: a lead that was answered ok is in the database or in a Blob, is counted once, and a Blob is deleted only as it was replayed. |
| `liveness` | 1 event, 2 drains, 3 attempts; 1-2 renewals, 1-2 runs, 2 attempts, 2 mishaps | `AcknowledgedIsSettled`: an acknowledged event ends settled or dead-lettered. `RemindersSettle`: a staged reminder is mailed, given up or canceled. `RemindersHold`: what was accepted was mailed, what was given up had spent its attempts, what is final stays. |
| `one_time_entitlement` | 4 events, 1 visit, 1 dispute, paid 2, 3 readers with facts at once | `NoAccessAgainstFacts`: when all is handled, a fully refunded, lost or openly disputed payment gives no access. `LostIsFinal`, `RevivedOnlyByNewerEvent`, `RefundUndoneOnlyByFailure`: what may bring access back. |
| `device_seats` | 3 devices, 3 activations, 2 handlers at once, 3 rows, 2 tokens; observe: three devices from before the registry, waiting transactions, 4 rows, 4 tokens | `SeatsHold`: one seat a device; a move or a deactivation leaves no usable token; the predecessor of a live token yields the same family; a device that lost its seat returns only by a move or a first activation. `ObservedSeatsHold`: the same while a third device is let in without a seat. |
| `operations` | 1 mail, 2 workers or 2 auditors, 2 attempts; each tool with 2 operators | `DeskHolds`: a completed message is triaged, whatever stops is alerted, nothing passes a gate unreviewed, what was reported delivered was sent; verdicts are final, finished rows stay, leases are exclusive. `OperatorsHold`: a repair joins one account's evidence and is never made against a refund; a reset takes no other customer's rows; a release widens by earned single steps; a migration runs once and someone can always go on; a cleared device stays shut. |
| `purchases` | claims: 1 payment, 2 accounts, 1-2 activations, 2 runs; Checkout: 3 requests, 1 activation, 2 offers; paid Checkout: 3 requests, 2 keys, 2 pages; subscriptions: 2 workers with 3-4 events, 1 worker with 4-6, 2-3 ids a second; Prices: 2 requests, 6 catalogues, 4 Prices, 1 mishap; pricing: 2 requests, 2 connections, 2 accounts, 5 configurations; sign-in: 2 tabs or 1-2 sign-ins with 1-2 deliveries, 2-3 accounts | `PaidCheckoutHolds`: requests of one key or one landing page get one Session, and every Session and answer belongs to a row. `ClaimHolds`: a claim is the buyer's, keeps its activation and account, and gains nothing once a refund or dispute is recorded; a mail has one sender; bindings converge and stay so. `CheckoutHolds`: of the Sessions a browser was sent to the one attached alone can be paid; none is made for an owner; a browser is sent only to one that Stripe takes. `SubscriptionHolds`: when all is handled the licence agrees with Stripe, a denied licence has no credential, an end is final, but for an event of the same second with a greater id. `OffersHold`: a Price is sold on the terms asked for, creations converge on one Price, an undisturbed request gets its offer; an account's arm is permanent, is made with its treatment and decided under its lock. `SignInHolds`: a session is the signer's; a purchase and a sign-in of one email meet in one account; a sign-in is credited to its own start; a logout ends its session. |
| `subscription_out_of_order` | legacy, 2 workers, 3 events | finding 2 |
| `customer` | 3 pieces of evidence, 3 profiles, 2 accounts; 2-3 events, 4 buckets of 2 installations and 3 days, an outcome on the same or the next day, 2 days of runs, batches of 1; 2 roots, 2 claims | `IdentityHolds`: links point at live profiles, a profile has one account, evidence presented together ends together or under review, none is lost. `UsageHolds`: no event within the lateness that the overlap allows is missed, the checkpoint only moves forward, and neither an event nor a download that finished on its own day is counted away again. `VisitsHold`: contradictions quarantine both sides, with evidence, for good. |
| `leads_lost` | 1 lead, 2 requests, 1 replay | finding 3 |
| `paid_twice` | 3 snapshots | finding 4 |

Why the bounds are enough. Two installations and two accounts give every
relation between a device, its wallet and an account's (own, adopted, left
behind), and two keys a reservation that is settled while another is open; a
second request adds another independent grant. Three drains let one hold a
row, one have lost it and one wait for it, and two attempts make the second the
last one. Four events allow a refund, its failure and a later event after the
Checkout event, with a visit that overlaps all of them. Three devices are one
more than the seats; a third registry row is a move or a return after a
deactivation. In a queue two workers are one whose lease has lapsed and one that
took over. Three Checkout requests are one that holds a Session, one that
replaces it and one that comes between. Two activations and a second account are
what a paid claim can be confused about; one run beside one lifecycle event is a refund
between a read and its write. Of subscriptions, two workers and three events with three
ids are an end beside a cancellation or its withdrawal, of one second or two; two workers
and four events with two ids a failed renewal that recovers; one worker with four events a
cancellation that runs out or is archived, with six a failure, its recovery and another
one. Three events of an installation are a download, its outcome on the next day and an
event two days before the request, which is what cuts the window of a recount. Seven snapshots are each object of a
purchase with a second, later one of the Charge and the dispute. The constants of the
`.cfg` files and of the instances in the `MC...` modules, and the guards that use
`MaxEvents`, `MaxReading`, `MaxBusy`, `MaxRows`, `MaxTokens`, `MaxAttempts`,
`MaxClaims`, `MaxRecover`, `MaxTime`, `MaxWrites`, `MaxMishaps`, `MaxTurns`,
`MaxDay`, `MaxClock`, `MaxIntents`, `MaxCommits`, `MaxRuns`, `MaxProfiles`,
`MaxCommands`, `MaxBindings`, `MaxCredentials`, `MaxLicences`, `MaxPrices` and
`MaxAccounts`, with the sets `Turns`, `Answers`, `Expiring`, `Changes`, `Ids` and
`Happenings` of what may happen at all, are the only bounds.

Deadlock is not checked: each system really may stop (every wallet spent, every
event settled, every activation done), each bound stops the model, and a part
that has nothing left to do ends.

Fairness, in the liveness run only: some drain claims again and again (the
five-minute cron and every webhook start one), a drain that runs goes on or
dies (`WF` of its whole next step, so it may die at any of them each time), and
due times pass; the reminder cron likewise. Nothing is assumed of Stripe, of the
mail provider, of the success of an attempt, or of any single drain being
started. That one event cannot starve another is not checked by the run: a row is
claimed at most `MaxAttempts` times, so older rows can hold up a newer one for a
bounded number of claims.

## 4. Findings

Each has a run that ends in the counterexample, of a sentence that the
repository states.

1. A pack paid for while its installation is being bound to an account's wallet
   is granted to the wallet left behind (`download-credits.ts:946`). The binding
   refuses to abandon purchased credits but cannot see a purchase under way.
2. The end of a legacy subscription is ignored when no licence exists yet, and a
   worker that read the subscription earlier then opens one that no event ends
   (`account.ts:4584`).
3. The second submission of a lead that falls back to a Blob is deleted by the
   replay without having been counted (`download-leads.ts:521`).
4. The Checkout of a subscription stays beside the settled intent of the same
   payment, and its money is counted twice
   (`20260715122000_add_customer_commerce_ledger.sql:597`).

Others were met while modelling and have no run of their own:

- Entitlement. A refund handled before the licence exists is settled for good as
  `missing_license`, while a fulfilment that fetched its facts before the refund
  inserts an active licence (`account.ts:6348`). When a later event of the charge is
  applied before `refund.failed`, the watermark makes `refund.failed` stale, and
  nothing else lifts `full_refund` (`entitlement.ts:980`). Two Stripe events of one
  second are ordered by their ids (`entitlement.ts:918`): with `SameSecond = TRUE` TLC finds
  `NoAccessAgainstFacts` violated.
- Subscriptions. The same tie (`entitlement.ts:903-919`) may rank the deletion of a
  subscription below an update of its second: the deletion is then answered as processed,
  stale and without effect, and if a worker read the subscription for the update before it
  ended, the licence stays active with nothing left to end it. Without `Newest(e)` in
  `EndIsFinal`, or `Latest(e)` in `SettledAgrees`, TLC finds both violated.
- Paid claims. `docs/paid-acquisition-contract.md:683` says that the server "locks the
  payment/claim record, re-verifies payment"; the claim transaction locks the claim row
  alone (`paid-acquisition.ts:2276-2299`), so one that read the payment before a refund or
  a dispute was recorded writes `claimed` over the claim row afterwards, and names the
  signed-in buyer. The checkout row keeps what was recorded, which is why no linkage
  follows (`LostGainsNothing`). The linkage itself reads the licence unlocked
  (`paid-acquisition.ts:1657-1717`): it may commit after a revocation whose record has
  not reached the checkout row.
- Usage. A batch recounts the days within two of a touched one from the events of just
  those days and overwrites them (`customer-usage.ts:1174-1186`, `1607-1626`). A late event of a
  day D recounts D+2 without the events of D+3, unless its batch touches a later day too, so a download that was requested on D+2
  and finished on D+3 goes from success back to pending, although
  `docs/customer-360.md:791` calls a finalization with `file_delivered=true` a success. A
  later batch near D+2 or D+3, or the operator's rescan, counts it again. Without
  the restriction to the request's own day TLC finds `CheckpointKeeps` violated.
  An outcome more than two days after its request is counted only if one batch reaches
  both days.
- Pricing. When the panel's activation is no longer pending, `createCheckoutIntent`
  returns behind its lock without a commit or a rollback (`account.ts:1631`), and
  `withPgClient` only gives the connection back: the transaction stays open and the
  account stays locked until the connection's next user ends it (the second
  disjunct of `Lock`, `StrayLocks`). What that next user begins joins the transaction.
- Sign-in. An account that a later Checkout of its customer gave another email
  (`account.ts:8397`) is not found by its email any more; when its owner signs in
  beside a second account of that email, the link meets the unique Google subject and
  every further sign-in fails alike (`upsertGoogleAccount`, `FailsForReason`). The
  error page says "No account was changed." (`account.ts:299`) although the account may
  have been made or linked before `createWebSession` failed.
- Devices. The page of a move says which device will be replaced, the POST
  replaces whichever is the one to replace by then (`claim.ts:210`). Repeating the
  confirmation of a completed activation moves a seat again, to a device whose polls
  then answer `device_replaced` or `completed` without a token (`account.ts:4250`). A
  device from before the registry takes a seat with a row as old as its credential,
  which renumbers the generations of others; with such devices `LostAnswerReplays`
  is violated in `enforce` mode. The runs have none there.
- Support command. Its snapshot is taken before it waits for its locks, and it does
  not take the app's device lock: a clear ends only the first of two seats, and a
  command that waited fails whenever the first one changed anything.
- Checkout. A reused Session belongs to the activation; the visitor may be another
  account than the one it was opened for (`account.ts:2148`, `ChargesItsVisitor`).
- Queue. `docs/api-hardening-runbook.md:650` and `README.md:1917` say that a row
  whose process died is claimed again whatever its attempt count;
  `claimStripeEvents` buries it once the attempts are used up
  (`stripe-events.ts:133`), which is what `ClaimBatch` does.
- Maintenance. `runMaintenanceJob` deletes Checkout intents a week past their
  expiry (`maintenance.ts:325`) although `sidestream_paid_acquisition_checkouts`
  references them with `on delete restrict`; the job is one transaction, so one such
  row undoes all of it. Its deletion of activations meets the same.
- Acquisition. An exact replay of a completed claim after its profile was merged
  is answered as a conflict and quarantines the session; fulfilling an open paid
  Checkout of a quarantined acquisition throws, so its event is retried until it is
  dead-lettered (`account.ts:5880`).
- Handoff repair. It takes profile rows before the merge lock, an ordinary merge
  the other way round; a won dispute restores `payment_state` but leaves
  `claim_state` at `disputed`.
- Account reset. An apply compares the target database's fingerprint, not the
  state's; deletions at Stripe follow the commit, so a crash leaves them to a second
  run.
- Rewards and assistants. A reserve retried with its key but without its
  credential charges credits beside the covered reservation; completing an older
  connection page again restores the older credential; an account whose wallet was
  bound on one installation cannot join from a second, unbound one. `paid_bound_at`
  is the start of its transaction (`mcp.ts:107`) while the seat's `activated_at` may
  be later: with `Waits` TRUE a connection whose seat stands is refused.
- Rollout. Hours at a percent are counted from the write of the file, not from
  its deployment; a manifest republished at its first step counts all earlier
  intents of its version.
- Commerce. A stale success snapshot never dates a payment; a merge clears the
  conflicts of the whole namespace.

## 5. Proofs

All are for arbitrary values of the constants, under the named assumptions
`CreditAssumption`, `QueueAssumption`, `EntitlementAssumption`, `DeviceAssumption`
and `SupportAssumption` of the components; and, as hypotheses of the theorems,
`CommerceAssumption`, `PricingAssumption`, `PricesAssumption`, `SignInAssumption`,
`SubscriptionAssumption`, `FriendAssumption`, `McpAssumption` and `LeadsAssumption`, which
the runs evaluate for their instances, that the bound
`MaxAttempts` of the reminders is a number, and `Separate`: in `PaidClaimProofs`, `None` is no identity and
activations, installations and accounts are different things; in `CheckoutProofs`,
`None` is no request and no activation. Each module has one inductive
invariant, a lemma for every action, and short theorems at its end. TLC checked
each inductive invariant on the run's instance before it was proved.

- `CreditWalletProofs`: `TypeCorrect`, `CreditsConserved`, `PackGrantedOnce`,
  `NothingLeftBehind`, `BoundDeviceReachesAccount` and the action property
  `OutcomesFinal`. `Conservation` is not inductive: the expiry pass adds `Cost` for
  every overdue key, so one needs that an overdue key is still reserved, and that an
  unopened wallet holds no reservation (`BalanceInv`). The argument is made once for
  a settled wallet and once for `Write`; each action supplies the row that it
  writes. Counting open keys is by the cardinality lemmas of `FiniteSetTheorems`.
  `GrantInv` adds that an unopened wallet has no packs; every operation but
  `Fulfill` is shown to write no purchase entry and to keep the granted column
  (`GrantsNothing`). `BindingInv` adds that an account owns at most one wallet, that
  a wallet with an owner was bound from its own device, and that a bound device's
  account has a wallet. The key lemma: whatever wallet an operation reaches is
  reached by its own device as well, so a wallet left behind is never reserved in
  again. `LedgerExplained` is about sums over the ledger: that a sum of a finite set is
  the sum of a part and of the rest is an induction over data, which is argued by a
  smallest counterexample (`WellFoundedInduction` on proper subsets, with the set of
  counterexamples as a plain set). `LedgerInv` adds that every entry tells
  what the rows say (a reservation made, an outcome that stands, a Session granted), so
  that an entry an operation is about to write cannot be there yet.
  `FriendsRewardedFairly` is about `FriendRewards`: one owner of an installation
  (`OneOwner`), rewards that were earned (`RewardsAreEarned`) and recipients that were new
  (`RecipientIsNew`), for any accounts, installations and retries. `FriendInv` names what
  each rests on. `TiesOK`: the panel, the assistant and the wallet agree on their account,
  and a member's wallet is its only one, so that a download with a credential and one
  without meet in one place. `GrantsOK`: an invitation is a member's and never the
  claimant's own, a claim has grants exactly when its download stands committed, and a
  grant starts where the account's last one ended, so two never run at once. `SpentIsUsed`:
  a wallet that paid for a download is marked as used through every import by an assistant,
  which is what the look at a newcomer's wallet relies on. `DoneStays` says once that no
  expiry, retry or import takes a finished download away.
  `AssistantsServed` is about `McpDownloads`. That jobs and ledger agree needs no more than
  their own relation (`JobsOK`), in every mode. What the seats promise is proved under the
  hypothesis `~Waits`, where a transaction is stamped with its own time: `RowsOK` orders the
  registry by activation and puts a device's row behind everything that happened to its
  earlier ones, and `BindingsOK` a binding behind its seat; with `Waits` they fail, which is
  the finding of section 4.
- `StripeEventQueueProofs`: `TypeCorrect`, `SettledHandled`, `DeadLetterSpent`,
  the action properties `LeaseExclusive` and `TerminalFinal`, and `Refinement`: the
  queue seen without its drains implements `EventOutcomes`, each step a step of the
  abstract specification or a stutter. The invariant ties a drain's stage to the
  effects that are committed, and a claim token to the attempt number its holder
  works under; without the latter a worker of an earlier attempt could settle a
  later one's row.
  The second half of the module is about the ledger that the queue projects to:
  `KeysComponents`, `FactsNewest` and `OwnersByEvidence` are three of the four parts of
  `LedgerHolds`, for any events in any order. Each function of the tables (`Rekeyed`,
  `Upserted`, `Allocated`, `Reconciled`, `Moved`) has a lemma that says what it keeps:
  facts tell the newest (`FactsTell`), aliases of an event share a key and nothing else
  does (`KeysTie`), nobody owns under a merged name (`OwnersLive`); `Agree` holds behind
  every reconciliation, whatever was before it. The attempt to prove `FactsNewest` found that
  a snapshot at time 0 would not be newer than no fact; `CommerceAssumption` says so now.
  `LeadsKept` is about `DownloadLeads`. `LeadInv` counts what a lead's Blobs still wait to
  add (`ToCome`): with the row it is never more than was submitted, since a path is
  carried over once. That nobody loses a lead who was told ok rests on `CarriedOK`: what a
  receipt, a key or a migration says is carried over has a row, so a Blob that goes has left
  one. A version of a Blob stands for its content (`PassOK`, `CallOK`), which is what the
  conditional put and delete compare.
- `OneTimeEntitlementProofs`: `TypeCorrect`, the action properties `LostFinal`,
  `RevivedByNewer`, `RefundUndoneByFailure`, and `NoAccess`. The invariant of the
  first adds that each reason goes with one status (so a row whose reason is kept is
  kept whole) and that whoever holds facts is a visit or an event that was sent.
  `PlanIsRow` says once what the plan may be; `ApplySteps` that only it is ever
  stored. `NoAccess` needs `FactsInv`, which orders the facts of readers: an event
  that was settled lies below the watermark, the newest event is still there, a
  reader of it holds facts as fresh as Stripe's, and a row stored under the newest
  stamp says what they say. Older readers may hold anything, since the watermark
  stops them.
  `RemindersTrue` is about `AnnualReminders`: `MailInv` says that a run which is to mark
  a row as accepted or lost has mailed it, whoever holds the row by then (`RunKnows`),
  and that no run holds an attempt number above the row's, so an attempt that was the
  last one was the row's last.
  `SubscriptionsTrue` is about `Subscriptions`, for both kinds. `SubInv` says what the
  watermark rests on: Stripe changes nothing without an event, so a worker that read for
  an event of the last change holds the present (`Holding`), a row that such an event wrote
  agrees with Stripe (`Agrees`), and a processed event is not newer than the row
  (`Reached`). Workers and rows of an earlier change need not agree with anything
  (`StripeStep`). The order of changes is not the watermark's order, since changes of one
  second are ranked by ids; so `SettledAgrees` and `EndIsFinal` speak of states in which
  the newest event is one of the last change, and an end is final because the deletion
  then stays the newest event for ever: nothing follows an end.
- `DeviceLicenseProofs`: `TypeCorrect` and `SeatsCorrect` (all of `SeatsHold`). That
  a device has one seat needs that slots are unique among active rows, so there are
  two at most and one of them is the latest; that a claim which decided to move finds
  both seats taken and its own row the latest (`ClaimsOK`: the move does not look
  whether its device has a seat meanwhile); that a live token names its device's
  active row and no newer row is older than it (`SeatsBehind`); and, in the enforced
  mode, that rows are numbered in the order they were made and that what a poll
  issued is on record (`StrictOK`, `PollsOK`). `DownloadsSeated` says of every mode
  that two devices at most download (`TwoDevicesDownload`): outside the enforced mode
  a third may hold a live token, and `authorizeLicenseDownload` asks for the seat
  itself. It is no property of a run, since `device_seats` has two tokens; TLC
  confirmed it apart, with three migrated devices in observe mode.
- `SupportDeskProofs`: `TypeCorrect` and `DeskCorrect` (all of `DeskHolds`). The
  invariant says that a worker who is done with an item has done its work, that
  actions follow their gates and audits their actions, and that the log is true:
  every line in it was written by an attempt that was counted.
- `PaidCheckoutProofs`: `TypeCorrect` and `PaidCheckoutCorrect`. Rows are unique
  by key and by landing page and are the requests' own; a request behind a stage has
  the row that the stage made (`StagesAreEarned`), an answer has its row, and a
  Session its record.
  `SignInsCorrect` is all that `WebSessions` promises (`SignInCorrect`). Its invariant
  `SignInv` says what the advisory locks are for: whoever looks for accounts by email
  holds the email's lock, and what a search that found nobody relies on stands until
  it inserts (`Unclaimed`, `Unknown`), because no other writer makes an account of that
  email (`Welcome`), and no write takes a subject from a row or gives it another email
  without marking it renamed (`RowKept`). `OthersFit` says once for every action what
  the step of one actor leaves of the others' claims. A link fails, if nothing else
  does, over another account of its subject; of two accounts of one email where one is
  nobody's, one was renamed, so the failure has the reason that section 4 tells
  (`Reasoned`).
- `PaidClaimProofs`: `TypeCorrect`, `ClaimsCorrect`, `OneRunSends`,
  `BindingsStayConverged` and the action properties `ClaimsFinal` (`ClaimIsKept` and
  `LostGainsNothing`). `ClaimsIInv` says that
  rows of a payment are made together, that only a claim has an activation and
  that it has a binding, that a run which sends has marked the mail, and that
  whoever has a profile keeps one. Bindings converge for good because a merge moves
  every identity of the profile that goes, and an association looks at the owners
  again after the merge, in the same transaction. What a request read before it writes is
  in it too: a claim that is decided to be `claimed` was the buyer's when it was read, and
  stays so, as neither the buyer nor the activation's account changes (`Decided`), and a
  linkage under way holds the activation of its account (`Linked`); nothing is said of the
  payment or the licence, which may be lost meanwhile. That a lost claim gains nothing then
  rests on what a linkage reads under its locks. The proof of convergence found a
  guard that an earlier model lacked (`paid-acquisition.ts:1901-1925`).

- `CheckoutProofs`: `TypeCorrect`, `SessionsKnown`, `PayableAttached` and the
  action properties `OwnersNotCharged` and `HandedOpen`. The invariant says that a
  request under way has a pending row without a Session, that every Session a
  browser was sent to, an activation has or a request replaces stands in the row it
  was made of, and that rows which share a Session share its attempt (so it does not
  matter which of them is updated last). `PayableIsAttached` then needs two facts of a
  commit: it compares the attached Session with the one it read, and what it
  replaces has expired (`ReplacedIsExpired`); the lock of the activation is not
  needed for it. The lock of the account is, for `OwnersAreNotCharged`: whoever
  holds it does not own a licence (`OwnersOutside`), since a fulfilment waits for it.
  `OneBuyerAtATime` and `ArmsArePermanent` are about `UpgradePricing`: a request behind
  the lock uses a connection that holds it (`ConnInv`), and what an undecided request
  will persist is still allowed by the row, since only it may write it. `OffersAsApproved`
  is about `StripePrices`: what was found lower on the ladder, what is remembered under
  an idempotency key and what holds a lookup key have the terms that were asked for, or
  the request was disturbed. With `OneAtATime`, `StrayLocks`, `SnapshotsRead`,
  `AssignmentIsPermanent`, `BalanceIsClean`, `SoldAsApproved` and `FailsForReason` all of
  `OffersHold` but `SameForAll` is proved. Proving found that `SameForAll` was said too
  boldly: a request that was disturbed may create a Price that another one finds.

Only model-checked:

- Liveness (`AcknowledgedIsSettled`, `RemindersSettle`): TLAPS reasons neither about
  fairness nor about ENABLED here.
- `PaidOnce`, the totals of the commerce ledger: an inductive reason for it would have to
  relate four kinds of stand-ins with the payments that they stand for; as finding 4
  shows it depends on what Stripe's objects name, which is the instance's choice.
- `SameForAll` of `StripePrices`, which depends on the order in which several requests
  found what they sell.
- `InvitesNotItself` of `FriendRewards`, over chains of invitations of every length: a
  function along the chain, so an induction over data.
- The properties of the components that no module above proves about: identity, usage,
  acquisition and the operators' tools; of the rewards, reminders and leads their types,
  which bound counters by the instance; and the conjunctions that the `MC...` modules make
  of their parts, of which several parts are proved.

## 6. Left out, and the plan

Left out of the modelled parts: payments that are captured in part or several
payments of one account; legacy clients whose access token rolls forward;
cryptographic derivation (a token is identified by its predecessor and
generation), cookie signatures, rate limits and coupons; discounts, taxes and the queries of the ledger; the texts of
OAuth and of the assistants' tools. Each component's note in `PROJECT.json` says
the rest. In `PaidClaim` the licence of an activation is not compared with the
claim's entitlement, and several pending reviews of one profile and account are
one: both allow more behaviours than the code has. `Acquisition.Finalize` leaves out
`invalid_stage_time` (`acquisition-integrity.ts:417`), which rolls everything back. In
`Subscriptions` the return page's own run of a subscription Checkout is left out: for an
upgrade it has the Checkout's creation time as its watermark (`account.ts:5690-5708`), for a
legacy one none at all, so that it overwrites the row unconditionally
(`account.ts:5724-5728`). In `CustomerUsage` a download is requested once, and its outcomes
are not told apart.

Not modelled: rate limits and maintenance (single-row counters, deletions);
reports (read-only); the front end.

What a continuation would take up first: the deletions of the maintenance job, which
meet references (section 4); the return page's run of a subscription
Checkout; proofs for `Acquisition`. What
`CustomerIdentity` says rests on a recursive walk along merges, out of reach here.

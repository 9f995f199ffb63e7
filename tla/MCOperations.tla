--------------------------- MODULE MCOperations ---------------------------
(* The operations of the site: the support desk, which is the module extended, *)
(* and the operators' tools, instances whose operators are the desk's workers. *)
EXTENDS TLC, SupportDesk

CONSTANTS
    Accounts, Customers, Licences, Activations, Intents, ProfileRows,
    TestAccounts, TestCustomers, None, AbsentRow

MCEmails == {[injected |-> FALSE, systematic |-> FALSE], [injected |-> TRUE, systematic |-> FALSE]}
MCAnswers ==
  {[verdict |-> "pass", risk |-> FALSE, systematic |-> FALSE, human |-> FALSE, action |-> "code_change_request"],
   [verdict |-> "pass", risk |-> FALSE, systematic |-> FALSE, human |-> TRUE, action |-> "code_change_request"]}
Change == [kind |-> "pull_request", target |-> "named", scope |-> {"support"}, rows |-> 0,
           registered |-> FALSE, environment |-> "test", bound |-> FALSE]
MCArtifacts == {Change, [Change EXCEPT !.scope = {"support", "core"}]}
MCOpinions == {[verdict |-> "pass", core |-> FALSE, human |-> FALSE]}

VARIABLES
    part,
    review, link, merged, root, purchase, fact, binding, confirmed,
    account, licence, activation, intent, absorbed, linked, stripe, run,
    main, checkout, tool, public, served, intents, kpi, clock,
    schema, ledger, lock, migrator, runs,
    bindings, credentials, licences, command, commands

\* Two workers beside one audit at a time; two auditors and recoveries beside one
\* worker at a time.
DeskStep ==
    /\ Next
    /\ Cardinality({a \in Auditors : audit'[a] # NoAudit}) <= 1
    /\ \A i \in Items : row'[i].recovered = 0
AuditsStep == Next /\ Cardinality({w \in Workers : held'[w] # NoClaim}) <= 1

Claims == INSTANCE HandoffRepair WITH Operators <- Workers,
    Happenings <- {"identity", "commerce", "claim"}
Refunds == INSTANCE HandoffRepair WITH Operators <- Workers,
    Happenings <- {"refund", "quarantine", "time", "commerce", "claim"}
Reset == INSTANCE AccountReset WITH merged <- absorbed, link <- linked, Profiles <- ProfileRows
\* A first release and a rebuild of it, three steps.
Release(a) == [version |-> "v1", artifact |-> a, percent |-> 1, critical |-> FALSE]
Rollout == INSTANCE ReleaseRollout WITH Releasers <- Workers, FirstRelease <- Release("a1"),
    Releases <- {Release("a2")}, Steps <- 3, MinClosed <- 1, MinAdditional <- 1, MinHours <- 1,
    MaxAge <- 0, Verdicts <- {TRUE}, MaxClock <- 2, MaxIntents <- 2, MaxCommits <- 2
\* The whole migrations, an older checkout and one whose last file was edited.
Tree(n, edited) == [f \in 1..n |-> IF f = edited THEN "edited" ELSE "known"]
Migrations == INSTANCE MigrationLedger WITH Migrators <- Workers,
    Trees <- {Tree(4, 0), Tree(3, 0), Tree(3, 3), Tree(4, 1)}, Core <- {1}, RlsFile <- 2,
    KnownSum <- "known", OnlyFile <- 4, Prerequisite <- 2, MaxRuns <- 4, Nobody <- None
\* Two commands on one licence; one command beside a second licence.
Support == INSTANCE DeviceSupport WITH Supporters <- Workers, Seats <- Activations, Limits <- {5},
    MaxBindings <- 2, MaxCredentials <- 3, MaxLicences <- 1, MaxCommands <- 2
Renewed == INSTANCE DeviceSupport WITH Supporters <- Workers, Seats <- Activations, Limits <- {5},
    MaxBindings <- 2, MaxCredentials <- 2, MaxLicences <- 2, MaxCommands <- 1

repairVars == <<review, link, merged, root, purchase, fact, binding, confirmed>>
resetVars == <<account, licence, activation, intent, absorbed, linked, stripe, run>>

rolloutVars == <<main, checkout, tool, public, served, intents, kpi, clock>>
migrationVars == <<schema, ledger, lock, migrator, runs>>
supportVars == <<bindings, credentials, licences, command, commands>>
toolVars == <<rolloutVars, migrationVars, supportVars>>

OperationsInit ==
    /\ part \in {"desk", "audits", "claims", "refunds", "reset",
                 "rollout", "migrations", "support", "renewed"}
    /\ Init
    /\ Claims!Init /\ Reset!Init /\ Rollout!Init /\ Migrations!Init /\ Support!Init
    /\ part \notin {"claims", "refunds"} =>
         /\ review = [kind |-> "install_bridge", candidate |-> 1, existing |-> 2]
         /\ purchase.activation = None /\ fact.net = 0 /\ binding = None
    /\ part # "migrations" => schema = <<>>
OperationsNext ==
    \/ part = "desk" /\ DeskStep /\ UNCHANGED <<part, repairVars, resetVars, toolVars>>
    \/ part = "audits" /\ AuditsStep /\ UNCHANGED <<part, repairVars, resetVars, toolVars>>
    \/ part = "claims" /\ Claims!Next /\ UNCHANGED <<part, vars, resetVars, toolVars>>
    \/ part = "refunds" /\ Refunds!Next /\ UNCHANGED <<part, vars, resetVars, toolVars>>
    \/ part = "reset" /\ Reset!Next /\ UNCHANGED <<part, vars, repairVars, toolVars>>
    \/ /\ \/ part = "rollout" /\ Rollout!Next /\ UNCHANGED <<migrationVars, supportVars>>
          \/ part = "migrations" /\ Migrations!Next /\ UNCHANGED <<rolloutVars, supportVars>>
          \/ part = "support" /\ Support!Next /\ UNCHANGED <<rolloutVars, migrationVars>>
          \/ part = "renewed" /\ Renewed!Next /\ UNCHANGED <<rolloutVars, migrationVars>>
       /\ UNCHANGED <<part, vars, repairVars, resetVars>>
OperationsSpec ==
    OperationsInit /\ [][OperationsNext]_<<part, vars, repairVars, resetVars, toolVars>>

\* The desk's properties are its module's TypeOK and DeskHolds.

\* The operators' tools, each with the types of its state. A binding joins one account's evidence on one live
\* profile and is never made against a refund, and a confirmed repair ends
\* repaired, whatever else the site does meanwhile
\* (paid-telemetry-handoff-repair.ts). The reset of the test customer takes no
\* other customer's rows, in the database or in Stripe, and leaves no reference
\* to what it deleted (reset-alex-upgrade-state.mjs). A
\* release widens by single steps that its own intents paid for, from what the
\* site served (advance-release-rollout.mjs); a migration runs once, the ledger
\* is the schema and someone can always go on (apply-postgres-migrations.mjs);
\* a cleared device stays shut, its note is kept and a command never writes
\* what the licence grants (manage-license-device.mjs).
OperatorsHold ==
    /\ [](/\ part \in {"claims", "refunds"} => Claims!TypeOK
          /\ part = "reset" => Reset!TypeOK
          /\ part = "rollout" => Rollout!TypeOK
          /\ part = "migrations" => Migrations!TypeOK
          /\ part \in {"support", "renewed"} => Support!TypeOK
          /\ part \in {"claims", "refunds"} => Claims!OneAccount /\ Claims!BoundTogether
          /\ part = "reset" => Reset!NothingDangles
          /\ part = "rollout" => Rollout!StepsEarned /\ Rollout!ServedBefore
          /\ part = "migrations" => /\ Migrations!RunsOnce
                                    /\ Migrations!LedgerIsSchema
                                    /\ Migrations!SomeoneCanGoOn
          /\ part \in {"support", "renewed"} =>
               /\ Support!EveryClearAudited /\ Support!GrantsFollowEvents
               /\ Support!ClearedStaysShut)
    /\ Rollout!OneStepAtATime
    /\ Claims!RepairConverges /\ Claims!NoBindingAgainstRefund
    /\ Reset!OthersKept /\ Reset!StrangersStayInStripe
Symmetry == Permutations(Workers) \cup Permutations(Auditors)
=============================================================================

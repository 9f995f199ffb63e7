---------------------------- MODULE SupportDesk ----------------------------
(***************************************************************************)
(* Support mail: intake, the two safety gates and their two queues          *)
(* (api/_lib/support-queue.ts, support-ledger.ts, support-workflow.ts and   *)
(* api/_lib/support-safety.ts, with api/support/webhook.ts and the two      *)
(* routes under api/internal/support).                                      *)
(*                                                                          *)
(* A message makes a thread and a triage job in one transaction.  Workers   *)
(* (the webhook's background run, the operator's timer) claim jobs and      *)
(* alerts one at a time under a two-minute lease.  Triage stores the first  *)
(* gate's verdict once, an operator's audit request the second one's, and   *)
(* each flag, error or buried job an alert beside it.                       *)
(*                                                                          *)
(* The two queues run the same statements on two tables: a row is a job or  *)
(* an alert.  A claim draws a fresh lease token and counts attempt_count    *)
(* up, so the attempt number stands for the token.  A run works on its jobs *)
(* before its alerts; as a run may be started at any time, a worker is free *)
(* to take either next.                                                     *)
(***************************************************************************)
EXTENDS Integers, FiniteSets

CONSTANTS
    Messages,     \* provider message ids; each opens a thread of its own
    Emails,       \* what a message may be like, see EmailType
    Answers,      \* what the triage model may answer, see AnswerType
    Artifacts,    \* what an operator may submit to the audit, see ArtifactType
    Opinions,     \* what the audit model may answer
    Workers, Auditors,
    MaxAttempts,  \* max_attempts of a cycle
    MaxClaims,    \* bound on the claims of one row
    MaxRecover    \* the three-recovery budget

\* injected stands for any signal of detectSupportInjectionSignals.
EmailType == [injected : BOOLEAN, systematic : BOOLEAN]
ActionTypes == {"none", "code_change_request", "database_transaction_request"}
AnswerType == [verdict : {"pass", "flag"}, risk : BOOLEAN, systematic : BOOLEAN,
               human : BOOLEAN, action : ActionTypes]
\* scope: what the named files or tables are; rows: maxAffectedRows.
ArtifactType == [kind : {"pull_request", "database_transaction", "other"},
                 target : {"named", "wrong"},
                 scope : SUBSET {"support", "core", "dependency"},
                 rows : 0..100, registered : BOOLEAN,
                 environment : {"test", "production"}, bound : BOOLEAN]
OpinionType == [verdict : {"pass", "flag"}, core : BOOLEAN, human : BOOLEAN]

SupportAssumption ==
    /\ MaxAttempts \in Nat \ {0} /\ MaxClaims \in Nat /\ MaxRecover \in Nat
    /\ Emails \subseteq EmailType /\ Answers \subseteq AnswerType
    /\ Artifacts \subseteq ArtifactType /\ Opinions \subseteq OpinionType
ASSUME DeskConstants == SupportAssumption

VARIABLES
    email,    \* the received message of each id
    thread,   \* status of its thread
    row,      \* the job and the alerts of each message
    due,      \* rows whose available_at or lease_expires_at has passed
    held,     \* the claim each worker is working on
    action,   \* the action request of each message
    gate,     \* the gate runs: verdict of each stage
    audit,    \* the request each auditor is handling
    mailed,   \* alerts Resend accepted, by idempotency key
    log       \* notification attempts: <<alert, attempt, outcome>>

verdicts == <<thread, action, gate>>
vars == <<email, thread, row, due, held, action, gate, audit, mailed, log>>

Jobs == {"job"} \X Messages
Alerts == {"triage", "safety_audit", "dead"} \X Messages
Items == Jobs \cup Alerts

Done == {"completed", "delivered"}
Open == {"pending", "processing", "retry"}

NoRow == [state |-> "absent", attempts |-> 0, cycle |-> 0, recovered |-> 0]
Pending == [NoRow EXCEPT !.state = "pending"]
NoClaim == [item |-> <<>>, attempt |-> 0, cycle |-> 0, stage |-> "idle"]
NoAudit == [message |-> <<>>, stage |-> "idle"]
NoAction == [status |-> "absent", type |-> "none", human |-> FALSE]
NoEmail == [injected |-> FALSE, systematic |-> FALSE]

RowType == [state : Open \cup Done \cup {"absent", "dead_letter"},
            attempts : 0..MaxClaims, cycle : 0..MaxClaims, recovered : 0..MaxRecover]

TypeOK ==
    /\ email \in [Messages -> EmailType]
    /\ thread \in [Messages -> {"absent", "received", "triage_passed",
                     "triage_flagged", "audit_passed", "audit_flagged", "human_review"}]
    /\ row \in [Items -> RowType]
    /\ \A i \in Items : row[i].cycle <= row[i].attempts
    /\ due \subseteq {i \in Items : row[i].state \in Open}
    /\ held \in [Workers -> [item : Items \cup {<<>>}, attempt : 0..MaxClaims,
                             cycle : 0..MaxClaims, stage : {"idle", "claimed", "done", "failed"}]]
    /\ \A w \in Workers : held[w].stage = "idle" \/ held[w].item \in Items
    /\ action \in [Messages -> [status : {"absent", "proposed", "triage_flagged",
                     "audit_pending", "audit_passed", "audit_flagged"},
                                type : ActionTypes, human : BOOLEAN]]
    /\ gate \in [Messages -> [{"triage", "safety_audit"} -> {"none", "pass", "flag", "error"}]]
    /\ audit \in [Auditors -> [message : Messages \cup {<<>>},
                               stage : {"idle", "loaded", "pending"}]]
    /\ \A a \in Auditors : IF audit[a].stage = "idle" THEN audit[a] = NoAudit
                           ELSE audit[a].message \in Messages
    /\ mailed \subseteq Alerts
    /\ log \subseteq Alerts \X (0..MaxClaims) \X {"delivered", "retry", "dead_letter"}

Init ==
    /\ email = [m \in Messages |-> NoEmail]
    /\ thread = [m \in Messages |-> "absent"]
    /\ row = [i \in Items |-> NoRow]
    /\ due = {}
    /\ held = [w \in Workers |-> NoClaim]
    /\ action = [m \in Messages |-> NoAction]
    /\ gate = [m \in Messages |-> [s \in {"triage", "safety_audit"} |-> "none"]]
    /\ audit = [a \in Auditors |-> NoAudit]
    /\ mailed = {}
    /\ log = {}

-----------------------------------------------------------------------------
\* ensureSupportProcessingJob: on conflict do nothing.
\* Mutant: on conflict the job is put back to work.
EnsureJobRequeue(m) ==
    /\ row' = [row EXCEPT ![<<"job", m>>].state =
                 IF @ = "processing" THEN @ ELSE "pending"]
    /\ due' = due \cup {<<"job", m>>}

EnsureJob(m) ==
    IF row[<<"job", m>>].state # "absent" THEN UNCHANGED <<row, due>>
    ELSE /\ row' = [row EXCEPT ![<<"job", m>>] = Pending]
         /\ due' = due \cup {<<"job", m>>}

\* recordInboundSupportMessage: ticket and job commit together; a repeated
\* delivery, by event id or by message id, finds the message.
RecordMessage(m, e) ==
    /\ IF thread[m] # "absent" THEN UNCHANGED <<email, thread>>
       ELSE /\ email' = [email EXCEPT ![m] = e]
            /\ thread' = [thread EXCEPT ![m] = "received"]
    /\ EnsureJob(m)

\* The webhook, for each delivery of a message: it is acknowledged when the
\* record is committed, and starts a worker (see Claim).
Receive(m, e) ==
    /\ RecordMessage(m, e)
    /\ UNCHANGED <<held, action, gate, audit, mailed, log>>

\* A backoff ends or a lease expires.
ComesDue(i) ==
    /\ row[i].state \in {"processing", "retry"} /\ i \notin due
    /\ due' = due \cup {i}
    /\ UNCHANGED <<email, thread, row, held, action, gate, audit, mailed, log>>

\* A claim leaves the attempt bound to the failure handlers.
\* Mutant: a row that is being processed is claimed before its lease ends.
ClaimableEarly(i) == i \in due \/ row[i].state = "processing"

Claimable(i) == i \in due

ClaimRow(w, i) ==
    /\ held[w] = NoClaim
    /\ Claimable(i)
    /\ row[i].attempts < MaxClaims
    /\ row' = [row EXCEPT ![i].state = "processing", ![i].attempts = @ + 1,
                          ![i].cycle = @ + 1]
    /\ due' = due \ {i}
    /\ held' = [held EXCEPT ![w] = [item |-> i, attempt |-> row[i].attempts + 1,
                                    cycle |-> row[i].cycle + 1, stage |-> "claimed"]]
    /\ UNCHANGED <<email, verdicts, audit, mailed, log>>

\* claimSupportProcessingJob, claimSupportNotification.
ClaimJob(w) == \E i \in Jobs : ClaimRow(w, i)
ClaimAlert(w) == \E i \in Alerts : ClaimRow(w, i)

\* enqueueSupportSafetyAlert: one row per gate, reference, outcome and codes.
Alerted(table, i) == IF table[i].state = "absent" THEN [table EXCEPT ![i] = Pending] ELSE table
AlertDue(i) == IF row[i].state = "absent" THEN due \cup {i} ELSE due

-----------------------------------------------------------------------------
\* runSupportTriage: signals in the message decide alone, else the model's
\* answer, which risk, a systematic issue or a need for approval overrule.
\* Mutant: the model's verdict is taken as it is.
TriageTrusting(e, a) ==
    IF e.injected \/ e.systematic
    THEN [verdict |-> "flag", type |-> "none", human |-> TRUE]
    ELSE [verdict |-> a.verdict, type |-> a.action, human |-> a.human]

Triage(e, a) ==
    IF e.injected \/ e.systematic
    THEN [verdict |-> "flag", type |-> "none", human |-> TRUE]
    ELSE LET must == a.risk \/ a.systematic \/ a.human IN
         [verdict |-> IF must THEN "flag" ELSE a.verdict,
          type |-> a.action,
          human |-> a.human \/ (must /\ a.verdict = "pass")]

\* recordSupportTriageError: the first gate fails closed.
GateError == [verdict |-> "error", type |-> "none", human |-> TRUE]

\* recordSupportTriageOutcome: the first outcome that is stored stays.
TriageStored(m) == action[m].status # "absent"

StoreTriage(m, o) ==
    LET flagged == o.verdict # "pass" IN
    IF TriageStored(m) THEN UNCHANGED <<thread, action, gate, row, due>>
    ELSE /\ gate' = [gate EXCEPT ![m]["triage"] = o.verdict]
         /\ action' = [action EXCEPT ![m] =
              [status |-> IF flagged THEN "triage_flagged" ELSE "proposed",
               type |-> o.type, human |-> o.human]]
         /\ thread' = [thread EXCEPT ![m] =
              IF flagged THEN "triage_flagged" ELSE "triage_passed"]
         /\ IF flagged
            THEN /\ row' = Alerted(row, <<"triage", m>>)
                 /\ due' = AlertDue(<<"triage", m>>)
            ELSE UNCHANGED <<row, due>>

Advance(w) == held' = [held EXCEPT ![w].stage = "done"]

\* triageSupportMessage, for a claimed job.
TriageMessage(w) ==
    /\ held[w].stage = "claimed" /\ held[w].item \in Jobs
    /\ LET m == held[w].item[2] IN
       \E o \in {GateError} \cup {Triage(email[m], a) : a \in Answers} :
         StoreTriage(m, o)
    /\ Advance(w)
    /\ UNCHANGED <<email, audit, mailed, log>>

\* sendSupportSafetyAlert, for a claimed alert; the outbox row and Resend's
\* idempotency key are made of the same fields.
SendAlert(w) ==
    /\ held[w].stage = "claimed" /\ held[w].item \in Alerts
    /\ mailed' = mailed \cup {held[w].item}
    /\ Advance(w)
    /\ UNCHANGED <<email, verdicts, row, due, audit, log>>

\* Mutant: the exception is swallowed and the work counts as done.
ThrowSwallowed(w) ==
    /\ held[w].stage \in {"claimed", "done"}
    /\ held' = [held EXCEPT ![w].stage = "done"]
    /\ UNCHANGED <<email, verdicts, row, due, audit, mailed, log>>

\* Anything in the try may throw, an answer from Resend that was lost included.
Throw(w) ==
    /\ held[w].stage \in {"claimed", "done"}
    /\ held' = [held EXCEPT ![w].stage = "failed"]
    /\ UNCHANGED <<email, verdicts, row, due, audit, mailed, log>>

\* The process dies, or the failure handler throws.
Die(w) ==
    /\ held[w] # NoClaim
    /\ held' = [held EXCEPT ![w] = NoClaim]
    /\ UNCHANGED <<email, verdicts, row, due, audit, mailed, log>>

\* id, state and lease token, as the four settling statements compare them.
\* Mutant: the token is not compared.
LeaseHoldsUntokened(w) == row[held[w].item].state = "processing"

LeaseHolds(w) ==
    /\ row[held[w].item].state = "processing"
    /\ row[held[w].item].attempts = held[w].attempt

\* Mutant: the lease columns of a settled row are kept.
SettleKeepsLease(w, state) ==
    /\ row' = [row EXCEPT ![held[w].item].state = state]
    /\ UNCHANGED due

Settle(w, state) ==
    /\ row' = [row EXCEPT ![held[w].item].state = state]
    /\ due' = due \ {held[w].item}

\* insertNotificationAttempt.
LogAttempt(w, outcome) ==
    log' = log \cup {<<held[w].item, held[w].attempt, outcome>>}

PutDown(w) == held' = [held EXCEPT ![w] = NoClaim]

\* completeSupportProcessingJob.
CompleteJob(w) ==
    /\ held[w].stage = "done" /\ held[w].item \in Jobs
    /\ IF LeaseHolds(w) THEN Settle(w, "completed") ELSE UNCHANGED <<row, due>>
    /\ PutDown(w)
    /\ UNCHANGED <<email, verdicts, audit, mailed, log>>

\* completeSupportNotification.
\* Mutant: an alert that was not sent is completed.
CompleteAlertUnsent(w) ==
    /\ held[w].stage \in {"claimed", "done"} /\ held[w].item \in Alerts
    /\ IF LeaseHolds(w) THEN Settle(w, "delivered") /\ LogAttempt(w, "delivered")
       ELSE UNCHANGED <<row, due, log>>
    /\ PutDown(w)
    /\ UNCHANGED <<email, verdicts, audit, mailed>>

CompleteAlert(w) ==
    /\ held[w].stage = "done" /\ held[w].item \in Alerts
    /\ IF LeaseHolds(w) THEN Settle(w, "delivered") /\ LogAttempt(w, "delivered")
       ELSE UNCHANGED <<row, due, log>>
    /\ PutDown(w)
    /\ UNCHANGED <<email, verdicts, audit, mailed>>

FailedState(w) == IF held[w].cycle >= MaxAttempts THEN "dead_letter" ELSE "retry"

\* A job in its last attempt is buried, with an alert and a thread for a person.
\* Mutant: a buried job raises no alert.
BuryJobSilently(m) ==
    /\ row' = [row EXCEPT ![<<"job", m>>].state = "dead_letter"]
    /\ due' = due \ {<<"job", m>>}
    /\ thread' = [thread EXCEPT ![m] = "human_review"]

BuryJob(m) ==
    /\ row' = Alerted([row EXCEPT ![<<"job", m>>].state = "dead_letter"], <<"dead", m>>)
    /\ due' = AlertDue(<<"dead", m>>) \ {<<"job", m>>}
    /\ thread' = [thread EXCEPT ![m] = "human_review"]

\* failSupportProcessingJob.
FailJob(w) ==
    /\ held[w].stage = "failed" /\ held[w].item \in Jobs
    /\ IF ~LeaseHolds(w) THEN UNCHANGED <<row, due, thread>>
       ELSE IF FailedState(w) = "dead_letter" THEN BuryJob(held[w].item[2])
       ELSE Settle(w, "retry") /\ UNCHANGED thread
    /\ PutDown(w)
    /\ UNCHANGED <<email, action, gate, audit, mailed, log>>

\* failSupportNotification.
FailAlert(w) ==
    /\ held[w].stage = "failed" /\ held[w].item \in Alerts
    /\ IF LeaseHolds(w) THEN Settle(w, FailedState(w)) /\ LogAttempt(w, FailedState(w))
       ELSE UNCHANGED <<row, due, log>>
    /\ PutDown(w)
    /\ UNCHANGED <<email, verdicts, audit, mailed>>

\* recoverSupportDeadLetter.
Recover(i) ==
    /\ row[i].state = "dead_letter" /\ row[i].recovered < MaxRecover
    /\ row' = [row EXCEPT ![i].state = "pending", ![i].cycle = 0,
                          ![i].recovered = @ + 1]
    /\ due' = due \cup {i}
    /\ UNCHANGED <<email, verdicts, held, audit, mailed, log>>

RecoverJob(m) == Recover(<<"job", m>>)
RecoverAlert(i) == Recover(i)

-----------------------------------------------------------------------------
\* The audit route: the action is loaded ...
Auditable(m) ==
    action[m].status \in {"proposed", "audit_pending"} /\ action[m].type # "none"

LoadAction(a, m) ==
    /\ audit[a] = NoAudit
    /\ Auditable(m)
    /\ audit' = [audit EXCEPT ![a] = [message |-> m, stage |-> "loaded"]]
    /\ UNCHANGED <<email, verdicts, row, due, held, mailed, log>>

\* ... marked pending ...
MarkAuditPending(a) ==
    /\ audit[a].stage = "loaded"
    /\ LET m == audit[a].message IN
       action' = [action EXCEPT ![m].status =
                    IF @ = "proposed" THEN "audit_pending" ELSE @]
    /\ audit' = [audit EXCEPT ![a].stage = "pending"]
    /\ UNCHANGED <<email, thread, gate, row, due, held, mailed, log>>

\* ... judged (runSupportSafetyAudit; invalidArtifactOutcome) ...
ValidArtifact(x) ==
    /\ x.kind \in {"pull_request", "database_transaction"}
    /\ x.target = "named"
    /\ x.kind = "database_transaction" => x.rows >= 1

\* detectAuditRiskCodes: what is flagged without asking the model.
RiskCodes(x, type) ==
    IF x.kind = "pull_request"
    THEN {c \in {"action_type_mismatch"} : type # "code_change_request"}
         \cup {c \in {"dependency_change"} : "dependency" \in x.scope}
         \cup {c \in {"core_file_scope"} : x.scope # {"support"}}
    ELSE {c \in {"action_type_mismatch"} : type # "database_transaction_request"}
         \cup {c \in {"core_table_scope"} : x.scope # {"support"}}
         \cup {c \in {"unregistered_operation"} : ~x.registered}
         \cup {c \in {"broad_row_scope"} : x.rows > 25}
         \cup {c \in {"weak_production_target_binding"} :
                  x.environment = "production" /\ ~x.bound}

Judge(x, type, p) ==
    IF ~ValidArtifact(x) \/ RiskCodes(x, type) # {} THEN [verdict |-> "flag", human |-> TRUE]
    ELSE LET must == p.core \/ p.human IN
         [verdict |-> IF must THEN "flag" ELSE p.verdict,
          human |-> p.human \/ (must /\ p.verdict = "pass")]

\* ... and the first verdict stored (recordSupportAuditOutcome).
\* Mutant: a later audit overwrites the verdict of an earlier one.
NeverStored(m) == FALSE

AuditStored(m) == gate[m]["safety_audit"] # "none"

StoreAudit(m, o) ==
    LET flagged == o.verdict # "pass" IN
    IF AuditStored(m) THEN UNCHANGED <<thread, action, gate, row, due>>
    ELSE /\ gate' = [gate EXCEPT ![m]["safety_audit"] = o.verdict]
         /\ action' = [action EXCEPT
              ![m].status = IF flagged THEN "audit_flagged" ELSE "audit_passed",
              ![m].human = o.human]
         /\ thread' = [thread EXCEPT ![m] =
              IF flagged THEN "audit_flagged" ELSE "audit_passed"]
         /\ IF flagged
            THEN /\ row' = Alerted(row, <<"safety_audit", m>>)
                 /\ due' = AlertDue(<<"safety_audit", m>>)
            ELSE UNCHANGED <<row, due>>

RecordAudit(a) ==
    /\ audit[a].stage = "pending"
    /\ LET m == audit[a].message IN
       \E x \in Artifacts, p \in Opinions :
         StoreAudit(m, Judge(x, action[m].type, p))
    /\ audit' = [audit EXCEPT ![a] = NoAudit]
    /\ UNCHANGED <<email, held, mailed, log>>

\* A statement or the model failed: the request records an error, or cannot.
AuditFails(a) ==
    /\ audit[a] # NoAudit
    /\ \/ StoreAudit(audit[a].message, [verdict |-> "error", human |-> TRUE])
       \/ UNCHANGED <<thread, action, gate, row, due>>
    /\ audit' = [audit EXCEPT ![a] = NoAudit]
    /\ UNCHANGED <<email, held, mailed, log>>

-----------------------------------------------------------------------------
Work(w) ==
    \/ ClaimJob(w) \/ ClaimAlert(w)
    \/ TriageMessage(w) \/ SendAlert(w) \/ Throw(w) \/ Die(w)
    \/ CompleteJob(w) \/ CompleteAlert(w) \/ FailJob(w) \/ FailAlert(w)

Next ==
    \/ \E m \in Messages, e \in Emails : Receive(m, e)
    \/ \E i \in Items : ComesDue(i)
    \/ \E m \in Messages : RecoverJob(m)
    \/ \E i \in Alerts : RecoverAlert(i)
    \/ \E w \in Workers : Work(w)
    \/ \E a \in Auditors, m \in Messages : LoadAction(a, m)
    \/ \E a \in Auditors : MarkAuditPending(a) \/ RecordAudit(a) \/ AuditFails(a)

Spec == Init /\ [][Next]_vars

-----------------------------------------------------------------------------
(* Properties *)

\* A completed job left a first-gate verdict, whichever of its workers, lost
\* ones included, stored it.
CompletedIsTriaged ==
    \A m \in Messages :
        row[<<"job", m>>].state = "completed" => gate[m]["triage"] # "none"

\* Nothing the gates stopped, and no buried job, is silent: an alert for it
\* is in the outbox.
StopsAreAlerted ==
    \A m \in Messages :
        /\ \A s \in {"triage", "safety_audit"} :
             gate[m][s] \in {"flag", "error"} => row[<<s, m>>].state # "absent"
        /\ row[<<"job", m>>].state = "dead_letter" => row[<<"dead", m>>].state # "absent"

\* An action that is still on its way to a person-free end passed every gate so
\* far, came from a message without signals, and needs no approval.
NothingPassesUnreviewed ==
    \A m \in Messages :
        action[m].status \in {"proposed", "audit_pending", "audit_passed"} =>
            /\ gate[m]["triage"] = "pass"
            /\ ~email[m].injected /\ ~email[m].systematic
            /\ ~action[m].human
            /\ action[m].status = "audit_passed" <=> gate[m]["safety_audit"] = "pass"

\* An alert recorded as delivered was accepted by the provider, and its log
\* ends with exactly that attempt.
DeliveredWasSent ==
    \A i \in Alerts : row[i].state = "delivered" =>
        /\ i \in mailed
        /\ {e \in log : e[1] = i /\ e[3] = "delivered"}
             = {<<i, row[i].attempts, "delivered">>}

\* A verdict of a gate, once stored, is never rewritten by a second worker, a
\* second auditor, a retry or an error.
VerdictIsFinal ==
    [][\A m \in Messages, s \in {"triage", "safety_audit"} :
          gate[m][s] # "none" => gate'[m][s] = gate[m][s]]_vars

\* A finished row stays finished, and a buried one returns only by an explicit
\* recovery that counts.
FinishedStays ==
    [][\A i \in Items :
          /\ row[i].state \in Done => row'[i] = row[i]
          /\ row[i].state = "dead_letter" =>
               row'[i] = row[i] \/ row'[i].recovered = row[i].recovered + 1]_vars

\* While a lease runs, the only one to end it is the worker that holds it.
LeaseIsExclusive ==
    [][\A i \in Items :
          row[i].state = "processing" /\ i \notin due /\ row'[i] # row[i]
            => \E w \in DOMAIN held :
                 /\ held[w].item = i /\ held[w].attempt = row[i].attempts
                 /\ held'[w] = NoClaim]_vars

\* The desk, whole: the four invariants and the three promises about steps.
DeskHolds ==
    /\ [](/\ CompletedIsTriaged /\ StopsAreAlerted
          /\ NothingPassesUnreviewed /\ DeliveredWasSent)
    /\ VerdictIsFinal /\ FinishedStays /\ LeaseIsExclusive

\* What docs/support-automation.md says of the queues: five attempts per cycle.
AttemptsPerCycle == \A i \in Items : row[i].cycle <= MaxAttempts
=============================================================================

-------------------------- MODULE StripeEventQueue --------------------------
(***************************************************************************)
(* The durable queue of Stripe events (api/_lib/stripe-events.ts): the      *)
(* webhook records an event and acknowledges it, and drains, started by the *)
(* webhook in the background and by the five-minute cron, claim batches of  *)
(* rows under a lease, reconcile each event, and settle its row.            *)
(*                                                                          *)
(* Every query is one statement, so one atomic action.  Between the claim   *)
(* of a batch and the settling of each of its rows a drain runs unlocked:   *)
(* its lease may lapse, another drain may take the row over, and the        *)
(* process may die at any point, also between an effect and its record.     *)
(*                                                                          *)
(* Time is the set of rows whose next_attempt_at or lease_expires_at has    *)
(* passed.  LIMIT takes the oldest rows first and SKIP LOCKED leaves out    *)
(* rows another statement holds; here a claim takes any of the candidates.  *)
(***************************************************************************)
EXTENDS Integers, FiniteSets

CONSTANTS
    Events,       \* Stripe event ids
    Drains,       \* claim tokens; a drain takes one that no row bears
    MaxAttempts,  \* DEFAULT_STRIPE_EVENT_MAX_ATTEMPTS
    BatchSize,    \* rows a drain claims at most
    NoDrain, NoEvent

ASSUME QueueAssumption ==
    /\ MaxAttempts \in Nat \ {0} /\ BatchSize \in Nat \ {0}
    /\ NoDrain \notin Drains /\ NoEvent \notin Events

VARIABLES
    status,     \* processing_status of each row, "absent" before its event
    attempts,   \* attempt_count
    token,      \* claim_token
    due,        \* rows whose next attempt or lease expiry is in the past
    work,       \* attempt number under which a drain holds an event, 0: none
    doing,      \* the event a drain is processing
    stage,      \* how far it has got with that event
    granted,    \* events whose money work (licence, credit pack) is committed
    projected   \* events materialised in the commerce ledger

vars == <<status, attempts, token, due, work, doing, stage, granted, projected>>
effects == <<granted, projected>>
drains == <<work, doing, stage>>

Settled == {"processed", "ignored"}
Terminal == Settled \cup {"dead_letter"}
Waiting == {"received", "retryable"}
Statuses == {"absent", "processing"} \cup Waiting \cup Terminal

\* A row bears a claim token exactly while it is processing, and a terminal
\* row waits for nothing: the table's lease-state check.
LeaseState ==
    \A e \in Events : token[e] # NoDrain <=> status[e] = "processing"

\* Types, the attempt bound, and the lease-state check of the table.
TypeOK ==
    /\ status \in [Events -> Statuses]
    /\ attempts \in [Events -> 0..MaxAttempts]
    /\ token \in [Events -> Drains \cup {NoDrain}]
    /\ due \subseteq {e \in Events : status[e] \in Waiting \cup {"processing"}}
    /\ work \in [Drains -> [Events -> 0..MaxAttempts]]
    /\ doing \in [Drains -> Events \cup {NoEvent}]
    /\ stage \in [Drains -> {"idle", "start", "granted", "done", "failed"}]
    /\ granted \subseteq Events
    /\ projected \subseteq Events
    /\ LeaseState

Init ==
    /\ status = [e \in Events |-> "absent"]
    /\ attempts = [e \in Events |-> 0]
    /\ token = [e \in Events |-> NoDrain]
    /\ due = {}
    /\ work = [t \in Drains |-> [e \in Events |-> 0]]
    /\ doing = [t \in Drains |-> NoEvent]
    /\ stage = [t \in Drains |-> "idle"]
    /\ granted = {}
    /\ projected = {}

-----------------------------------------------------------------------------
\* recordStripeEvent for one delivery of e by Stripe, which repeats it until
\* it has seen the 200: only the first one inserts a row.
\* Mutant: a delivery of an event that no drain holds makes it due again.
RecordReopen(e) ==
    /\ token[e] = NoDrain
    /\ status' = [status EXCEPT ![e] = "received"]
    /\ due' = due \cup {e}
    /\ UNCHANGED <<attempts, token, drains, effects>>

Record(e) ==
    /\ status[e] = "absent"
    /\ status' = [status EXCEPT ![e] = "received"]
    /\ due' = due \cup {e}
    /\ UNCHANGED <<attempts, token, drains, effects>>

\* A backoff ends or a lease expires.
ComesDue(e) ==
    /\ status[e] \in {"processing", "retryable"}
    /\ e \notin due
    /\ due' = due \cup {e}
    /\ UNCHANGED <<status, attempts, token, drains, effects>>

\* claimStripeEvents: due rows with no attempt left are dead-lettered, and a
\* batch of the others is claimed.
\* Mutants: no row is dead-lettered by a claim; the attempt bound is left to
\* the failure handler; the lease of a processing row is not looked at.
ExhaustedByNone == {}

Exhausted == {e \in due : attempts[e] >= MaxAttempts}

CandidatesUnbounded == due

CandidatesLeased ==
    {e \in Events : /\ e \in due \/ status[e] = "processing"
                    /\ attempts[e] < MaxAttempts}

Candidates == {e \in due : attempts[e] < MaxAttempts}

Idle(t) == doing[t] = NoEvent /\ \A e \in Events : work[t][e] = 0

Batches ==
    IF Candidates = {} THEN {{}}
    ELSE {b \in SUBSET Candidates : b # {} /\ Cardinality(b) <= BatchSize}

ClaimBatch(t, batch) ==
    /\ status' = [e \in Events |->
                    IF e \in Exhausted THEN "dead_letter"
                    ELSE IF e \in batch THEN "processing" ELSE status[e]]
    /\ token' = [e \in Events |->
                    IF e \in Exhausted THEN NoDrain
                    ELSE IF e \in batch THEN t ELSE token[e]]
    /\ attempts' = [e \in Events |->
                      IF e \in batch THEN attempts[e] + 1 ELSE attempts[e]]
    /\ due' = due \ (Exhausted \cup batch)
    /\ work' = [work EXCEPT ![t] =
                 [e \in Events |-> IF e \in batch THEN attempts[e] + 1 ELSE 0]]

Claim(t) ==
    /\ Idle(t)
    /\ \A e \in Events : token[e] # t
    /\ Exhausted \cup Candidates # {}
    /\ \E batch \in Batches : ClaimBatch(t, batch)
    /\ UNCHANGED <<doing, stage, effects>>

-----------------------------------------------------------------------------
\* drainStripeEventQueue works through its batch one row at a time.
Take(t, e) ==
    /\ doing[t] = NoEvent
    /\ work[t][e] > 0
    /\ doing' = [doing EXCEPT ![t] = e]
    /\ stage' = [stage EXCEPT ![t] = "start"]
    /\ UNCHANGED <<status, attempts, token, due, work, effects>>

\* reconcileStripeEvent commits the money work first ...
Grant(t) ==
    /\ stage[t] = "start"
    /\ granted' = granted \cup {doing[t]}
    /\ stage' = [stage EXCEPT ![t] = "granted"]
    /\ UNCHANGED <<status, attempts, token, due, work, doing, projected>>

\* ... then the commerce projection.
\* Mutant: a projection that failed does not fail the event.
ProjectMaybe(t) ==
    /\ stage[t] = "granted"
    /\ \/ projected' = projected \cup {doing[t]}
       \/ UNCHANGED projected
    /\ stage' = [stage EXCEPT ![t] = "done"]
    /\ UNCHANGED <<status, attempts, token, due, work, doing, granted>>

Project(t) ==
    /\ stage[t] = "granted"
    /\ projected' = projected \cup {doing[t]}
    /\ stage' = [stage EXCEPT ![t] = "done"]
    /\ UNCHANGED <<status, attempts, token, due, work, doing, granted>>

\* Either may throw, and so may the statement that settles the row.
Throw(t) ==
    /\ stage[t] \in {"start", "granted", "done"}
    /\ stage' = [stage EXCEPT ![t] = "failed"]
    /\ UNCHANGED <<status, attempts, token, due, work, doing, effects>>

\* Leaving the row, whether the claim still held or not (claim_lost).
NextRow(t) ==
    /\ work' = [work EXCEPT ![t][doing[t]] = 0]
    /\ doing' = [doing EXCEPT ![t] = NoEvent]
    /\ stage' = [stage EXCEPT ![t] = "idle"]

\* The row as the two settling statements find it.
\* Mutant: the claim token is not compared.
ClaimHoldsUntokened(t) == status[doing[t]] = "processing"

ClaimHolds(t) == token[doing[t]] = t /\ status[doing[t]] = "processing"

Settle(t, outcome) ==
    IF ClaimHolds(t)
    THEN /\ status' = [status EXCEPT ![doing[t]] = outcome]
         /\ token' = [token EXCEPT ![doing[t]] = NoDrain]
         /\ due' = due \ {doing[t]}
    ELSE UNCHANGED <<status, token, due>>

\* markStripeEventTerminal.
MarkTerminal(t, outcome) ==
    /\ stage[t] = "done"
    /\ Settle(t, outcome)
    /\ NextRow(t)
    /\ UNCHANGED <<attempts, effects>>

\* markStripeEventFailure: the worker's own attempt count decides.
\* Mutant: the bound off by one.
FailureOutcomeEarly(t) ==
    IF work[t][doing[t]] + 1 >= MaxAttempts THEN "dead_letter" ELSE "retryable"

FailureOutcome(t) ==
    IF work[t][doing[t]] >= MaxAttempts THEN "dead_letter" ELSE "retryable"

MarkFailure(t) ==
    /\ stage[t] = "failed"
    /\ Settle(t, FailureOutcome(t))
    /\ NextRow(t)
    /\ UNCHANGED <<attempts, effects>>

\* The process dies, or the failure handler's own statement throws: the rest
\* of the batch is dropped and its rows stay processing.
Die(t) ==
    /\ ~Idle(t)
    /\ work' = [work EXCEPT ![t] = [e \in Events |-> 0]]
    /\ doing' = [doing EXCEPT ![t] = NoEvent]
    /\ stage' = [stage EXCEPT ![t] = "idle"]
    /\ UNCHANGED <<status, attempts, token, due, effects>>

-----------------------------------------------------------------------------
Work(t) ==
    \/ \E e \in Events : Take(t, e)
    \/ Grant(t) \/ Project(t) \/ Throw(t)
    \/ \E outcome \in Settled : MarkTerminal(t, outcome)
    \/ MarkFailure(t)
    \/ Die(t)

Next ==
    \/ \E e \in Events : Record(e)
    \/ \E e \in Events : ComesDue(e)
    \/ \E t \in Drains : Claim(t)
    \/ \E t \in Drains : Work(t)

Spec == Init /\ [][Next]_vars

\* The cron starts a drain every five minutes, a drain that is running goes on
\* or dies, and clocks advance.
Fairness ==
    /\ WF_vars(\E t \in Drains : Claim(t))
    /\ \A t \in Drains : WF_vars(Work(t))
    /\ \A e \in Events : WF_vars(ComesDue(e))

FairSpec == Spec /\ Fairness

-----------------------------------------------------------------------------
(* Properties *)

\* An event is settled only when its money work and its projection are both
\* committed, by whichever of its attempts, failed and lost ones included.
SettledIsHandled ==
    \A e \in Events : status[e] \in Settled => e \in granted \cap projected

\* A dead letter has used every attempt it was allowed, whether the failure
\* handler or a later claim buried it.
DeadLetterSpentItsAttempts ==
    \A e \in Events : status[e] = "dead_letter" => attempts[e] = MaxAttempts

\* A row whose lease runs is taken from its holder by nobody: its claim ends
\* when the holder, still on that very attempt, settles it.
LeaseIsExclusive ==
    [][\A e \in Events :
          token[e] # NoDrain /\ e \notin due /\ token'[e] # token[e]
            => /\ doing[token[e]] = e
               /\ work[token[e]][e] = attempts[e]
               /\ work'[token[e]][e] = 0]_vars

\* A redelivered event, a drain that lost its claim or a late claim never
\* reopens a terminal row.
TerminalIsFinal ==
    [][\A e \in Events : status[e] \in Terminal => status'[e] = status[e]]_vars

\* An acknowledged event is not forgotten: whatever fails or dies on the way,
\* its row ends processed, ignored or dead-lettered.
AcknowledgedIsSettled ==
    \A e \in Events : status[e] # "absent" ~> status[e] \in Terminal

\* The queue implements what it promises: seen without its workers, its rows
\* are accepted, worked on and given their one outcome as in EventOutcomes.
OutcomeOf ==
    [e \in Events |->
        IF status[e] = "absent" THEN "none"
        ELSE IF status[e] \in Terminal THEN status[e] ELSE "open"]
Outcomes == INSTANCE EventOutcomes WITH outcome <- OutcomeOf
ImplementsOutcomes == Outcomes!Spec
=============================================================================

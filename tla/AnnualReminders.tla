--------------------------- MODULE AnnualReminders ---------------------------
(* The promised mail before an annual renewal: a scheduled job stages a row   *)
(* per (subscription, renewal), and mails it under short leases               *)
(* (api/_lib/annual-renewal-reminder.ts). Several runs may overlap, a run may *)
(* die or pause anywhere, and the customer changes the plan meanwhile.        *)
EXTENDS Integers

CONSTANTS
    Licenses, Renewals,  \* the first renewals of a licence: 1..n
    Runs,                \* runs of the job that may overlap
    MaxAttempts,         \* MAX_ATTEMPTS
    MaxMishaps,          \* how often a run dies or outlives its lease
    MaxTurns             \* how often the customer changes a plan

VARIABLES
    license,   \* each licence: active, cancelling, its next renewal and how near it is
    row,       \* the reminder of each renewal
    due,       \* rows whose next_attempt_at has come
    run,       \* each run of the job
    mishaps, turns,
    mails      \* renewals whose mail the provider took
vars == <<license, row, due, run, mishaps, turns, mails>>

Reminders == Licenses \X Renewals
Open == {"pending", "sending", "retryable"}
Final == {"accepted", "dead_letter", "canceled"}
NoRow == [state |-> "absent", attempts |-> 0, lapsed |-> FALSE, refused |-> FALSE]
Resting == [pc |-> "idle", id |-> <<>>, attempt |-> 0, result |-> "none"]

TypeOK ==
    /\ license \in [Licenses -> [active : BOOLEAN, cancelling : BOOLEAN, renewal : Renewals,
                                 distance : {"far", "window", "near"}]]
    /\ \A id \in Reminders : /\ row[id].state \in Open \cup Final \cup {"absent"}
                             /\ row[id].lapsed => row[id].state = "sending"
                             /\ row[id].attempts <= MaxAttempts + MaxMishaps
    /\ due \subseteq Reminders /\ mails \subseteq Reminders
    /\ mishaps \in 0..MaxMishaps /\ turns \in 0..MaxTurns

Init ==
    /\ license = [l \in Licenses |-> [active |-> TRUE, cancelling |-> FALSE, renewal |-> 1, distance |-> "far"]]
    /\ row = [id \in Reminders |-> NoRow] /\ due = {}
    /\ run = [r \in Runs |-> Resting]
    /\ mishaps = 0 /\ turns = 0 /\ mails = {}

-----------------------------------------------------------------------------
(* The licence and the clock                                                 *)

\* 30 and 7 days before the renewal, and the renewal itself.
Approach(l) ==
    /\ license' = [license EXCEPT ![l] =
         CASE @.distance = "far" -> [@ EXCEPT !.distance = "window"]
           [] @.distance = "window" -> [@ EXCEPT !.distance = "near"]
           [] OTHER -> IF @.active /\ ~@.cancelling /\ @.renewal + 1 \in Renewals
                       THEN [@ EXCEPT !.renewal = @ + 1, !.distance = "far"]
                       ELSE [@ EXCEPT !.active = FALSE]]
    /\ license' # license
    /\ UNCHANGED <<row, due, run, mishaps, turns, mails>>

\* The customer cancels or resumes, or loses the licence to a refund.
Turn(l) ==
    /\ license[l].active /\ turns < MaxTurns /\ turns' = turns + 1
    /\ \/ license' = [license EXCEPT ![l].cancelling = ~@]
       \/ license' = [license EXCEPT ![l].active = FALSE]
    /\ UNCHANGED <<row, due, run, mishaps, mails>>

ComesDue(id) ==
    /\ row[id].state \in {"pending", "retryable"} /\ id \notin due /\ due' = due \cup {id}
    /\ UNCHANGED <<license, row, run, mishaps, turns, mails>>

\* The run that holds the latest claim of a row is still at it.
AtWork(id) == \E r \in Runs : run[r].id = id /\ run[r].attempt = row[id].attempts
\* Five minutes after the claim; a run that is alive is rarely so slow.
Lapse(id) ==
    /\ row[id].state = "sending" /\ ~row[id].lapsed
    /\ IF AtWork(id) THEN mishaps < MaxMishaps /\ mishaps' = mishaps + 1 ELSE UNCHANGED mishaps
    /\ row' = [row EXCEPT ![id].lapsed = TRUE]
    /\ UNCHANGED <<license, due, run, turns, mails>>

-----------------------------------------------------------------------------
(* A run of the job                                                          *)

At(r, pc) == run' = [run EXCEPT ![r] = [Resting EXCEPT !.pc = pc]]

\* The renewals that are still to come as the row says.
Renews(id) ==
    LET l == license[id[1]] IN l.active /\ ~l.cancelling /\ l.renewal = id[2]

\* Insert ... on conflict do nothing, for renewals 7 to 30 days ahead.
Stage(r) ==
    LET new == {id \in Reminders : row[id].state = "absent" /\ Renews(id) /\ license[id[1]].distance = "window"} IN
    /\ run[r].pc = "idle" /\ At(r, "cancel")
    /\ row' = [id \in Reminders |-> IF id \in new THEN [NoRow EXCEPT !.state = "pending"] ELSE row[id]]
    /\ due' = due \cup new
    /\ UNCHANGED <<license, mishaps, turns, mails>>

\* Waiting rows whose renewal no longer stands are canceled.
Cancel(r) ==
    /\ run[r].pc = "cancel" /\ At(r, "requeue")
    /\ row' = [id \in Reminders |-> IF row[id].state \in {"pending", "retryable"} /\ ~Renews(id)
                                    THEN [row[id] EXCEPT !.state = "canceled"] ELSE row[id]]
    /\ due' = {id \in due : row'[id].state # "canceled"}
    /\ UNCHANGED <<license, mishaps, turns, mails>>

\* mutant: a lapsed claim is not taken back.
RequeueNothing(r) ==
    /\ run[r].pc = "requeue" /\ At(r, "claim")
    /\ UNCHANGED <<license, row, due, mishaps, turns, mails>>
\* Claims whose lease has run out are due again.
Requeue(r) ==
    /\ run[r].pc = "requeue" /\ At(r, "claim")
    /\ row' = [id \in Reminders |-> IF row[id].lapsed THEN [row[id] EXCEPT !.state = "retryable", !.lapsed = FALSE] ELSE row[id]]
    /\ due' = due \cup {id \in Reminders : row[id].lapsed}
    /\ UNCHANGED <<license, mishaps, turns, mails>>

\* claimAnnualRenewalReminder: one row that is due, or the run is over.
Claimable == {id \in due : row[id].state \in {"pending", "retryable"} /\ Renews(id)}
Claim(r) ==
    /\ run[r].pc = "claim"
    /\ \/ \E id \in Claimable :
            /\ row' = [row EXCEPT ![id].state = "sending", ![id].attempts = @ + 1]
            /\ due' = due \ {id}
            /\ run' = [run EXCEPT ![r] = [Resting EXCEPT !.pc = "send", !.id = id, !.attempt = row[id].attempts + 1]]
       \/ Claimable = {} /\ At(r, "idle") /\ UNCHANGED <<row, due>>
    /\ UNCHANGED <<license, mishaps, turns, mails>>

\* sendAnnualRenewalReminder: the provider takes the mail, takes it and the
\* answer is lost, cannot be reached, or rejects it for good.
Send(r) ==
    /\ run[r].pc = "send"
    /\ \E result \in {"accepted", "lost", "unreached", "rejected"} :
        /\ run' = [run EXCEPT ![r].pc = "mark", ![r].result = result]
        /\ mails' = IF result \in {"accepted", "lost"} THEN mails \cup {run[r].id} ELSE mails
    /\ UNCHANGED <<license, row, due, mishaps, turns>>

\* mutant: the mark does not ask whether the row is still being sent.
StillAny(id) == TRUE
StillSending(id) == row[id].state = "sending"
\* mutant: every error is retried as if attempts were left.
CanRetryAlways(r) == run[r].result # "rejected"
\* mutant: the first failure is the last.
CanRetryNever(r) == FALSE
CanRetry(r) == run[r].result # "rejected" /\ run[r].attempt < MaxAttempts
\* The outcome is written if the row is still being sent, by whomever; when the
\* write of an acceptance fails, its handler takes that for a refusal.
Outcome(r) ==
    CASE run[r].result = "accepted" -> "accepted" [] CanRetry(r) -> "retryable" [] OTHER -> "dead_letter"
Write(id, state, refused) ==
    row' = IF StillSending(id)
           THEN [row EXCEPT ![id] = [@ EXCEPT !.state = state, !.lapsed = FALSE, !.refused = refused]]
           ELSE row
Mark(r) ==
    /\ run[r].pc = "mark" /\ At(r, "claim")
    /\ \/ Write(run[r].id, Outcome(r), run[r].result = "rejected") /\ UNCHANGED mishaps
       \/ /\ run[r].result = "accepted" /\ mishaps < MaxMishaps /\ mishaps' = mishaps + 1
          /\ Write(run[r].id, "dead_letter", FALSE)
    /\ UNCHANGED <<license, due, turns, mails>>

\* The database fails, or the process dies.
Die(r) ==
    /\ run[r].pc # "idle" /\ mishaps < MaxMishaps /\ mishaps' = mishaps + 1
    /\ At(r, "idle")
    /\ UNCHANGED <<license, row, due, turns, mails>>

Work(r) == Stage(r) \/ Cancel(r) \/ Requeue(r) \/ Claim(r) \/ Send(r) \/ Mark(r)
Next ==
    \/ \E l \in Licenses : Approach(l) \/ Turn(l)
    \/ \E id \in Reminders : ComesDue(id) \/ Lapse(id)
    \/ \E r \in Runs : Work(r) \/ Die(r)

Spec == Init /\ [][Next]_vars
-----------------------------------------------------------------------------
(* Properties                                                                *)

\* A reminder that counts as accepted was taken by the provider, whichever of
\* the overlapping runs wrote the mark (annual-renewal-reminder.ts:259).
AcceptedWasMailed == \A id \in DOMAIN row : row[id].state = "accepted" => id \in mails

\* docs/upgrade-pricing-experiment.md: a maximum-attempt dead letter. A row is
\* given up when its attempts are spent or the provider rejected it, or when it
\* was mailed and only the mark failed; never while a mail is still owed.
GivenUpIsSpent ==
    \A id \in DOMAIN row :
        row[id].state = "dead_letter" => row[id].refused \/ row[id].attempts >= MaxAttempts \/ id \in mails

\* What was accepted, given up or canceled stays so, whatever a slow run marks.
FinalStays ==
    [][\A id \in DOMAIN row : row[id].state \in Final => row'[id].state = row[id].state]_vars
=============================================================================

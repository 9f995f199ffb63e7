----------------------------- MODULE MCLiveness -----------------------------
(* What the two scheduled queues promise under the fairness of their cron:   *)
(* one Stripe event among two drains, and reminders of annual renewals, one  *)
(* of them among two overlapping runs, then two renewals of one run.         *)
EXTENDS Integers

VARIABLES part, status, attempts, token, eventDue, work, doing, stage, granted, projected,
          license, row, due, run, mishaps, turns, mails

Q == INSTANCE StripeEventQueue WITH Events <- {"event"}, Drains <- {"drain", "other"}, MaxAttempts <- 3, BatchSize <- 2,
        NoDrain <- "nobody", NoEvent <- "nothing", due <- eventDue
queueVars == <<status, attempts, token, eventDue, work, doing, stage, granted, projected>>

Beside == INSTANCE AnnualReminders WITH Licenses <- {"plan"}, Renewals <- 1..1, Runs <- {"run", "other"},
        MaxAttempts <- 2, MaxMishaps <- 2, MaxTurns <- 1
After == INSTANCE AnnualReminders WITH Licenses <- {"plan"}, Renewals <- 1..2, Runs <- {"run"},
        MaxAttempts <- 2, MaxMishaps <- 2, MaxTurns <- 1
reminderVars == <<license, row, due, run, mishaps, turns, mails>>
vars == <<part, queueVars, reminderVars>>

Init ==
    /\ part \in {"queue", "beside", "after"} /\ Q!Init
    /\ IF part = "after" THEN After!Init ELSE Beside!Init
InQueue(A) == part = "queue" /\ A /\ UNCHANGED <<part, reminderVars>>
InBeside(A) == part = "beside" /\ A /\ UNCHANGED <<part, queueVars>>
InAfter(A) == part = "after" /\ A /\ UNCHANGED <<part, queueVars>>
Next == InQueue(Q!Next) \/ InBeside(Beside!Next) \/ InAfter(After!Next)

\* The fairness of each part is its component's.
Fairness ==
    /\ WF_vars(InQueue(\E t \in {"drain", "other"} : Q!Claim(t)))
    /\ \A t \in {"drain", "other"} : WF_vars(InQueue(Q!Work(t)))
    /\ WF_vars(InQueue(Q!ComesDue("event")))
    /\ \A r \in {"run", "other"} : WF_vars(InBeside(Beside!Work(r)))
    /\ WF_vars(InAfter(After!Work("run")))
    /\ WF_vars(InBeside(Beside!ComesDue(<<"plan", 1>>))) /\ WF_vars(InBeside(Beside!Lapse(<<"plan", 1>>)))
    /\ \A n \in 1..2 : WF_vars(InAfter(After!ComesDue(<<"plan", n>>))) /\ WF_vars(InAfter(After!Lapse(<<"plan", n>>)))
Spec == Init /\ [][Next]_vars /\ Fairness

\* An event that was acknowledged reaches a terminal row (stripe-events.ts).
AcknowledgedIsSettled == Q!AcknowledgedIsSettled
\* What was accepted was mailed, what was given up had spent its attempts, and
\* what is final stays so (annual-renewal-reminder.ts).
RemindersHold ==
    /\ [](/\ IF part = "after" THEN After!TypeOK ELSE Beside!TypeOK
          /\ Beside!AcceptedWasMailed /\ Beside!GivenUpIsSpent)
    /\ Beside!FinalStays
\* A staged renewal is mailed, given up or canceled (annual-renewal-reminder.ts).
RemindersSettle == \A n \in 1..2 :
    (<<"plan", n>> \in DOMAIN row /\ row[<<"plan", n>>].state \in {"pending", "sending", "retryable"})
        ~> (<<"plan", n>> \in DOMAIN row /\ row[<<"plan", n>>].state \notin {"pending", "sending", "retryable"})
=============================================================================

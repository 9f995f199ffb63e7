----------------------- MODULE StripeEventQueueProofs -----------------------
(***************************************************************************)
(* Safety of the Stripe event queue for any number of events and drains and *)
(* any attempt bound.                                                       *)
(*                                                                          *)
(* The invariant the properties rest on is what the claim token stands for: *)
(* a drain whose token a row bears holds that row under the row's current   *)
(* attempt.  A drain that lost its claim keeps working, under an older      *)
(* attempt, but its token is on no row, so what it settles matches nothing. *)
(***************************************************************************)
EXTENDS StripeEventQueue, FiniteSetTheorems, WellFoundedInduction, TLAPS

\* The state of a drain fits the event it is on.
DrainInv ==
    \A t \in Drains :
        /\ doing[t] = NoEvent <=> stage[t] = "idle"
        /\ doing[t] # NoEvent => work[t][doing[t]] > 0
        /\ stage[t] \in {"granted", "done"} => doing[t] \in granted
        /\ stage[t] = "done" => doing[t] \in projected

\* The holder of a claim holds it under the row's current attempt.
TokenInv ==
    \A t \in Drains, e \in Events :
        token[e] = t /\ work[t][e] > 0 => work[t][e] = attempts[e]

IInv == TypeOK /\ DrainInv /\ TokenInv
            /\ SettledIsHandled /\ DeadLetterSpentItsAttempts

-----------------------------------------------------------------------------
LEMMA InitInv == Init => IInv
BY QueueAssumption, SMT
   DEF Init, IInv, TypeOK, LeaseState, DrainInv, TokenInv, SettledIsHandled,
       DeadLetterSpentItsAttempts, Statuses, Waiting, Terminal, Settled

LEMMA RecordInv == ASSUME IInv, NEW e \in Events, Record(e) PROVE IInv'
BY QueueAssumption, SMT DEF Record, IInv, TypeOK, LeaseState, DrainInv, TokenInv,
   SettledIsHandled, DeadLetterSpentItsAttempts, Statuses, Waiting, Terminal,
   Settled, drains, effects

LEMMA ComesDueInv == ASSUME IInv, NEW e \in Events, ComesDue(e) PROVE IInv'
BY QueueAssumption, SMT DEF ComesDue, IInv, TypeOK, LeaseState, DrainInv, TokenInv,
   SettledIsHandled, DeadLetterSpentItsAttempts, Statuses, Waiting, Terminal,
   Settled, drains, effects

LEMMA TakeInv ==
  ASSUME IInv, NEW t \in Drains, NEW e \in Events, Take(t, e) PROVE IInv'
BY QueueAssumption, SMT DEF Take, IInv, TypeOK, LeaseState, DrainInv, TokenInv,
   SettledIsHandled, DeadLetterSpentItsAttempts, Statuses, Waiting, Terminal,
   Settled, effects

LEMMA GrantInv == ASSUME IInv, NEW t \in Drains, Grant(t) PROVE IInv'
BY QueueAssumption, SMT DEF Grant, IInv, TypeOK, LeaseState, DrainInv, TokenInv,
   SettledIsHandled, DeadLetterSpentItsAttempts, Statuses, Waiting, Terminal,
   Settled

LEMMA ProjectInv == ASSUME IInv, NEW t \in Drains, Project(t) PROVE IInv'
BY QueueAssumption, SMT DEF Project, IInv, TypeOK, LeaseState, DrainInv, TokenInv,
   SettledIsHandled, DeadLetterSpentItsAttempts, Statuses, Waiting, Terminal,
   Settled

LEMMA ThrowInv == ASSUME IInv, NEW t \in Drains, Throw(t) PROVE IInv'
BY QueueAssumption, SMT DEF Throw, IInv, TypeOK, LeaseState, DrainInv, TokenInv,
   SettledIsHandled, DeadLetterSpentItsAttempts, Statuses, Waiting, Terminal,
   Settled, effects

LEMMA DieInv == ASSUME IInv, NEW t \in Drains, Die(t) PROVE IInv'
BY QueueAssumption, SMT DEF Die, IInv, TypeOK, LeaseState, DrainInv, TokenInv,
   SettledIsHandled, DeadLetterSpentItsAttempts, Statuses, Waiting, Terminal,
   Settled, effects, Idle

\* A claim gives the drain, whose token was on no row, exactly its batch.
LEMMA ClaimInv == ASSUME IInv, NEW t \in Drains, Claim(t) PROVE IInv'
<1>1. PICK batch \in Batches : ClaimBatch(t, batch)
  BY DEF Claim
<1>2. batch \subseteq Candidates
  BY <1>1 DEF Batches
<1>3. /\ doing[t] = NoEvent
      /\ \A e \in Events : work[t][e] = 0 /\ token[e] # t
      /\ UNCHANGED <<doing, stage, granted, projected>>
  BY DEF Claim, Idle, effects
<1>4. \A e \in Exhausted : e \in Events /\ attempts[e] = MaxAttempts
  <2> SUFFICES ASSUME NEW e \in Exhausted
               PROVE  e \in Events /\ attempts[e] = MaxAttempts
    OBVIOUS
  <2>1. e \in Events /\ attempts[e] >= MaxAttempts
    BY DEF IInv, TypeOK, Exhausted
  <2>2. attempts[e] \in 0..MaxAttempts
    BY <2>1 DEF IInv, TypeOK
  <2> QED
    BY <2>1, <2>2, QueueAssumption
<1>5. \A e \in batch : /\ e \in Events /\ e \notin Exhausted
                       /\ attempts[e] + 1 \in 1..MaxAttempts
                       /\ status[e] \in Waiting \cup {"processing"}
  BY <1>2, QueueAssumption DEF IInv, TypeOK, Exhausted, Candidates
<1>6. TypeOK'
  <2>1. /\ status' \in [Events -> Statuses]
        /\ token' \in [Events -> Drains \cup {NoDrain}]
        /\ attempts' \in [Events -> 0..MaxAttempts]
    BY <1>1, <1>5 DEF ClaimBatch, IInv, TypeOK, Statuses, Terminal
  <2>2. work' \in [Drains -> [Events -> 0..MaxAttempts]]
    BY <1>1, <1>5, QueueAssumption DEF ClaimBatch, IInv, TypeOK
  <2>3. due' \subseteq {e \in Events : status'[e] \in Waiting \cup {"processing"}}
    BY <1>1, <1>5 DEF ClaimBatch, IInv, TypeOK
  <2>4. LeaseState'
    BY <1>1, <1>5, QueueAssumption DEF ClaimBatch, IInv, TypeOK, LeaseState
  <2> QED
    BY <1>3, <2>1, <2>2, <2>3, <2>4 DEF IInv, TypeOK
<1>7. DrainInv'
  BY <1>1, <1>3, QueueAssumption DEF ClaimBatch, IInv, TypeOK, DrainInv
<1>8. TokenInv'
  <2> SUFFICES ASSUME NEW u \in Drains, NEW e \in Events,
                      token'[e] = u, work'[u][e] > 0
               PROVE  work'[u][e] = attempts'[e]
    BY DEF TokenInv
  <2>1. CASE e \in batch
    BY <2>1, <1>1, <1>5 DEF ClaimBatch, IInv, TypeOK
  <2>2. CASE e \notin batch
    BY <2>2, <1>1, <1>3, QueueAssumption DEF ClaimBatch, IInv, TypeOK, TokenInv
  <2> QED
    BY <2>1, <2>2
<1>9. SettledIsHandled' /\ DeadLetterSpentItsAttempts'
  BY <1>1, <1>3, <1>4, <1>5
  DEF ClaimBatch, IInv, TypeOK, SettledIsHandled, DeadLetterSpentItsAttempts,
      Settled
<1> QED
  BY <1>6, <1>7, <1>8, <1>9 DEF IInv

-----------------------------------------------------------------------------
\* What a settling statement does to a row, claim held or lost.
LEMMA SettleInv ==
  ASSUME IInv, NEW t \in Drains, doing[t] # NoEvent,
         NEW outcome \in Terminal \cup {"retryable"},
         outcome \in Settled => doing[t] \in granted \cap projected,
         outcome = "dead_letter" => work[t][doing[t]] = MaxAttempts,
         Settle(t, outcome), NextRow(t), UNCHANGED <<attempts, effects>>
  PROVE  IInv'
<1> DEFINE e == doing[t]
<1>1. /\ e \in Events
      /\ work[t][e] > 0
      /\ ClaimHolds(t) => work[t][e] = attempts[e]
  BY DEF IInv, TypeOK, DrainInv, TokenInv, ClaimHolds
<1>2. TypeOK'
  <2>1. /\ work' \in [Drains -> [Events -> 0..MaxAttempts]]
        /\ doing' \in [Drains -> Events \cup {NoEvent}]
        /\ stage' \in [Drains -> {"idle", "start", "granted", "done", "failed"}]
    <3>1. [work[t] EXCEPT ![e] = 0] \in [Events -> 0..MaxAttempts]
      BY <1>1, QueueAssumption DEF IInv, TypeOK
    <3> QED
      BY <1>1, <3>1 DEF NextRow, IInv, TypeOK
  <2>2. CASE ClaimHolds(t)
    <3>1. /\ status' = [status EXCEPT ![e] = outcome]
          /\ token' = [token EXCEPT ![e] = NoDrain]
          /\ due' = due \ {e}
      BY <2>2 DEF Settle
    <3>2. outcome \in Statuses /\ outcome # "processing"
      BY DEF Statuses, Terminal, Settled, Waiting
    <3>3. LeaseState'
      BY <1>1, <3>1, <3>2, QueueAssumption DEF IInv, TypeOK, LeaseState
    <3> QED
      BY <1>1, <2>1, <3>1, <3>2, <3>3 DEF IInv, TypeOK, effects
  <2>3. CASE ~ClaimHolds(t)
    BY <2>1, <2>3 DEF Settle, IInv, TypeOK, LeaseState, effects
  <2> QED
    BY <2>2, <2>3
<1>3. DrainInv'
  BY <1>1, QueueAssumption DEF NextRow, IInv, TypeOK, DrainInv, effects
<1>4. TokenInv'
  BY <1>1, QueueAssumption DEF Settle, NextRow, IInv, TypeOK, TokenInv
<1>5. SettledIsHandled'
  BY <1>1 DEF Settle, IInv, TypeOK, SettledIsHandled, effects
<1>6. DeadLetterSpentItsAttempts'
  BY <1>1 DEF Settle, IInv, TypeOK, DeadLetterSpentItsAttempts
<1> QED
  BY <1>2, <1>3, <1>4, <1>5, <1>6 DEF IInv

LEMMA MarkTerminalInv ==
  ASSUME IInv, NEW t \in Drains, NEW outcome \in Settled,
         MarkTerminal(t, outcome)
  PROVE  IInv'
<1>1. doing[t] # NoEvent /\ doing[t] \in granted \cap projected
  BY DEF MarkTerminal, IInv, DrainInv
<1> QED
  BY <1>1, SettleInv DEF MarkTerminal, Terminal, Settled

LEMMA MarkFailureInv == ASSUME IInv, NEW t \in Drains, MarkFailure(t) PROVE IInv'
<1>1. doing[t] # NoEvent /\ doing[t] \in Events
  BY DEF MarkFailure, IInv, DrainInv, TypeOK
<1>2. /\ FailureOutcome(t) \in {"dead_letter", "retryable"}
      /\ FailureOutcome(t) = "dead_letter" => work[t][doing[t]] = MaxAttempts
  <2>1. work[t][doing[t]] \in 0..MaxAttempts
    BY <1>1 DEF IInv, TypeOK
  <2> QED
    BY <2>1, QueueAssumption DEF FailureOutcome
<1> QED
  BY <1>1, <1>2, SettleInv DEF MarkFailure, Terminal, Settled

-----------------------------------------------------------------------------
LEMMA NextInv == IInv /\ [Next]_vars => IInv'
<1> SUFFICES ASSUME IInv, [Next]_vars PROVE IInv'
  OBVIOUS
<1>1. ASSUME NEW e \in Events, Record(e) PROVE IInv'
  BY <1>1, RecordInv
<1>2. ASSUME NEW e \in Events, ComesDue(e) PROVE IInv'
  BY <1>2, ComesDueInv
<1>3. ASSUME NEW t \in Drains, Claim(t) PROVE IInv'
  BY <1>3, ClaimInv
<1>4. ASSUME NEW t \in Drains, Work(t) PROVE IInv'
  BY <1>4, TakeInv, GrantInv, ProjectInv, ThrowInv, MarkTerminalInv,
     MarkFailureInv, DieInv DEF Work
<1>5. CASE UNCHANGED vars
  BY <1>5 DEF vars, IInv, TypeOK, LeaseState, DrainInv, TokenInv,
     SettledIsHandled, DeadLetterSpentItsAttempts
<1> QED
  BY <1>1, <1>2, <1>3, <1>4, <1>5 DEF Next

\* The inductive invariant of the queue.
THEOREM Invariance == Spec => []IInv
BY InitInv, NextInv, PTL DEF Spec

\* Every state has its types, no attempt counter passes the bound, and a row
\* bears a claim token exactly while it is processing.
THEOREM TypeCorrect == Spec => []TypeOK
BY Invariance, PTL DEF IInv

\* A processed or ignored row has its money work and its projection committed,
\* however many drains failed on it, died on it or lost their claim.
THEOREM SettledHandled == Spec => []SettledIsHandled
BY Invariance, PTL DEF IInv

\* A dead letter has used every attempt, whichever statement buried it.
THEOREM DeadLetterSpent == Spec => []DeadLetterSpentItsAttempts
BY Invariance, PTL DEF IInv

-----------------------------------------------------------------------------
(* Action properties *)

\* The row of an event under a statement that settles another drain's row.
LEMMA SettleKeeps ==
  ASSUME IInv, NEW t \in Drains, doing[t] # NoEvent, NEW outcome,
         Settle(t, outcome), NextRow(t), NEW e \in Events,
         token'[e] # token[e] \/ status'[e] # status[e]
  PROVE  /\ e = doing[t] /\ token[e] = t /\ status[e] = "processing"
         /\ work[t][e] = attempts[e] /\ work'[t][e] = 0
<1>1. /\ doing[t] \in Events
      /\ work[t][doing[t]] > 0
      /\ work'[t][doing[t]] = 0
  BY DEF NextRow, IInv, TypeOK, DrainInv
<1>2. ClaimHolds(t) /\ e = doing[t]
  BY <1>1 DEF Settle, IInv, TypeOK
<1> QED
  BY <1>1, <1>2 DEF ClaimHolds, IInv, TokenInv

\* The steps that change a claim or a status, and what they need.
LEMMA RowSteps ==
  ASSUME IInv, [Next]_vars, NEW e \in Events,
         token'[e] # token[e] \/ status'[e] # status[e]
  PROVE  \/ status[e] = "absent"
         \/ e \in due
         \/ \E t \in Drains : /\ doing[t] = e /\ token[e] = t
                              /\ status[e] = "processing"
                              /\ work[t][e] = attempts[e] /\ work'[t][e] = 0
<1>1. ASSUME NEW f \in Events, Record(f) PROVE status[e] = "absent"
  BY <1>1 DEF Record, IInv, TypeOK
<1>2. ASSUME NEW f \in Events, ComesDue(f) PROVE FALSE
  BY <1>2 DEF ComesDue
<1>3. ASSUME NEW t \in Drains, Claim(t) PROVE e \in due
  <2>1. PICK batch \in Batches : ClaimBatch(t, batch)
    BY <1>3 DEF Claim
  <2>2. batch \subseteq due
    BY <2>1 DEF Batches, Candidates
  <2> QED
    BY <2>1, <2>2 DEF ClaimBatch, Exhausted
<1>4. ASSUME NEW t \in Drains, Work(t)
      PROVE  /\ doing[t] = e /\ token[e] = t /\ status[e] = "processing"
             /\ work[t][e] = attempts[e] /\ work'[t][e] = 0
  <2>1. ASSUME NEW outcome \in Settled, MarkTerminal(t, outcome)
        PROVE  doing[t] # NoEvent /\ Settle(t, outcome) /\ NextRow(t)
    BY <2>1 DEF MarkTerminal, IInv, DrainInv
  <2>2. ASSUME MarkFailure(t)
        PROVE  /\ doing[t] # NoEvent /\ NextRow(t)
               /\ Settle(t, FailureOutcome(t))
    BY <2>2 DEF MarkFailure, IInv, DrainInv
  <2>3. CASE \E outcome \in Settled : MarkTerminal(t, outcome)
    BY <2>1, <2>3, SettleKeeps
  <2>4. CASE MarkFailure(t)
    BY <2>2, <2>4, SettleKeeps
  <2> QED
    BY <1>4, <2>3, <2>4 DEF Work, Take, Grant, Project, Throw, Die
<1>5. CASE UNCHANGED vars
  BY <1>5 DEF vars
<1> QED
  BY <1>1, <1>2, <1>3, <1>4, <1>5 DEF Next

\* A row whose lease runs is given up only by its holder, on that attempt.
THEOREM LeaseExclusive == Spec => LeaseIsExclusive
<1>1. ASSUME IInv, [Next]_vars, NEW e \in Events,
             token[e] # NoDrain, e \notin due, token'[e] # token[e]
      PROVE  /\ doing[token[e]] = e
             /\ work[token[e]][e] = attempts[e]
             /\ work'[token[e]][e] = 0
  <2>1. status[e] # "absent"
    BY <1>1 DEF IInv, TypeOK, LeaseState
  <2> QED
    BY <1>1, <2>1, RowSteps
<1>2. IInv /\ [Next]_vars =>
        [\A e \in Events :
            token[e] # NoDrain /\ e \notin due /\ token'[e] # token[e]
              => /\ doing[token[e]] = e
                 /\ work[token[e]][e] = attempts[e]
                 /\ work'[token[e]][e] = 0]_vars
  BY <1>1
<1> QED
  BY <1>2, Invariance, PTL DEF Spec, LeaseIsExclusive

\* No step reopens or relabels a terminal row.
THEOREM TerminalFinal == Spec => TerminalIsFinal
<1>1. ASSUME IInv, [Next]_vars, NEW e \in Events, status[e] \in Terminal
      PROVE  status'[e] = status[e]
  <2>1. status[e] \notin {"absent", "processing"} \cup Waiting
    BY <1>1 DEF Terminal, Settled, Waiting
  <2>2. e \notin due
    BY <1>1, <2>1 DEF IInv, TypeOK
  <2> QED
    BY <1>1, <2>1, <2>2, RowSteps
<1>2. IInv /\ [Next]_vars =>
        [\A e \in Events :
            status[e] \in Terminal => status'[e] = status[e]]_vars
  BY <1>1
<1> QED
  BY <1>2, Invariance, PTL DEF Spec, TerminalIsFinal

-----------------------------------------------------------------------------
(* The queue implements EventOutcomes                                       *)

\* Only recorded events are held by a drain.
HeldIsRecorded ==
    \A t \in Drains, e \in Events : work[t][e] > 0 => status[e] # "absent"

LEMMA HeldInv ==
  ASSUME IInv, HeldIsRecorded, [Next]_vars PROVE HeldIsRecorded'
<1> SUFFICES ASSUME NEW u \in Drains, NEW f \in Events, work'[u][f] > 0
             PROVE  status'[f] # "absent"
  BY DEF HeldIsRecorded
<1>1. ASSUME NEW e \in Events, Record(e) PROVE status'[f] # "absent"
  BY <1>1 DEF Record, drains, HeldIsRecorded, IInv, TypeOK
<1>2. ASSUME NEW e \in Events, ComesDue(e) PROVE status'[f] # "absent"
  BY <1>2 DEF ComesDue, drains, HeldIsRecorded
<1>3. ASSUME NEW t \in Drains, Claim(t) PROVE status'[f] # "absent"
  <2>1. PICK batch \in Batches : ClaimBatch(t, batch)
    BY <1>3 DEF Claim
  <2>2. batch \subseteq due
    BY <2>1 DEF Batches, Candidates
  <2>3. CASE f \in Exhausted \cup batch
    BY <2>1, <2>3 DEF ClaimBatch
  <2>4. CASE f \notin Exhausted \cup batch
    <3>1. status'[f] = status[f]
      BY <2>1, <2>4 DEF ClaimBatch
    <3>2. work'[u][f] = work[u][f] \/ work'[u][f] = 0
      BY <2>1, <2>4 DEF ClaimBatch, IInv, TypeOK
    <3> QED
      BY <3>1, <3>2 DEF HeldIsRecorded
  <2> QED
    BY <2>3, <2>4
<1>4. ASSUME NEW t \in Drains, Work(t) PROVE status'[f] # "absent"
  <2>1. work'[u][f] = work[u][f] \/ work'[u][f] = 0
    <3>1. CASE work' = work
      BY <3>1
    <3>2. CASE NextRow(t)
      BY <3>2 DEF NextRow, IInv, TypeOK
    <3>3. CASE Die(t)
      BY <3>3 DEF Die, IInv, TypeOK
    <3> QED
      BY <1>4, <3>1, <3>2, <3>3
      DEF Work, Take, Grant, Project, Throw, MarkTerminal, MarkFailure
  <2>2. status[f] # "absent"
    BY <2>1 DEF HeldIsRecorded
  <2>3. status'[f] = status[f] \/ status'[f] \in Terminal \cup {"retryable"}
    <3>1. CASE status' = status
      BY <3>1
    <3>2. ASSUME NEW outcome \in Terminal \cup {"retryable"}, Settle(t, outcome)
          PROVE  status'[f] = status[f] \/ status'[f] \in Terminal \cup {"retryable"}
      BY <3>2 DEF Settle, IInv, TypeOK
    <3>3. FailureOutcome(t) \in Terminal \cup {"retryable"}
      BY DEF FailureOutcome, Terminal
    <3> QED
      BY <1>4, <3>1, <3>2, <3>3
      DEF Work, Take, Grant, Project, Throw, Die, MarkTerminal, MarkFailure, Terminal
  <2> QED
    BY <2>2, <2>3 DEF Terminal, Settled
<1>5. CASE UNCHANGED vars
  BY <1>5 DEF vars, HeldIsRecorded
<1> QED
  BY <1>1, <1>2, <1>3, <1>4, <1>5 DEF Next

\* The initial states map to the initial state.
LEMMA OutcomesInit == Init => Outcomes!Init
BY DEF Init, Outcomes!Init, OutcomeOf

\* A step that leaves what is recorded and what is terminal as it is, and the
\* effects too, is no step of the promise.
LEMMA Stutters ==
  ASSUME UNCHANGED effects,
         \A e \in Events : \/ status'[e] = status[e]
                           \/ {status[e], status'[e]} \cap (Terminal \cup {"absent"}) = {}
  PROVE  UNCHANGED Outcomes!vars
<1>1. OutcomeOf' = OutcomeOf
  BY DEF OutcomeOf, Terminal, Settled
<1> QED
  BY <1>1 DEF Outcomes!vars, effects

\* A settling statement settles, buries or stutters.
LEMMA SettleImplements ==
  ASSUME IInv, NEW t \in Drains, doing[t] # NoEvent,
         NEW outcome \in Terminal \cup {"retryable"},
         outcome \in Settled => doing[t] \in granted \cap projected,
         Settle(t, outcome), UNCHANGED effects
  PROVE  [Outcomes!Next]_(Outcomes!vars)
<1> DEFINE e == doing[t]
<1>1. e \in Events
  BY DEF IInv, TypeOK
<1>2. CASE ~ClaimHolds(t)
  BY <1>2, Stutters DEF Settle
<1>3. CASE ClaimHolds(t)
  <2>1. /\ status[e] = "processing"
        /\ status' = [status EXCEPT ![e] = outcome]
    BY <1>3 DEF ClaimHolds, Settle
  <2>2. CASE outcome = "retryable"
    BY <1>1, <2>1, <2>2, Stutters DEF IInv, TypeOK, Terminal, Settled
  <2>3. CASE outcome \in Terminal
    <3>1. OutcomeOf[e] = "open"
      BY <1>1, <2>1 DEF OutcomeOf, Terminal, Settled
    <3>2. OutcomeOf' = [OutcomeOf EXCEPT ![e] = outcome]
      BY <1>1, <2>1, <2>3 DEF OutcomeOf, Terminal, Settled, IInv, TypeOK
    <3>3. CASE outcome \in Settled
      <4>1. Outcomes!Settle(e)
        BY <3>1, <3>2, <3>3 DEF Outcomes!Settle, Settled, effects
      <4> QED
        BY <1>1, <4>1 DEF Outcomes!Next
    <3>4. CASE outcome = "dead_letter"
      <4>1. Outcomes!Bury({e})
        BY <1>1, <3>1, <3>2, <3>4 DEF Outcomes!Bury, OutcomeOf, effects
      <4> QED
        BY <1>1, <4>1 DEF Outcomes!Next
    <3> QED
      BY <2>3, <3>3, <3>4 DEF Terminal
  <2> QED
    BY <2>2, <2>3
<1> QED
  BY <1>2, <1>3

\* Every step is a step of the promise or leaves its variables alone.
LEMMA OutcomesStep ==
  ASSUME IInv, HeldIsRecorded, [Next]_vars
  PROVE  [Outcomes!Next]_(Outcomes!vars)
<1>1. ASSUME NEW e \in Events, Record(e) PROVE Outcomes!Next
  <2>1. Outcomes!Accept(e)
    BY <1>1 DEF Record, Outcomes!Accept, OutcomeOf, effects, IInv, TypeOK, Terminal, Settled
  <2> QED
    BY <2>1 DEF Outcomes!Next
<1>2. ASSUME NEW e \in Events, ComesDue(e) PROVE UNCHANGED Outcomes!vars
  BY <1>2, Stutters DEF ComesDue
<1>3. ASSUME NEW t \in Drains, Claim(t) PROVE Outcomes!Next
  <2>1. PICK batch \in Batches : ClaimBatch(t, batch)
    BY <1>3 DEF Claim
  <2>2. \A e \in Exhausted \cup batch : e \in Events /\ status[e] \in Waiting \cup {"processing"}
    BY <2>1 DEF Batches, Candidates, Exhausted, IInv, TypeOK
  <2>3. \A e \in Exhausted : OutcomeOf[e] = "open"
    BY <2>2 DEF OutcomeOf, Waiting, Terminal, Settled
  <2>4. OutcomeOf' = [e \in Events |-> IF e \in Exhausted THEN "dead_letter" ELSE OutcomeOf[e]]
    <3> SUFFICES ASSUME NEW e \in Events
                 PROVE  OutcomeOf'[e] = IF e \in Exhausted THEN "dead_letter" ELSE OutcomeOf[e]
      BY DEF OutcomeOf
    <3>1. CASE e \in Exhausted
      BY <2>1, <3>1 DEF ClaimBatch, OutcomeOf, Terminal, Settled
    <3>2. CASE e \notin Exhausted /\ e \in batch
      BY <2>1, <2>2, <3>2 DEF ClaimBatch, OutcomeOf, Waiting, Terminal, Settled
    <3>3. CASE e \notin Exhausted \cup batch
      BY <2>1, <3>3 DEF ClaimBatch, OutcomeOf
    <3> QED
      BY <3>1, <3>2, <3>3
  <2>5. Outcomes!Bury(Exhausted)
    BY <1>3, <2>3, <2>4 DEF Outcomes!Bury, Claim, effects
  <2> QED
    BY <2>2, <2>5 DEF Outcomes!Next
<1>4. ASSUME NEW t \in Drains, Work(t) PROVE [Outcomes!Next]_(Outcomes!vars)
  <2>1. doing[t] # NoEvent => doing[t] \in Events /\ status[doing[t]] # "absent"
    BY DEF IInv, TypeOK, DrainInv, HeldIsRecorded
  <2>2. CASE Grant(t)
    <3>1. doing[t] \in Events /\ OutcomeOf[doing[t]] # "none"
      BY <2>1, <2>2 DEF Grant, IInv, DrainInv, OutcomeOf, Terminal, Settled
    <3>2. Outcomes!Grant(doing[t])
      BY <2>2, <3>1 DEF Grant, Outcomes!Grant, OutcomeOf
    <3> QED
      BY <3>1, <3>2 DEF Outcomes!Next
  <2>3. CASE Project(t)
    <3>1. doing[t] \in Events /\ doing[t] \in granted
      BY <2>1, <2>3 DEF Project, IInv, DrainInv
    <3>2. Outcomes!Project(doing[t])
      BY <2>3, <3>1 DEF Project, Outcomes!Project, OutcomeOf
    <3> QED
      BY <3>1, <3>2 DEF Outcomes!Next
  <2>4. CASE \E outcome \in Settled : MarkTerminal(t, outcome)
    <3>1. PICK outcome \in Settled : MarkTerminal(t, outcome)
      BY <2>4
    <3>2. doing[t] # NoEvent /\ doing[t] \in granted \cap projected
      BY <3>1 DEF MarkTerminal, IInv, DrainInv
    <3> QED
      BY <3>1, <3>2, SettleImplements DEF MarkTerminal, Terminal
  <2>5. CASE MarkFailure(t)
    <3>1. doing[t] # NoEvent
      BY <2>5 DEF MarkFailure, IInv, DrainInv
    <3>2. FailureOutcome(t) \in Terminal \cup {"retryable"} /\ FailureOutcome(t) \notin Settled
      BY DEF FailureOutcome, Terminal, Settled
    <3> QED
      BY <2>5, <3>1, <3>2, SettleImplements DEF MarkFailure, effects
  <2>6. CASE \/ \E e \in Events : Take(t, e)
             \/ Throw(t)
             \/ Die(t)
    BY <2>6, Stutters DEF Take, Throw, Die
  <2> QED
    BY <1>4, <2>2, <2>3, <2>4, <2>5, <2>6 DEF Work
<1>5. CASE UNCHANGED vars
  BY <1>5, Stutters DEF vars, effects
<1> QED
  BY <1>1, <1>2, <1>3, <1>4, <1>5 DEF Next

\* The queue, with its leases, retries, lost claims and dying workers, gives
\* each accepted event one outcome and settles only what is committed.
THEOREM Refinement == Spec => ImplementsOutcomes
<1>1. Init => HeldIsRecorded
  BY SMT DEF Init, HeldIsRecorded
<1>2. IInv /\ HeldIsRecorded /\ [Next]_vars => HeldIsRecorded'
  BY HeldInv
<1>3. IInv /\ HeldIsRecorded /\ [Next]_vars => [Outcomes!Next]_(Outcomes!vars)
  BY OutcomesStep
<1> QED
  BY <1>1, <1>2, <1>3, OutcomesInit, Invariance, PTL
  DEF Spec, ImplementsOutcomes, Outcomes!Spec

-----------------------------------------------------------------------------
(***************************************************************************)
(* The commerce ledger that the queue's events are projected to, for any    *)
(* objects, links, profiles and snapshots, presented in any order and as    *)
(* often as they come.  Each table function of CommerceLedger keeps what    *)
(* the tables say of the events presented so far; reconciliation then makes *)
(* the owners agree.                                                        *)
(***************************************************************************)
CONSTANTS Objects, TypeOf, Rank, Snapshots, Links, Strong, Profiles, PaymentOf, None
VARIABLES fact, keyOf, edge, link, merged, money, applied

Ledger == INSTANCE CommerceLedger WITH Events <- Snapshots

MaybeKey == Objects \cup {None}
MaybeOwner == Profiles \cup {None}
FactRows == [at : Nat, gross : Nat, refunded : Nat, disputed : Nat, first : Nat, last : Nat,
             key : MaybeKey, owner : MaybeOwner, conflict : BOOLEAN, evidence : SUBSET Links]
EdgeRows == [at : Nat, paidBy : SUBSET Objects]
Stores == [fact : [Objects -> FactRows], keyOf : [Objects -> MaybeKey],
           edge : [Objects -> EdgeRows], link : [Links -> MaybeOwner]]

\* A fact's dates are those of presented transitions of its object.
Dates(o, ap) == {0} \cup {Ledger!PaidAt(e) : e \in {x \in ap : x.of = o}}
\* What event e says, in the fact of its object.
Says(f, e) ==
    /\ f.at = e.at /\ f.gross = Ledger!Gross(e) /\ f.refunded = Ledger!Refunded(e)
    /\ f.disputed = Ledger!Disputed(e)
\* Facts are of presented events, and say what the newest of them said.
FactsTell(d, ap) ==
    \A o \in Objects :
        /\ (\A e \in ap : e.of # o) => d.fact[o] = Ledger!NoFact
        /\ (\E e \in ap : e.of = o) =>
             \E e \in ap : e.of = o /\ Says(d.fact[o], e) /\ \A y \in ap : y.of = o => y.at <= e.at
        /\ d.fact[o] = Ledger!NoFact \/ (d.fact[o].key = d.keyOf[o] /\ d.keyOf[o] # None)
        /\ d.fact[o].first \in Dates(o, ap) /\ d.fact[o].last \in Dates(o, ap)
        /\ d.fact[o].first <= d.fact[o].last

Class(d, k) == {a \in Objects : d.keyOf[a] = k}
Torn(T, ap) == \E e \in ap : Ledger!Aliases(e) \cap T # {} /\ ~(Ledger!Aliases(e) \subseteq T)
\* The aliases of a presented event share a key, a key is one of its objects,
\* and presented events tie all the objects of a key together.
KeysTie(d, ap) ==
    /\ \A e \in ap, a \in Objects :
         a \in Ledger!Aliases(e) => d.keyOf[a] = d.keyOf[e.of] /\ d.keyOf[a] # None
    /\ \A a \in Objects : d.keyOf[a] # None => d.keyOf[d.keyOf[a]] = d.keyOf[a]
    /\ \A k \in Objects : \A T \in SUBSET Class(d, k) : T # {} /\ T # Class(d, k) => Torn(T, ap)

\* No payment and no link is left with a merged profile.
OwnersLive(d, gone) ==
    /\ \A o \in Objects : d.fact[o].owner \notin gone
    /\ \A l \in Links : d.link[l] \notin gone

LEMMA SnapshotIs ==
    ASSUME Ledger!CommerceAssumption, NEW e \in Snapshots
    PROVE  /\ e.at \in Nat /\ e.at > 0 /\ e.of \in Objects /\ e.names \subseteq Objects
           /\ e.evidence \subseteq Links /\ e.paidBy \subseteq Objects
           /\ Ledger!Aliases(e) \subseteq Objects /\ e.of \in Ledger!Aliases(e)
           /\ Ledger!Gross(e) \in Nat /\ Ledger!Refunded(e) \in Nat /\ Ledger!Disputed(e) \in Nat
           /\ Ledger!PaidAt(e) \in Nat
<1>1. /\ e.at \in Nat /\ e.at > 0 /\ e.of \in Objects /\ e.names \subseteq Objects
      /\ e.evidence \subseteq Links /\ e.paidBy \subseteq Objects /\ e.amount \in Nat /\ e.refunded \in Nat
    BY DEF Ledger!CommerceAssumption
<1>2. Ledger!Gross(e) \in Nat
    BY <1>1 DEF Ledger!Gross
<1>3. Ledger!Refunded(e) \in Nat
    BY <1>1, <1>2 DEF Ledger!Refunded, Ledger!Least
<1>4. Ledger!Disputed(e) \in Nat /\ Ledger!PaidAt(e) \in Nat
    BY <1>1 DEF Ledger!Disputed, Ledger!PaidAt
<1> QED
    BY <1>1, <1>2, <1>3, <1>4 DEF Ledger!Aliases

\* The key of least rank exists.
LEMMA KeyIs ==
    ASSUME Ledger!CommerceAssumption, NEW ks \in SUBSET Objects, ks # {}
    PROVE  Ledger!Key(ks) \in ks
<1>1. PICK R : /\ IsWellFoundedOn(R, Nat)
               /\ \A x, y \in Nat : y < x => <<y, x>> \in R
  <2> DEFINE less == OpToRel(<, Nat)
  <2>1. IsWellFoundedOn(less, Nat)
      BY NatLessThanWellFounded
  <2>2. \A x, y \in Nat : y < x => <<y, x>> \in less
      BY DEF OpToRel
  <2> HIDE DEF less
  <2> QED
      BY <2>1, <2>2
<1>2. PICK T : T = {Rank[k] : k \in ks}
    OBVIOUS
<1>3. T \subseteq Nat /\ T # {}
    BY <1>2 DEF Ledger!CommerceAssumption
<1>4. PICK x \in T : \A y \in T : ~(<<y, x>> \in R)
    BY <1>1, <1>3, WFMin
<1>5. PICK k \in ks : x = Rank[k]
    BY <1>2
<1>6. ASSUME NEW j \in ks PROVE Rank[k] <= Rank[j]
  <2>1. Rank[j] \in T /\ Rank[j] \in Nat /\ Rank[k] \in Nat
      BY <1>2, <1>3, <1>5
  <2>2. ~(Rank[j] < Rank[k])
      BY <1>1, <1>4, <1>5, <2>1
  <2> QED
      BY <2>1, <2>2
<1> QED
    BY <1>6 DEF Ledger!Key

-----------------------------------------------------------------------------
\* The presented event's aliases share one key, whatever keys they had.
Prior(d, e) == {d.keyOf[a] : a \in Ledger!Aliases(e)} \ {None}
KeyOfAll(d, e) == Ledger!Key(Prior(d, e) \cup Ledger!Aliases(e))

LEMMA RekeyedIs ==
    ASSUME Ledger!CommerceAssumption, NEW d \in Stores, NEW e \in Snapshots
    PROVE  LET r == Ledger!Rekeyed(d, e) IN
           /\ Prior(d, e) \subseteq Objects /\ KeyOfAll(d, e) \in Prior(d, e) \cup Ledger!Aliases(e)
           /\ r \in Stores /\ r.edge = d.edge /\ r.link = d.link
           /\ \A a \in Objects : r.keyOf[a] = IF a \in Ledger!Aliases(e) \/ d.keyOf[a] \in Prior(d, e)
                                              THEN KeyOfAll(d, e) ELSE d.keyOf[a]
           /\ \A o \in Objects : r.fact[o] = IF d.fact[o].key \in Prior(d, e)
                                             THEN [d.fact[o] EXCEPT !.key = KeyOfAll(d, e)] ELSE d.fact[o]
<1>1. PICK prior : prior = Prior(d, e)
    OBVIOUS
<1>2. /\ d.fact \in [Objects -> FactRows] /\ d.keyOf \in [Objects -> MaybeKey]
      /\ Ledger!Aliases(e) \subseteq Objects /\ Ledger!Aliases(e) # {}
    BY SnapshotIs DEF Stores
<1>3. prior \in SUBSET Objects
    BY <1>1, <1>2 DEF MaybeKey, Prior
<1>4. PICK key : key = KeyOfAll(d, e)
    OBVIOUS
<1>5. key \in prior \cup Ledger!Aliases(e) /\ key \in Objects
    BY <1>1, <1>2, <1>3, <1>4, KeyIs DEF KeyOfAll
<1>6. PICK keys, facts :
        /\ keys = [a \in Objects |->
                     IF a \in Ledger!Aliases(e) \/ d.keyOf[a] \in prior THEN key ELSE d.keyOf[a]]
        /\ facts = [o \in Objects |->
                     IF d.fact[o].key \in prior THEN [d.fact[o] EXCEPT !.key = key] ELSE d.fact[o]]
    OBVIOUS
<1>7. keys \in [Objects -> MaybeKey]
    BY <1>2, <1>5, <1>6 DEF MaybeKey
<1>8. facts \in [Objects -> FactRows]
  <2>1. \A f \in FactRows : [f EXCEPT !.key = key] \in FactRows
      BY <1>5 DEF FactRows, MaybeKey
  <2> QED
      BY <1>2, <1>6, <2>1
<1>9. Ledger!Rekeyed(d, e) = [d EXCEPT !.keyOf = keys, !.fact = facts]
    BY <1>1, <1>4, <1>6 DEF Ledger!Rekeyed, Prior, KeyOfAll
<1>10. /\ Ledger!Rekeyed(d, e) \in Stores /\ Ledger!Rekeyed(d, e).edge = d.edge
       /\ Ledger!Rekeyed(d, e).link = d.link /\ Ledger!Rekeyed(d, e).keyOf = keys
       /\ Ledger!Rekeyed(d, e).fact = facts
    BY <1>7, <1>8, <1>9 DEF Stores
<1> QED
    BY <1>1, <1>3, <1>4, <1>5, <1>6, <1>10

\* Rekeying keeps what the facts say, and ties the event's objects.
LEMMA RekeyedTells ==
    ASSUME Ledger!CommerceAssumption, NEW d \in Stores, NEW e \in Snapshots, NEW ap \in SUBSET Snapshots,
           FactsTell(d, ap), KeysTie(d, ap), NEW gone, OwnersLive(d, gone),
           NEW r, r = Ledger!Rekeyed(d, e)
    PROVE  r \in Stores /\ FactsTell(r, ap) /\ KeysTie(r, ap \cup {e}) /\ OwnersLive(r, gone)
<1>1. PICK prior, key : prior = Prior(d, e) /\ key = KeyOfAll(d, e)
    OBVIOUS
<1>2. /\ prior \subseteq Objects /\ key \in prior \cup Ledger!Aliases(e)
      /\ r \in Stores /\ r.edge = d.edge /\ r.link = d.link
      /\ \A a \in Objects : r.keyOf[a] = IF a \in Ledger!Aliases(e) \/ d.keyOf[a] \in prior
                                         THEN key ELSE d.keyOf[a]
      /\ \A o \in Objects : r.fact[o] = IF d.fact[o].key \in prior
                                        THEN [d.fact[o] EXCEPT !.key = key] ELSE d.fact[o]
    BY <1>1, RekeyedIs
<1>3. /\ Ledger!Aliases(e) \subseteq Objects /\ e.of \in Ledger!Aliases(e) /\ None \notin Objects
      /\ key \in Objects /\ None \notin prior
    BY <1>1, <1>2, SnapshotIs DEF Ledger!CommerceAssumption, Prior
<1>4. \A a \in Ledger!Aliases(e) : d.keyOf[a] # None => d.keyOf[a] \in prior
    BY <1>1 DEF Prior
<1>5. \A o \in Objects : r.fact[o] = d.fact[o] \/ (d.fact[o].key \in prior /\ r.fact[o] = [d.fact[o] EXCEPT !.key = key])
    BY <1>2
<1>6. \A f \in FactRows : LET g == [f EXCEPT !.key = key] IN
        /\ g.at = f.at /\ g.gross = f.gross /\ g.refunded = f.refunded /\ g.disputed = f.disputed
        /\ g.first = f.first /\ g.last = f.last /\ g.owner = f.owner /\ g.key = key
    BY DEF FactRows
<1>7. ASSUME NEW o \in Objects
      PROVE  /\ r.fact[o].at = d.fact[o].at /\ r.fact[o].gross = d.fact[o].gross
             /\ r.fact[o].refunded = d.fact[o].refunded /\ r.fact[o].disputed = d.fact[o].disputed
             /\ r.fact[o].first = d.fact[o].first /\ r.fact[o].last = d.fact[o].last
             /\ r.fact[o].owner = d.fact[o].owner
  <2>1. PICK f : f = d.fact[o]
      OBVIOUS
  <2>2. f \in FactRows /\ (r.fact[o] = f \/ r.fact[o] = [f EXCEPT !.key = key])
      BY <1>5, <2>1 DEF Stores
  <2> QED
      BY <1>6, <2>1, <2>2
<1>8. FactsTell(r, ap)
  <2> SUFFICES ASSUME NEW o \in Objects
               PROVE  /\ (\A x \in ap : x.of # o) => r.fact[o] = Ledger!NoFact
                      /\ r.fact[o] = Ledger!NoFact \/ (r.fact[o].key = r.keyOf[o] /\ r.keyOf[o] # None)
      BY <1>7 DEF FactsTell, Says
  <2>1. CASE d.fact[o] = Ledger!NoFact
    <3>1. Ledger!NoFact.key = None
        BY DEF Ledger!NoFact
    <3>2. r.fact[o] = Ledger!NoFact
        BY <1>2, <1>3, <2>1, <3>1
    <3> QED
        BY <3>2
  <2>2. CASE d.fact[o] # Ledger!NoFact
    <3>1. d.fact[o].key = d.keyOf[o] /\ d.keyOf[o] # None /\ ~(\A x \in ap : x.of # o)
        BY <2>2 DEF FactsTell
    <3>2. CASE d.keyOf[o] \in prior
      <4>1. r.keyOf[o] = key /\ r.fact[o] = [d.fact[o] EXCEPT !.key = key]
          BY <1>2, <3>1, <3>2
      <4>2. r.fact[o].key = key
          BY <1>6, <4>1 DEF Stores
      <4> QED
          BY <1>3, <3>1, <4>1, <4>2
    <3>3. CASE d.keyOf[o] \notin prior
        BY <1>2, <1>4, <3>1, <3>3
    <3> QED
        BY <3>2, <3>3
  <2> QED
      BY <2>1, <2>2
<1>9. OwnersLive(r, gone)
    BY <1>2, <1>7 DEF OwnersLive
<1>10. \A x \in ap \cup {e}, a \in Objects :
         a \in Ledger!Aliases(x) => r.keyOf[a] = r.keyOf[x.of] /\ r.keyOf[a] # None
  <2> SUFFICES ASSUME NEW x \in ap \cup {e}, NEW a \in Objects, a \in Ledger!Aliases(x)
               PROVE  r.keyOf[a] = r.keyOf[x.of] /\ r.keyOf[a] # None
      OBVIOUS
  <2>1. CASE x = e
      BY <1>2, <1>3, <2>1
  <2>2. CASE x \in ap
    <3>1. d.keyOf[a] = d.keyOf[x.of] /\ d.keyOf[a] # None /\ x.of \in Objects
        BY <2>2, SnapshotIs DEF KeysTie
    <3> QED
        BY <1>2, <1>3, <1>4, <3>1
  <2> QED
      BY <2>1, <2>2
<1>11. d.keyOf[key] = key \/ key \in Ledger!Aliases(e)
    BY <1>1, <1>2, <1>3 DEF KeysTie, Prior
<1>12. \A k \in prior : d.keyOf[k] = k
    BY <1>1, <1>3 DEF KeysTie, Prior
<1>13. \A a \in Objects : r.keyOf[a] # None => r.keyOf[r.keyOf[a]] = r.keyOf[a]
  <2> SUFFICES ASSUME NEW a \in Objects, r.keyOf[a] # None PROVE r.keyOf[r.keyOf[a]] = r.keyOf[a]
      OBVIOUS
  <2>1. CASE r.keyOf[a] = key
      BY <1>2, <1>3, <1>12, <2>1
  <2>2. CASE r.keyOf[a] # key
    <3>1. r.keyOf[a] = d.keyOf[a] /\ d.keyOf[a] \notin prior /\ d.keyOf[a] \in Objects
        BY <1>2, <2>2 DEF Stores, MaybeKey
    <3>2. d.keyOf[d.keyOf[a]] = d.keyOf[a]
        BY <3>1 DEF KeysTie
    <3>3. d.keyOf[a] \notin Ledger!Aliases(e)
        BY <1>3, <1>4, <3>1, <3>2
    <3> QED
        BY <1>2, <3>1, <3>2, <3>3
  <2> QED
      BY <2>1, <2>2
<1>14. ASSUME NEW k \in Objects, NEW T \in SUBSET Class(r, k), T # {}, T # Class(r, k)
       PROVE  Torn(T, ap \cup {e})
  <2>1. SUFFICES ASSUME ~Torn(T, ap), Ledger!Aliases(e) \cap T = {} \/ Ledger!Aliases(e) \subseteq T
                 PROVE  FALSE
      BY DEF Torn
  <2>2. ASSUME NEW j \in Objects PROVE Class(d, j) \cap T = {} \/ Class(d, j) \subseteq T
    <3> DEFINE part == Class(d, j) \cap T
    <3>1. SUFFICES ASSUME part # {}, part # Class(d, j) PROVE FALSE
        OBVIOUS
    <3>2. PICK x \in ap : Ledger!Aliases(x) \cap part # {} /\ ~(Ledger!Aliases(x) \subseteq part)
        BY <3>1 DEF KeysTie, Torn
    <3>3. Ledger!Aliases(x) \subseteq T /\ Ledger!Aliases(x) \subseteq Objects
        BY <2>1, <3>2, SnapshotIs DEF Torn
    <3>4. Ledger!Aliases(x) \subseteq Class(d, j)
        BY <3>2, <3>3 DEF KeysTie, Class
    <3> QED
        BY <3>2, <3>3, <3>4
  <2>3. CASE k = key
    <3>1. \A a \in Class(r, k) : a \in Ledger!Aliases(e) \/ d.keyOf[a] \in prior
      <4> SUFFICES ASSUME NEW a \in Objects, r.keyOf[a] = key, a \notin Ledger!Aliases(e), d.keyOf[a] \notin prior
                   PROVE  FALSE
          BY <2>3 DEF Class
      <4>1. d.keyOf[a] = key
          BY <1>2
      <4>2. key \in Ledger!Aliases(e) /\ d.keyOf[key] = key
          BY <1>2, <1>3, <4>1 DEF KeysTie
      <4> QED
          BY <1>3, <1>4, <4>1, <4>2
    <3>2. Ledger!Aliases(e) \subseteq Class(r, k)
        BY <1>2, <1>3, <2>3 DEF Class
    <3>3. \A j \in prior : \E a \in Ledger!Aliases(e) : a \in Class(d, j)
        BY <1>1, <1>3 DEF Prior, Class
    <3>4. \A a \in Objects : a \in Class(d, d.keyOf[a])
        BY DEF Class
    <3>5. CASE Ledger!Aliases(e) \cap T = {}
      <4>1. PICK a \in T : TRUE
          BY <1>14
      <4>2. a \in Objects /\ a \notin Ledger!Aliases(e) /\ d.keyOf[a] \in prior
          BY <3>1, <3>5, <4>1 DEF Class
      <4>3. Class(d, d.keyOf[a]) \subseteq T
          BY <1>2, <2>2, <3>4, <4>1, <4>2
      <4> QED
          BY <3>3, <3>5, <4>2, <4>3
    <3>6. CASE Ledger!Aliases(e) \subseteq T
      <4>1. ASSUME NEW a \in Class(r, k) PROVE a \in T
        <5>1. a \in Objects
            BY DEF Class
        <5>2. CASE a \in Ledger!Aliases(e)
            BY <3>6, <5>2
        <5>3. CASE d.keyOf[a] \in prior
          <6>1. Class(d, d.keyOf[a]) \cap T # {}
              BY <3>3, <3>6, <5>3
          <6> QED
              BY <1>2, <2>2, <3>4, <5>1, <5>3, <6>1
        <5> QED
            BY <3>1, <5>2, <5>3
      <4> QED
          BY <1>14, <4>1
    <3> QED
        BY <2>1, <3>5, <3>6
  <2>4. CASE k # key
    <3>1. Class(r, k) = {} \/ k \notin prior
        BY <1>2, <2>4 DEF Class
    <3>2. \A a \in Class(r, k) : a \in Class(d, k)
        BY <1>2, <2>4 DEF Class
    <3>3. k \notin prior => \A a \in Class(d, k) : a \in Class(r, k)
        BY <1>2, <1>3, <1>4 DEF Class
    <3>4. Class(r, k) = Class(d, k) /\ T \in SUBSET Class(d, k)
        BY <1>14, <3>1, <3>2, <3>3
    <3> QED
        BY <1>14, <2>1, <3>4 DEF KeysTie
  <2> QED
      BY <2>3, <2>4
<1>15. KeysTie(r, ap \cup {e})
    BY <1>10, <1>13, <1>14 DEF KeysTie
<1> QED
    BY <1>2, <1>8, <1>9, <1>15

-----------------------------------------------------------------------------
\* The upsert of the event's fact.
LEMMA SameCardinality == ASSUME NEW S PROVE Ledger!Cardinality(S) = Cardinality(S)
    BY DEF Ledger!Cardinality, Cardinality

LEMMA SoleIs ==
    ASSUME NEW S
    PROVE  /\ Ledger!Sole(S) \in S \cup {None}
           /\ \A p : S = {p} => Ledger!Sole(S) = p
<1>1. CASE Cardinality(S) = 1
  <2>1. S # {}
      BY <1>1, FS_EmptySet
  <2> QED
      BY <1>1, <2>1, SameCardinality DEF Ledger!Sole
<1>2. CASE Cardinality(S) # 1
  <2>1. Ledger!Sole(S) = None
      BY <1>2, SameCardinality DEF Ledger!Sole
  <2>2. \A p : S # {p}
      BY <1>2, FS_Singleton
  <2> QED
      BY <2>1, <2>2
<1> QED
    BY <1>1, <1>2

LEMMA DatesWiden ==
    ASSUME NEW first \in Nat, NEW last \in Nat, NEW at \in Nat, first <= last
    PROVE  /\ Ledger!First(first, at) \in {first, at} /\ Ledger!Last(last, at) \in {last, at}
           /\ Ledger!First(first, at) <= Ledger!Last(last, at)
    BY DEF Ledger!First, Ledger!Last, Ledger!Least, Ledger!Most

LEMMA RetoldIs ==
    ASSUME Ledger!CommerceAssumption, NEW f \in FactRows, f.first <= f.last, NEW e \in Snapshots,
           NEW g, g = Ledger!Retold(f, e)
    PROVE  /\ g \in FactRows
           /\ ~(f.at < e.at) => g = f
           /\ f.at < e.at => /\ Says(g, e) /\ g.first \in {f.first, Ledger!PaidAt(e)}
                             /\ g.last \in {f.last, Ledger!PaidAt(e)} /\ g.first <= g.last
<1>1. CASE ~(f.at < e.at)
    BY <1>1 DEF Ledger!Retold, Ledger!Newer
<1>2. CASE f.at < e.at
  <2>1. PICK at, gross, refunded, disputed, first, last :
          /\ at = e.at /\ gross = Ledger!Gross(e) /\ refunded = Ledger!Refunded(e)
          /\ disputed = Ledger!Disputed(e)
          /\ first = Ledger!First(f.first, Ledger!PaidAt(e)) /\ last = Ledger!Last(f.last, Ledger!PaidAt(e))
      OBVIOUS
  <2>2. /\ at \in Nat /\ gross \in Nat /\ refunded \in Nat /\ disputed \in Nat
        /\ f.first \in Nat /\ f.last \in Nat /\ Ledger!PaidAt(e) \in Nat /\ e.evidence \in SUBSET Links
      BY <2>1, SnapshotIs DEF FactRows
  <2>3. /\ first \in {f.first, Ledger!PaidAt(e)} /\ last \in {f.last, Ledger!PaidAt(e)} /\ first <= last
      BY <2>1, <2>2, DatesWiden
  <2>4. first \in Nat /\ last \in Nat
      BY <2>2, <2>3
  <2>5. g = [f EXCEPT !.at = at, !.gross = gross, !.refunded = refunded, !.disputed = disputed,
                      !.evidence = e.evidence, !.first = first, !.last = last]
      BY <1>2, <2>1 DEF Ledger!Retold, Ledger!Newer, FactRows
  <2>6. g \in FactRows
      BY <2>2, <2>4, <2>5, ZenonT(40) DEF FactRows
  <2>7. g.at = at /\ g.gross = gross /\ g.refunded = refunded
      BY <2>5 DEF FactRows
  <2>8. g.disputed = disputed /\ g.first = first /\ g.last = last
      BY <2>5 DEF FactRows
  <2> QED
      BY <1>2, <2>1, <2>3, <2>6, <2>7, <2>8 DEF Says
<1> QED
    BY <1>1, <1>2

LEMMA RowIs ==
    ASSUME NEW f \in FactRows, NEW k \in MaybeKey, NEW p \in MaybeOwner, NEW c \in BOOLEAN,
           NEW g, g = [f EXCEPT !.key = k, !.owner = p, !.conflict = c]
    PROVE  /\ g \in FactRows /\ g.key = k /\ g.owner = p /\ g.conflict = c /\ g.evidence = f.evidence
           /\ g.at = f.at /\ g.gross = f.gross /\ g.refunded = f.refunded /\ g.disputed = f.disputed
           /\ g.first = f.first /\ g.last = f.last
    BY DEF FactRows

\* The owner that an event gives to its fact is a live profile.
LEMMA ResolvedIs ==
    ASSUME Ledger!CommerceAssumption, NEW d \in Stores, NEW e \in Snapshots, NEW k,
           NEW gone \in SUBSET Profiles, OwnersLive(d, gone)
    PROVE  Ledger!Resolved(d, e, k) \in MaybeOwner \ gone
<1>1. None \notin gone /\ None \in MaybeOwner
    BY DEF Ledger!CommerceAssumption, MaybeOwner
<1>2. Ledger!Owners(d, k) \subseteq MaybeOwner \ gone
    BY DEF Ledger!Owners, Ledger!Group, OwnersLive, Stores, FactRows
<1>3. \A ls \in SUBSET Links : Ledger!Named(d, ls) \subseteq MaybeOwner \ gone
    BY DEF Ledger!Named, OwnersLive, Stores
<1>4. e.evidence \cap Strong \in SUBSET Links
    BY SnapshotIs
<1>5. Ledger!Named(d, e.evidence \cap Strong) \subseteq MaybeOwner \ gone
    BY <1>3, <1>4
<1> QED
    BY <1>1, <1>2, <1>5, SoleIs DEF Ledger!Resolved

LEMMA UpsertedTells ==
    ASSUME Ledger!CommerceAssumption, NEW d \in Stores, NEW e \in Snapshots, NEW ap \in SUBSET Snapshots,
           FactsTell(d, ap), KeysTie(d, ap \cup {e}), NEW gone \in SUBSET Profiles, OwnersLive(d, gone),
           NEW r, r = Ledger!Upserted(d, e)
    PROVE  /\ r \in Stores /\ FactsTell(r, ap \cup {e}) /\ KeysTie(r, ap \cup {e}) /\ OwnersLive(r, gone)
           /\ \A o \in Objects : d.fact[o] # Ledger!NoFact => r.fact[o] # Ledger!NoFact
<1>1. PICK old, key, conflict : /\ old = d.fact[e.of] /\ key = d.keyOf[e.of]
                                /\ conflict = (old.conflict \/ Ledger!Conflicts(d, e, key))
    OBVIOUS
<1>2. PICK owner : owner = IF ~Ledger!Newer(old, e) /\ old.conflict THEN old.owner
                           ELSE IF Ledger!Newer(old, e) /\ Ledger!Conflicts(d, e, key) THEN None
                           ELSE IF old.owner = None THEN Ledger!Resolved(d, e, key) ELSE old.owner
    OBVIOUS
<1>3. PICK g : g = Ledger!Retold(old, e)
    OBVIOUS
<1>4. PICK f : f = [g EXCEPT !.key = key, !.owner = owner, !.conflict = conflict]
    OBVIOUS
<1>5. r = [d EXCEPT !.fact[e.of] = f]
    BY <1>1, <1>2, <1>3, <1>4 DEF Ledger!Upserted
<1>6. e.of \in Objects /\ e.of \in Ledger!Aliases(e) /\ e.at \in Nat /\ e.at > 0 /\ Ledger!PaidAt(e) \in Nat
    BY SnapshotIs
<1>7. old \in FactRows /\ key \in MaybeKey /\ key # None /\ old.first <= old.last
    BY <1>1, <1>6 DEF Stores, KeysTie, FactsTell
<1>8. owner \in MaybeOwner /\ owner \notin gone
  <2>1. old.owner \in MaybeOwner /\ old.owner \notin gone
      BY <1>1, <1>6, <1>7 DEF FactRows, OwnersLive
  <2>2. None \in MaybeOwner /\ None \notin gone
      BY DEF MaybeOwner, Ledger!CommerceAssumption
  <2> QED
      BY <1>2, <2>1, <2>2, ResolvedIs
<1>9. conflict \in BOOLEAN
    BY <1>1
<1>10. /\ g \in FactRows
       /\ ~(old.at < e.at) => g = old
       /\ old.at < e.at => /\ Says(g, e) /\ g.first \in {old.first, Ledger!PaidAt(e)}
                           /\ g.last \in {old.last, Ledger!PaidAt(e)} /\ g.first <= g.last
    BY <1>3, <1>7, RetoldIs
<1>11. /\ f \in FactRows /\ f.key = key /\ f.owner = owner
       /\ f.at = g.at /\ f.gross = g.gross /\ f.refunded = g.refunded /\ f.disputed = g.disputed
       /\ f.first = g.first /\ f.last = g.last
    BY <1>4, <1>7, <1>8, <1>9, <1>10 DEF FactRows
<1>12. /\ r \in Stores /\ r.keyOf = d.keyOf /\ r.edge = d.edge /\ r.link = d.link
       /\ r.fact[e.of] = f /\ \A o \in Objects \ {e.of} : r.fact[o] = d.fact[o]
    BY <1>5, <1>6, <1>11 DEF Stores
<1>13. f # Ledger!NoFact
    BY <1>7, <1>11 DEF Ledger!NoFact
<1>14. KeysTie(r, ap \cup {e})
  <2>1. r.keyOf = d.keyOf
      BY <1>12
  <2>2. \A k : Class(r, k) = Class(d, k)
      BY <2>1 DEF Class
  <2> QED
      BY <2>1, <2>2 DEF KeysTie
<1>15. OwnersLive(r, gone)
    BY <1>8, <1>11, <1>12 DEF OwnersLive
<1>16. ASSUME NEW o \in Objects, o # e.of
       PROVE  /\ (\A x \in ap \cup {e} : x.of # o) => r.fact[o] = Ledger!NoFact
              /\ (\E x \in ap \cup {e} : x.of = o) =>
                   \E x \in ap \cup {e} : /\ x.of = o /\ Says(r.fact[o], x)
                                          /\ \A y \in ap \cup {e} : y.of = o => y.at <= x.at
              /\ r.fact[o] = Ledger!NoFact \/ (r.fact[o].key = r.keyOf[o] /\ r.keyOf[o] # None)
              /\ r.fact[o].first \in Dates(o, ap \cup {e}) /\ r.fact[o].last \in Dates(o, ap \cup {e})
              /\ r.fact[o].first <= r.fact[o].last
    BY <1>12, <1>16 DEF FactsTell, Dates
<1>17. PICK x \in ap \cup {e} : /\ x.of = e.of /\ Says(f, x)
                                /\ \A y \in ap \cup {e} : y.of = e.of => y.at <= x.at
  <2>1. \A y \in ap : y.at \in Nat
      BY SnapshotIs
  <2>2. CASE old.at < e.at
    <3>1. Says(f, e)
        BY <1>10, <1>11, <2>2 DEF Says
    <3>2. \A y \in ap : y.of = e.of => y.at <= old.at
        BY <1>1, <1>6 DEF FactsTell, Says
    <3>3. old.at \in Nat
        BY <1>7 DEF FactRows
    <3> QED
        BY <1>6, <2>1, <2>2, <3>1, <3>2, <3>3
  <2>3. CASE ~(old.at < e.at)
    <3>1. old # Ledger!NoFact
        BY <1>6, <2>3 DEF Ledger!NoFact
    <3>2. PICK y \in ap : /\ y.of = e.of /\ Says(old, y)
                          /\ \A z \in ap : z.of = e.of => z.at <= y.at
        BY <1>1, <1>6, <3>1 DEF FactsTell
    <3>3. Says(f, y)
        BY <1>10, <1>11, <2>3, <3>2 DEF Says
    <3>4. e.at <= y.at
        BY <1>6, <2>1, <2>3, <3>2 DEF Says
    <3> QED
        BY <3>2, <3>3, <3>4
  <2> QED
      BY <2>2, <2>3
<1>18. f.first \in Dates(e.of, ap \cup {e}) /\ f.last \in Dates(e.of, ap \cup {e}) /\ f.first <= f.last
  <2>1. old.first \in Dates(e.of, ap \cup {e}) /\ old.last \in Dates(e.of, ap \cup {e})
      BY <1>1, <1>6 DEF FactsTell, Dates
  <2>2. Ledger!PaidAt(e) \in Dates(e.of, ap \cup {e})
      BY DEF Dates
  <2> QED
      BY <1>7, <1>10, <1>11, <2>1, <2>2
<1>19. FactsTell(r, ap \cup {e})
  <2> SUFFICES ASSUME NEW o \in Objects
               PROVE  /\ (\A y \in ap \cup {e} : y.of # o) => r.fact[o] = Ledger!NoFact
                      /\ (\E y \in ap \cup {e} : y.of = o) =>
                           \E y \in ap \cup {e} : /\ y.of = o /\ Says(r.fact[o], y)
                                                  /\ \A z \in ap \cup {e} : z.of = o => z.at <= y.at
                      /\ r.fact[o] = Ledger!NoFact \/ (r.fact[o].key = r.keyOf[o] /\ r.keyOf[o] # None)
                      /\ r.fact[o].first \in Dates(o, ap \cup {e}) /\ r.fact[o].last \in Dates(o, ap \cup {e})
                      /\ r.fact[o].first <= r.fact[o].last
      BY DEF FactsTell
  <2>1. CASE o = e.of
    <3>1. r.fact[o] = f /\ r.keyOf[o] = key
        BY <1>1, <1>12, <2>1
    <3>2. \E y \in ap \cup {e} : y.of = o /\ Says(f, y) /\ \A z \in ap \cup {e} : z.of = o => z.at <= y.at
        BY <1>17, <2>1
    <3> QED
        BY <1>7, <1>11, <1>18, <2>1, <3>1, <3>2
  <2>2. CASE o # e.of
      BY <1>16, <2>2
  <2> QED
      BY <2>1, <2>2
<1> QED
    BY <1>12, <1>13, <1>14, <1>15, <1>19

\* The allocations give a key to an instrument that had none.
LEMMA AllocatedTells ==
    ASSUME Ledger!CommerceAssumption, NEW d \in Stores, NEW e \in Snapshots, NEW ap \in SUBSET Snapshots,
           FactsTell(d, ap), KeysTie(d, ap), NEW gone, OwnersLive(d, gone),
           NEW r, r = Ledger!Allocated(d, e)
    PROVE  r \in Stores /\ FactsTell(r, ap) /\ KeysTie(r, ap) /\ OwnersLive(r, gone)
<1>1. PICK keys, edges :
        /\ keys = [a \in Objects |-> IF a \in e.paidBy /\ d.keyOf[a] = None THEN a ELSE d.keyOf[a]]
        /\ edges = IF e.paidBy # {} /\ d.edge[e.of].at < e.at
                   THEN [d.edge EXCEPT ![e.of] = [at |-> e.at, paidBy |-> e.paidBy]] ELSE d.edge
    OBVIOUS
<1>2. r = [d EXCEPT !.keyOf = keys, !.edge = edges]
    BY <1>1 DEF Ledger!Allocated
<1>3. keys \in [Objects -> MaybeKey]
    BY <1>1 DEF Stores, MaybeKey
<1>4. edges \in [Objects -> EdgeRows]
  <2>1. [at |-> e.at, paidBy |-> e.paidBy] \in EdgeRows
      BY SnapshotIs DEF EdgeRows
  <2>2. d.edge \in [Objects -> EdgeRows]
      BY DEF Stores
  <2> QED
      BY <1>1, <2>1, <2>2
<1>5. r \in Stores /\ r.keyOf = keys /\ r.edge = edges /\ r.fact = d.fact /\ r.link = d.link
    BY <1>2, <1>3, <1>4 DEF Stores
<1>6. None \notin Objects
    BY DEF Ledger!CommerceAssumption
<1>7. \A a \in Objects : /\ r.keyOf[a] = d.keyOf[a] \/ (d.keyOf[a] = None /\ r.keyOf[a] = a)
    BY <1>1, <1>5
<1>8. FactsTell(r, ap)
  <2>1. \A o \in Objects : d.keyOf[o] # None => r.keyOf[o] = d.keyOf[o]
      BY <1>7
  <2> QED
      BY <1>5, <2>1 DEF FactsTell
<1>9. \A x \in ap, a \in Objects :
        a \in Ledger!Aliases(x) => r.keyOf[a] = r.keyOf[x.of] /\ r.keyOf[a] # None
  <2>1. \A x \in ap : x.of \in Objects /\ x.of \in Ledger!Aliases(x)
      BY SnapshotIs
  <2> QED
      BY <1>7, <2>1 DEF KeysTie
<1>10. \A a \in Objects : r.keyOf[a] # None => r.keyOf[r.keyOf[a]] = r.keyOf[a]
  <2>1. \A a \in Objects : d.keyOf[a] # None => d.keyOf[a] \in Objects
      BY DEF Stores, MaybeKey
  <2> QED
      BY <1>6, <1>7, <2>1 DEF KeysTie
<1>11. ASSUME NEW k \in Objects, NEW T \in SUBSET Class(r, k), T # {}, T # Class(r, k)
       PROVE  Torn(T, ap)
  <2>1. CASE \E a \in Objects : d.keyOf[a] = None /\ r.keyOf[a] = k
    <3>1. d.keyOf[k] = None
        BY <1>6, <1>7, <2>1
    <3>2. \A a \in Class(r, k) : a = k
        BY <1>6, <1>7, <3>1 DEF Class, KeysTie
    <3> QED
        BY <1>11, <3>2
  <2>2. CASE ~\E a \in Objects : d.keyOf[a] = None /\ r.keyOf[a] = k
    <3>1. Class(r, k) = Class(d, k)
      <4>1. \A a \in Objects : r.keyOf[a] = k => d.keyOf[a] = k
          BY <1>7, <2>2
      <4>2. \A a \in Objects : d.keyOf[a] = k => r.keyOf[a] = k
          BY <1>6, <1>7
      <4> QED
          BY <4>1, <4>2 DEF Class
    <3> QED
        BY <1>11, <3>1 DEF KeysTie
  <2> QED
      BY <2>1, <2>2
<1>12. OwnersLive(r, gone)
    BY <1>5 DEF OwnersLive
<1> QED
    BY <1>5, <1>8, <1>9, <1>10, <1>11, <1>12 DEF KeysTie

-----------------------------------------------------------------------------
\* Owners agree with each other and with the evidence of their payment.
Proof(d, k) == UNION {d.fact[x].evidence : x \in Ledger!Group(d, k)}
Agree(d) ==
    \A o \in Objects : d.fact[o] # Ledger!NoFact =>
        LET k == d.fact[o].key IN
        /\ \A x \in Ledger!Group(d, k) : /\ d.fact[x].owner = d.fact[o].owner
                                         /\ d.fact[x].conflict = d.fact[o].conflict
        /\ d.fact[o].conflict => d.fact[o].owner = None
        /\ Cardinality(Ledger!Named(d, Proof(d, k))) > 1 => d.fact[o].conflict
        /\ Ledger!Named(d, Proof(d, k) \cap Strong) # {} /\ ~d.fact[o].conflict =>
             Ledger!Named(d, Proof(d, k) \cap Strong) = {d.fact[o].owner}

\* The profiles that may own a payment are live ones, and finitely many.
LEMMA CandidatesAre ==
    ASSUME Ledger!CommerceAssumption, NEW d \in Stores, NEW k, NEW gone \in SUBSET Profiles, OwnersLive(d, gone)
    PROVE  /\ Ledger!Candidates(d, k) \subseteq Profiles \ gone /\ IsFiniteSet(Ledger!Candidates(d, k))
           /\ Ledger!Named(d, Proof(d, k)) \subseteq Ledger!Candidates(d, k)
           /\ Ledger!Named(d, Proof(d, k) \cap Strong) \subseteq Ledger!Candidates(d, k)
           /\ Ledger!Named(d, Proof(d, k) \cap Strong) # {} => Ledger!Backed(d, k)
<1>1. Ledger!Owners(d, k) \subseteq Profiles \ gone
    BY DEF Ledger!Owners, Ledger!Group, OwnersLive, Stores, FactRows, MaybeOwner
<1>2. \A ls \in SUBSET Links : Ledger!Named(d, ls) \subseteq Profiles \ gone
    BY DEF Ledger!Named, OwnersLive, Stores, MaybeOwner
<1>3. \A o \in Ledger!Group(d, k) \cup Ledger!Billed(d, k) : d.fact[o].evidence \in SUBSET Links
    BY DEF Ledger!Group, Ledger!Billed, Stores, FactRows
<1>4. Ledger!Candidates(d, k) \subseteq Profiles \ gone
    BY <1>1, <1>2, <1>3 DEF Ledger!Candidates
<1>5. IsFiniteSet(Ledger!Candidates(d, k))
  <2>1. Ledger!Candidates(d, k) \in SUBSET Profiles /\ IsFiniteSet(Profiles)
      BY <1>4 DEF Ledger!CommerceAssumption, Ledger!IsFiniteSet, IsFiniteSet
  <2> QED
      BY <2>1, FS_Subset
<1>6. \A l \in Proof(d, k) : \E x \in Ledger!Group(d, k) : l \in d.fact[x].evidence
    BY DEF Proof
<1>7. ASSUME NEW p \in Ledger!Named(d, Proof(d, k)) PROVE p \in Ledger!Candidates(d, k)
  <2>1. PICK l \in Proof(d, k) : p = d.link[l] /\ p # None
      BY DEF Ledger!Named
  <2>2. PICK x \in Ledger!Group(d, k) : l \in d.fact[x].evidence
      BY <1>6
  <2>3. p \in Ledger!Named(d, d.fact[x].evidence)
      BY <2>1, <2>2 DEF Ledger!Named
  <2> QED
      BY <2>3 DEF Ledger!Candidates
<1>8. Ledger!Named(d, Proof(d, k) \cap Strong) \subseteq Ledger!Named(d, Proof(d, k))
    BY DEF Ledger!Named
<1>9. ASSUME NEW p \in Ledger!Named(d, Proof(d, k) \cap Strong) PROVE Ledger!Backed(d, k)
  <2>1. PICK l \in Proof(d, k) \cap Strong : p = d.link[l] /\ p # None
      BY DEF Ledger!Named
  <2>2. PICK x \in Ledger!Group(d, k) : l \in d.fact[x].evidence
      BY <1>6, <2>1
  <2>3. p \in Ledger!Named(d, d.fact[x].evidence \cap Strong)
      BY <2>1, <2>2 DEF Ledger!Named
  <2> QED
      BY <2>3 DEF Ledger!Backed
<1> QED
    BY <1>4, <1>5, <1>7, <1>8, <1>9

LEMMA ReconciledIs ==
    ASSUME NEW d \in Stores, NEW clear \in BOOLEAN, NEW r, r = Ledger!Reconciled(d, clear),
           Ledger!CommerceAssumption
    PROVE  /\ r \in Stores /\ r.keyOf = d.keyOf /\ r.edge = d.edge /\ r.link = d.link
           /\ \A o \in Objects : d.fact[o] = Ledger!NoFact => r.fact[o] = Ledger!NoFact
           /\ \A o \in Objects : d.fact[o] # Ledger!NoFact =>
                LET f == d.fact[o]
                    g == r.fact[o] IN
                /\ g.key = f.key /\ g.evidence = f.evidence
                /\ g.at = f.at /\ g.gross = f.gross /\ g.refunded = f.refunded /\ g.disputed = f.disputed
                /\ g.first = f.first /\ g.last = f.last
                /\ g.conflict = Ledger!DisputedKey(d, f.key, clear)
                /\ g.owner = IF Ledger!DisputedKey(d, f.key, clear) \/ ~Ledger!Backed(d, f.key) THEN None
                             ELSE Ledger!Sole(Ledger!Candidates(d, f.key))
<1> DEFINE disputed(k) == Ledger!DisputedKey(d, k, clear)
           owner(k) == IF Ledger!DisputedKey(d, k, clear) \/ ~Ledger!Backed(d, k) THEN None
                       ELSE Ledger!Sole(Ledger!Candidates(d, k))
           facts == [o \in Objects |-> IF d.fact[o] = Ledger!NoFact THEN Ledger!NoFact
                                       ELSE [d.fact[o] EXCEPT !.conflict = disputed(d.fact[o].key),
                                                              !.owner = owner(d.fact[o].key)]]
<1>1. r = [d EXCEPT !.fact = facts]
    BY DEF Ledger!Reconciled
<1>2. \A k : disputed(k) \in BOOLEAN
    BY DEF Ledger!DisputedKey
<1>3. \A k : owner(k) \in MaybeOwner
  <2>1. \A k : Ledger!Candidates(d, k) \subseteq MaybeOwner
    <3>1. OwnersLive(d, {})
        BY DEF OwnersLive
    <3> QED
        BY <3>1, CandidatesAre DEF MaybeOwner
  <2> QED
      BY <2>1, SoleIs DEF MaybeOwner
<1> HIDE DEF disputed, owner
<1>4. \A k : \A f \in FactRows : [f EXCEPT !.conflict = disputed(k), !.owner = owner(k)] \in FactRows
    BY <1>2, <1>3 DEF FactRows
<1>5. d.fact \in [Objects -> FactRows]
    BY DEF Stores
<1>6. facts \in [Objects -> FactRows]
  <2>1. \A o \in Objects : d.fact[o] \in FactRows
      BY <1>5
  <2> QED
      BY <1>4, <2>1
<1>7. \A o \in Objects : facts[o] = IF d.fact[o] = Ledger!NoFact THEN Ledger!NoFact
                                    ELSE [d.fact[o] EXCEPT !.conflict = disputed(d.fact[o].key),
                                                           !.owner = owner(d.fact[o].key)]
    OBVIOUS
<1> HIDE DEF facts
<1>8. r \in Stores /\ r.keyOf = d.keyOf /\ r.edge = d.edge /\ r.link = d.link /\ r.fact = facts
    BY <1>1, <1>6 DEF Stores
<1>9. ASSUME NEW o \in Objects, d.fact[o] # Ledger!NoFact
      PROVE  LET f == d.fact[o]
                 g == r.fact[o] IN
             /\ g.key = f.key /\ g.evidence = f.evidence
             /\ g.at = f.at /\ g.gross = f.gross /\ g.refunded = f.refunded /\ g.disputed = f.disputed
             /\ g.first = f.first /\ g.last = f.last
             /\ g.conflict = disputed(f.key) /\ g.owner = owner(f.key)
  <2>1. PICK f, k : f = d.fact[o] /\ k = d.fact[o].key
      OBVIOUS
  <2>2. f \in FactRows
      BY <1>5, <2>1
  <2>3. PICK c \in BOOLEAN, p \in MaybeOwner : c = disputed(k) /\ p = owner(k)
      BY <1>2, <1>3
  <2>4. PICK g : g = [f EXCEPT !.conflict = c, !.owner = p]
      OBVIOUS
  <2>5. /\ g.key = f.key /\ g.evidence = f.evidence
        /\ g.at = f.at /\ g.gross = f.gross /\ g.refunded = f.refunded /\ g.disputed = f.disputed
        /\ g.first = f.first /\ g.last = f.last /\ g.conflict = c /\ g.owner = p
      BY <2>2, <2>4 DEF FactRows
  <2>6. r.fact[o] = g
      BY <1>7, <1>8, <1>9, <2>1, <2>3, <2>4
  <2> QED
      BY <2>1, <2>3, <2>5, <2>6
<1>10. \A o \in Objects : d.fact[o] = Ledger!NoFact => r.fact[o] = Ledger!NoFact
    BY <1>7, <1>8
<1> QED
    BY <1>8, <1>9, <1>10 DEF disputed, owner

\* Reconciliation keeps what the facts say, and makes their owners agree.
LEMMA ReconciledAgrees ==
    ASSUME Ledger!CommerceAssumption, NEW d \in Stores, NEW clear \in BOOLEAN, NEW ap,
           FactsTell(d, ap), KeysTie(d, ap), NEW gone \in SUBSET Profiles, OwnersLive(d, gone),
           NEW r, r = Ledger!Reconciled(d, clear)
    PROVE  r \in Stores /\ FactsTell(r, ap) /\ KeysTie(r, ap) /\ OwnersLive(r, gone) /\ Agree(r)
<1>1. /\ r \in Stores /\ r.keyOf = d.keyOf /\ r.edge = d.edge /\ r.link = d.link
      /\ \A o \in Objects : d.fact[o] = Ledger!NoFact => r.fact[o] = Ledger!NoFact
      /\ \A o \in Objects : d.fact[o] # Ledger!NoFact =>
           LET f == d.fact[o]
               g == r.fact[o] IN
           /\ g.key = f.key /\ g.evidence = f.evidence
           /\ g.at = f.at /\ g.gross = f.gross /\ g.refunded = f.refunded /\ g.disputed = f.disputed
           /\ g.first = f.first /\ g.last = f.last
           /\ g.conflict = Ledger!DisputedKey(d, f.key, clear)
           /\ g.owner = IF Ledger!DisputedKey(d, f.key, clear) \/ ~Ledger!Backed(d, f.key) THEN None
                        ELSE Ledger!Sole(Ledger!Candidates(d, f.key))
    BY ReconciledIs
<1>2. None \notin gone /\ Ledger!NoFact.key = None /\ Ledger!NoFact.owner = None
    BY DEF Ledger!CommerceAssumption, Ledger!NoFact
<1>3. FactsTell(r, ap)
  <2>1. \A o \in Objects : d.fact[o] # Ledger!NoFact =>
          /\ r.fact[o].at = d.fact[o].at /\ r.fact[o].gross = d.fact[o].gross
          /\ r.fact[o].refunded = d.fact[o].refunded /\ r.fact[o].disputed = d.fact[o].disputed
          /\ r.fact[o].first = d.fact[o].first /\ r.fact[o].last = d.fact[o].last
          /\ r.fact[o].key = d.fact[o].key
      BY <1>1
  <2>2. \A o \in Objects : d.fact[o] = Ledger!NoFact => r.fact[o] = d.fact[o]
      BY <1>1
  <2>3. r.keyOf = d.keyOf
      BY <1>1
  <2> QED
      BY <2>1, <2>2, <2>3 DEF FactsTell, Says
<1>4. KeysTie(r, ap)
  <2>1. r.keyOf = d.keyOf /\ \A k : Class(r, k) = Class(d, k)
      BY <1>1 DEF Class
  <2> QED
      BY <2>1 DEF KeysTie
<1>5. OwnersLive(r, gone)
  <2>1. ASSUME NEW o \in Objects PROVE r.fact[o].owner \notin gone
    <3>1. CASE d.fact[o] = Ledger!NoFact
        BY <1>1, <1>2, <3>1
    <3>2. CASE d.fact[o] # Ledger!NoFact
      <4>1. r.fact[o].owner \in Ledger!Candidates(d, d.fact[o].key) \cup {None}
          BY <1>1, <3>2, SoleIs
      <4>2. \A k : Ledger!Candidates(d, k) \subseteq Profiles \ gone
          BY CandidatesAre
      <4> QED
          BY <1>2, <4>1, <4>2
    <3> QED
        BY <3>1, <3>2
  <2> QED
      BY <1>1, <2>1 DEF OwnersLive
<1>6. \A o \in Objects : d.fact[o] # Ledger!NoFact => r.fact[o] # Ledger!NoFact
    BY <1>1, <1>2 DEF FactsTell, Ledger!CommerceAssumption, Stores
<1>7. \A k : Ledger!Group(r, k) = Ledger!Group(d, k) /\ Proof(r, k) = Proof(d, k)
  <2>1. \A k : Ledger!Group(r, k) = Ledger!Group(d, k)
      BY <1>1, <1>6 DEF Ledger!Group
  <2>2. \A k : \A x \in Ledger!Group(d, k) : r.fact[x].evidence = d.fact[x].evidence
      BY <1>1 DEF Ledger!Group
  <2> QED
      BY <2>1, <2>2 DEF Proof
<1>8. \A ls : Ledger!Named(r, ls) = Ledger!Named(d, ls)
    BY <1>1 DEF Ledger!Named
<1>9. ASSUME NEW o \in Objects, r.fact[o] # Ledger!NoFact
      PROVE  LET k == r.fact[o].key IN
             /\ \A x \in Ledger!Group(r, k) : /\ r.fact[x].owner = r.fact[o].owner
                                              /\ r.fact[x].conflict = r.fact[o].conflict
             /\ r.fact[o].conflict => r.fact[o].owner = None
             /\ Cardinality(Ledger!Named(r, Proof(r, k))) > 1 => r.fact[o].conflict
             /\ Ledger!Named(r, Proof(r, k) \cap Strong) # {} /\ ~r.fact[o].conflict =>
                  Ledger!Named(r, Proof(r, k) \cap Strong) = {r.fact[o].owner}
  <2>1. PICK k : k = d.fact[o].key
      OBVIOUS
  <2>2. PICK C, N, S : /\ C = Ledger!Candidates(d, k) /\ N = Ledger!Named(d, Proof(d, k))
                       /\ S = Ledger!Named(d, Proof(d, k) \cap Strong)
      OBVIOUS
  <2>3. d.fact[o] # Ledger!NoFact /\ r.fact[o].key = k
      BY <1>1, <1>9, <2>1
  <2>4. \A x \in Ledger!Group(d, k) \cup {o} :
          /\ r.fact[x].conflict = Ledger!DisputedKey(d, k, clear)
          /\ r.fact[x].owner = IF Ledger!DisputedKey(d, k, clear) \/ ~Ledger!Backed(d, k) THEN None
                               ELSE Ledger!Sole(C)
      BY <1>1, <2>1, <2>2, <2>3 DEF Ledger!Group
  <2>5. /\ IsFiniteSet(C) /\ N \subseteq C /\ S \subseteq C
        /\ S # {} => Ledger!Backed(d, k)
      BY <2>2, CandidatesAre
  <2>6. Cardinality(C) \in Nat /\ Cardinality(N) <= Cardinality(C) /\ Cardinality(N) \in Nat
      BY <2>5, FS_Subset, FS_CardinalityType
  <2>7. ~Ledger!DisputedKey(d, k, clear) => Cardinality(C) <= 1
      BY <2>2, <2>6, SameCardinality DEF Ledger!DisputedKey
  <2>8. Cardinality(N) > 1 => Ledger!DisputedKey(d, k, clear)
      BY <2>6, <2>7
  <2>9. S # {} /\ ~Ledger!DisputedKey(d, k, clear) => S = {Ledger!Sole(C)}
    <3> SUFFICES ASSUME S # {}, ~Ledger!DisputedKey(d, k, clear) PROVE S = {Ledger!Sole(C)}
        OBVIOUS
    <3>1. Cardinality(C) # 0
        BY <2>5, FS_EmptySet
    <3>2. Cardinality(C) = 1
        BY <2>6, <2>7, <3>1
    <3>3. PICK p : C = {p}
        BY <2>5, <3>2, FS_Singleton
    <3> QED
        BY <2>5, <3>3, SoleIs
  <2>10. \A x \in Ledger!Group(d, k) : /\ r.fact[x].owner = r.fact[o].owner
                                       /\ r.fact[x].conflict = r.fact[o].conflict
      BY <2>4
  <2>11. /\ r.fact[o].conflict => r.fact[o].owner = None
         /\ Cardinality(N) > 1 => r.fact[o].conflict
         /\ S # {} /\ ~r.fact[o].conflict => S = {r.fact[o].owner}
      BY <2>4, <2>5, <2>8, <2>9
  <2>12. /\ Ledger!Group(r, k) = Ledger!Group(d, k) /\ Ledger!Named(r, Proof(r, k)) = N
         /\ Ledger!Named(r, Proof(r, k) \cap Strong) = S
      BY <1>7, <1>8, <2>2
  <2> QED
      BY <2>3, <2>10, <2>11, <2>12
<1>10. Agree(r)
    BY <1>9 DEF Agree
<1> QED
    BY <1>1, <1>3, <1>4, <1>5, <1>10

-----------------------------------------------------------------------------
\* The invariant of the tables.
Sound(d, ap, gone) ==
    d \in Stores /\ FactsTell(d, ap) /\ KeysTie(d, ap) /\ OwnersLive(d, gone)
MoneyInv ==
    /\ applied \subseteq Snapshots /\ merged \subseteq Profiles
    /\ Sound(Ledger!Tables, applied, merged) /\ Agree(Ledger!Tables)

LEMMA TablesWritten ==
    ASSUME NEW d \in Stores, Ledger!Written(d) PROVE Ledger!Tables' = d
    BY DEF Ledger!Written, Ledger!Tables, Stores

LEMMA MoneyInit == ASSUME Ledger!CommerceAssumption, Ledger!Init PROVE MoneyInv
<1>1. Ledger!NoFact \in FactRows /\ Ledger!NoEdge \in EdgeRows
    BY DEF Ledger!NoFact, Ledger!NoEdge, FactRows, EdgeRows, MaybeKey, MaybeOwner
<1>2. Ledger!Tables = [fact |-> [o \in Objects |-> Ledger!NoFact], keyOf |-> [o \in Objects |-> None],
                       edge |-> [o \in Objects |-> Ledger!NoEdge], link |-> [l \in Links |-> None]]
    BY DEF Ledger!Init, Ledger!Tables
<1>3. Ledger!Tables \in Stores
    BY <1>1, <1>2 DEF Stores, MaybeKey, MaybeOwner
<1>4. applied = {} /\ merged = {}
    BY DEF Ledger!Init
<1>5. FactsTell(Ledger!Tables, applied)
    BY <1>2, <1>4 DEF FactsTell, Dates, Ledger!NoFact
<1>6. KeysTie(Ledger!Tables, applied)
    BY <1>2, <1>4 DEF KeysTie, Class, Ledger!CommerceAssumption
<1>7. OwnersLive(Ledger!Tables, merged) /\ Agree(Ledger!Tables)
    BY <1>2, <1>4 DEF OwnersLive, Agree
<1> QED
    BY <1>3, <1>4, <1>5, <1>6, <1>7 DEF MoneyInv, Sound

\* The invariant is a matter of the tables alone.
LEMMA SoundNow ==
    ASSUME NEW r, NEW ap \in SUBSET Snapshots, NEW gone \in SUBSET Profiles, Sound(r, ap, gone), Agree(r),
           Ledger!Tables' = r, applied' = ap, merged' = gone
    PROVE  MoneyInv'
<1>1. (Ledger!Tables \in Stores)'
    BY DEF Sound
<1>2. FactsTell(Ledger!Tables, applied)'
    BY DEF Sound, FactsTell, Says, Dates
<1>3. KeysTie(Ledger!Tables, applied)'
    BY DEF Sound, KeysTie, Class, Torn
<1>4. OwnersLive(Ledger!Tables, merged)'
    BY DEF Sound, OwnersLive
<1>5. \A k : (Ledger!Group(Ledger!Tables, k))' = Ledger!Group(r, k)
    BY DEF Ledger!Group
<1>6. \A k : (Proof(Ledger!Tables, k))' = Proof(r, k)
    BY <1>5 DEF Proof
<1>7. \A ls : (Ledger!Named(Ledger!Tables, ls))' = Ledger!Named(r, ls)
    BY DEF Ledger!Named
<1>8. Agree(Ledger!Tables)'
    BY <1>5, <1>6, <1>7, ZenonT(30) DEF Agree
<1> QED
    BY <1>1, <1>2, <1>3, <1>4, <1>8 DEF MoneyInv, Sound

\* What a transaction writes after its reconciliation.
LEMMA WriteSound ==
    ASSUME Ledger!CommerceAssumption, NEW d, NEW clear \in BOOLEAN, NEW ap \in SUBSET Snapshots,
           NEW gone \in SUBSET Profiles, Sound(d, ap, gone), Ledger!Written(Ledger!Reconciled(d, clear)),
           applied' = ap, merged' = gone
    PROVE  MoneyInv'
<1>1. PICK r : r = Ledger!Reconciled(d, clear)
    OBVIOUS
<1>2. Sound(r, ap, gone) /\ Agree(r)
    BY <1>1, ReconciledAgrees DEF Sound
<1>3. Ledger!Tables' = r
    BY <1>1, <1>2, TablesWritten DEF Sound
<1> QED
    BY <1>2, <1>3, SoundNow DEF Sound

LEMMA ApplySound ==
    ASSUME Ledger!CommerceAssumption, MoneyInv, NEW e \in Snapshots, Ledger!Apply(e) PROVE MoneyInv'
<1>1. PICK d1, d2, d3 : /\ d1 = Ledger!Rekeyed(Ledger!Tables, e) /\ d2 = Ledger!Upserted(d1, e)
                        /\ d3 = Ledger!Allocated(d2, e)
    OBVIOUS
<1>2. PICK ap, gone : ap = applied \cup {e} /\ gone = merged
    OBVIOUS
<1>3. ap \in SUBSET Snapshots /\ gone \in SUBSET Profiles /\ applied \in SUBSET Snapshots
    BY <1>2 DEF MoneyInv
<1>4. /\ d1 \in Stores /\ FactsTell(d1, applied) /\ KeysTie(d1, applied \cup {e}) /\ OwnersLive(d1, gone)
    BY <1>1, <1>2, <1>3, RekeyedTells DEF MoneyInv, Sound
<1>5. Sound(d2, ap, gone)
    BY <1>1, <1>2, <1>3, <1>4, UpsertedTells DEF Sound
<1>6. Sound(d3, ap, gone)
    BY <1>1, <1>3, <1>5, AllocatedTells DEF Sound
<1>7. Ledger!Written(Ledger!Reconciled(d3, FALSE)) /\ applied' = ap /\ merged' = gone
    BY <1>1, <1>2 DEF Ledger!Apply
<1> QED
    BY <1>3, <1>6, <1>7, WriteSound

\* A link to a live profile, and the links of a merged one.
LEMMA LinksSound ==
    ASSUME NEW d, NEW ap, NEW gone, Sound(d, ap, gone), NEW links \in [Links -> MaybeOwner],
           \A l \in Links : links[l] \notin gone, NEW r, r = [d EXCEPT !.link = links]
    PROVE  Sound(r, ap, gone)
<1>1. r \in Stores /\ r.fact = d.fact /\ r.keyOf = d.keyOf /\ r.link = links
    BY DEF Sound, Stores
<1>2. \A k : Class(r, k) = Class(d, k)
    BY <1>1 DEF Class
<1>3. FactsTell(r, ap) /\ KeysTie(r, ap) /\ OwnersLive(r, gone)
    BY <1>1, <1>2 DEF Sound, FactsTell, KeysTie, OwnersLive
<1> QED
    BY <1>1, <1>3 DEF Sound

LEMMA AttachSound ==
    ASSUME Ledger!CommerceAssumption, MoneyInv, NEW l \in Links, NEW p \in Profiles, Ledger!Attach(l, p)
    PROVE  MoneyInv'
<1>1. PICK d, links, ap, gone : /\ d = Ledger!Tables /\ links = [link EXCEPT ![l] = p]
                                /\ ap = applied /\ gone = merged
    OBVIOUS
<1>2. PICK r : r = [d EXCEPT !.link = links]
    OBVIOUS
<1>3. d.link = link /\ [d EXCEPT !.link[l] = p] = r
    BY <1>1, <1>2 DEF Ledger!Tables
<1>4. Sound(d, ap, gone) /\ ap \in SUBSET Snapshots /\ gone \in SUBSET Profiles
    BY <1>1 DEF MoneyInv
<1>5. p \notin gone /\ Ledger!Written(Ledger!Reconciled(r, FALSE)) /\ applied' = ap /\ merged' = gone
    BY <1>1, <1>3 DEF Ledger!Attach
<1>6. link \in [Links -> MaybeOwner] /\ \A m \in Links : link[m] \notin gone
    BY <1>3, <1>4 DEF Sound, Stores, OwnersLive
<1>7. links \in [Links -> MaybeOwner] /\ \A m \in Links : links[m] \notin gone
    BY <1>1, <1>5, <1>6 DEF MaybeOwner
<1>8. Sound(r, ap, gone)
    BY <1>2, <1>4, <1>7, LinksSound
<1> QED
    BY <1>4, <1>5, <1>8, WriteSound

\* The facts of the merged profile become those of the other.
LEMMA MovedSound ==
    ASSUME Ledger!CommerceAssumption, NEW d, NEW ap, NEW gone, Sound(d, ap, gone), NEW p \in Profiles,
           NEW q \in Profiles, p \notin gone, p # q, \A l \in Links : d.link[l] # q, NEW r, r = Ledger!Moved(d, p, q)
    PROVE  Sound(r, ap, gone \cup {q})
<1>1. PICK facts : facts = [o \in Objects |-> IF d.fact[o].owner = q THEN [d.fact[o] EXCEPT !.owner = p]
                                              ELSE d.fact[o]]
    OBVIOUS
<1>2. r = [d EXCEPT !.fact = facts]
    BY <1>1 DEF Ledger!Moved
<1>3. d.fact \in [Objects -> FactRows]
    BY DEF Sound, Stores
<1>4. \A f \in FactRows : LET g == [f EXCEPT !.owner = p] IN
        /\ g \in FactRows /\ g.key = f.key /\ g.owner = p
        /\ g.at = f.at /\ g.gross = f.gross /\ g.refunded = f.refunded /\ g.disputed = f.disputed
        /\ g.first = f.first /\ g.last = f.last
    BY DEF FactRows, MaybeOwner
<1>5. facts \in [Objects -> FactRows]
    BY <1>1, <1>3, <1>4
<1>6. r \in Stores /\ r.fact = facts /\ r.keyOf = d.keyOf /\ r.link = d.link
    BY <1>2, <1>5 DEF Sound, Stores
<1>7. \A o \in Objects :
        /\ facts[o].key = d.fact[o].key /\ facts[o].owner = (IF d.fact[o].owner = q THEN p ELSE d.fact[o].owner)
        /\ facts[o].at = d.fact[o].at /\ facts[o].gross = d.fact[o].gross
        /\ facts[o].refunded = d.fact[o].refunded /\ facts[o].disputed = d.fact[o].disputed
        /\ facts[o].first = d.fact[o].first /\ facts[o].last = d.fact[o].last
    BY <1>1, <1>3, <1>4
<1>8. \A o \in Objects : d.fact[o] = Ledger!NoFact => facts[o] = Ledger!NoFact
  <2>1. Ledger!NoFact.owner = None /\ None # q
      BY DEF Ledger!NoFact, Ledger!CommerceAssumption
  <2> QED
      BY <1>1, <2>1
<1>9. FactsTell(r, ap)
    BY <1>6, <1>7, <1>8 DEF Sound, FactsTell, Says
<1>10. KeysTie(r, ap)
  <2>1. r.keyOf = d.keyOf /\ \A k : Class(r, k) = Class(d, k)
      BY <1>6 DEF Class
  <2> QED
      BY <2>1 DEF KeysTie, Sound
<1>11. OwnersLive(r, gone \cup {q})
    BY <1>6, <1>7 DEF Sound, OwnersLive
<1> QED
    BY <1>6, <1>9, <1>10, <1>11 DEF Sound

LEMMA MergeSound ==
    ASSUME Ledger!CommerceAssumption, MoneyInv, NEW p \in Profiles, NEW q \in Profiles, Ledger!Merge(p, q)
    PROVE  MoneyInv'
<1>1. PICK d, links, ap, gone : /\ d = Ledger!Tables /\ ap = applied /\ gone = merged
                                /\ links = [l \in Links |-> IF link[l] = q THEN p ELSE link[l]]
    OBVIOUS
<1>2. Sound(d, ap, gone) /\ ap \in SUBSET Snapshots /\ gone \in SUBSET Profiles /\ gone \cup {q} \in SUBSET Profiles
    BY <1>1 DEF MoneyInv
<1>3. p # q /\ p \notin gone
    BY <1>1 DEF Ledger!Merge, Ledger!CommerceAssumption
<1>4. PICK d1, d2 : /\ d1 = Ledger!Relinked(p, q)
                    /\ d2 = IF \E l \in Links : link[l] = q THEN Ledger!Reconciled(d1, FALSE) ELSE d
    OBVIOUS
<1>5. d1 = [d EXCEPT !.link = links] /\ d.link = link
    BY <1>1, <1>4 DEF Ledger!Relinked, Ledger!Tables
<1>6. link \in [Links -> MaybeOwner] /\ \A l \in Links : link[l] \notin gone
    BY <1>2, <1>5 DEF Sound, Stores, OwnersLive
<1>7. links \in [Links -> MaybeOwner] /\ \A l \in Links : links[l] \notin gone /\ links[l] # q
    BY <1>1, <1>3, <1>6 DEF MaybeOwner
<1>8. Sound(d1, ap, gone) /\ d1.link = links
  <2>1. d1.link = links
      BY <1>2, <1>5, <1>7 DEF Sound, Stores
  <2> QED
      BY <1>2, <1>5, <1>7, <2>1, LinksSound
<1>9. Sound(d2, ap, gone) /\ \A l \in Links : d2.link[l] # q
  <2>1. CASE \E l \in Links : link[l] = q
    <3>1. d2 = Ledger!Reconciled(d1, FALSE)
        BY <1>4, <2>1
    <3>2. Sound(d2, ap, gone)
        BY <1>2, <1>8, <3>1, ReconciledAgrees DEF Sound
    <3>3. d2.link = d1.link
        BY <1>8, <3>1, ReconciledIs DEF Sound
    <3> QED
        BY <1>7, <1>8, <3>2, <3>3
  <2>2. CASE ~\E l \in Links : link[l] = q
      BY <1>2, <1>4, <1>5, <2>2
  <2> QED
      BY <2>1, <2>2
<1>10. PICK d3 : d3 = Ledger!Moved(d2, p, q)
    OBVIOUS
<1>11. Sound(d3, ap, gone \cup {q})
    BY <1>3, <1>9, <1>10, MovedSound
<1>12. Ledger!Written(Ledger!Reconciled(d3, TRUE)) /\ applied' = ap /\ merged' = gone \cup {q}
    BY <1>1, <1>4, <1>10 DEF Ledger!Merge
<1> QED
    BY <1>2, <1>11, <1>12, WriteSound

LEMMA MoneyNext == ASSUME Ledger!CommerceAssumption PROVE MoneyInv /\ [Ledger!Next]_(Ledger!vars) => MoneyInv'
<1> SUFFICES ASSUME MoneyInv, [Ledger!Next]_(Ledger!vars) PROVE MoneyInv'
    OBVIOUS
<1>1. CASE \E e \in Snapshots : Ledger!Apply(e)
    BY <1>1, ApplySound
<1>2. CASE \E l \in Links, p \in Profiles : Ledger!Attach(l, p)
    BY <1>2, AttachSound
<1>3. CASE \E p, q \in Profiles : Ledger!Merge(p, q)
    BY <1>3, MergeSound
<1>4. CASE UNCHANGED Ledger!vars
  <2>1. PICK r, ap, gone : r = Ledger!Tables /\ ap = applied /\ gone = merged
      OBVIOUS
  <2>2. Ledger!Tables' = r /\ applied' = ap /\ merged' = gone
      BY <1>4, <2>1 DEF Ledger!vars, Ledger!Tables
  <2>3. ap \in SUBSET Snapshots /\ gone \in SUBSET Profiles /\ Sound(r, ap, gone) /\ Agree(r)
      BY <2>1 DEF MoneyInv
  <2> QED
      BY <2>2, <2>3, SoundNow
<1> QED
    BY <1>1, <1>2, <1>3, <1>4 DEF Ledger!Next

-----------------------------------------------------------------------------
\* What the invariant says of the ledger's own properties.
LEMMA MoneyKeys == ASSUME Ledger!CommerceAssumption, MoneyInv PROVE Ledger!KeysAreComponents
<1> DEFINE Shut(S) == \A e \in applied : Ledger!Aliases(e) \cap S = {} \/ Ledger!Aliases(e) \subseteq S
<1>1. KeysTie(Ledger!Tables, applied) /\ applied \subseteq Snapshots
    BY DEF MoneyInv, Sound
<1>2. ASSUME NEW k \in Objects PROVE Shut({a \in Objects : keyOf[a] = k})
  <2>1. SUFFICES ASSUME NEW e \in applied, NEW a \in Ledger!Aliases(e), a \in Objects, keyOf[a] = k,
                        NEW b \in Ledger!Aliases(e)
                 PROVE  b \in Objects /\ keyOf[b] = k
      OBVIOUS
  <2>2. b \in Objects
      BY <1>1, SnapshotIs
  <2>3. Ledger!Tables.keyOf[a] = Ledger!Tables.keyOf[e.of] /\ Ledger!Tables.keyOf[b] = Ledger!Tables.keyOf[e.of]
      BY <1>1, <2>1, <2>2 DEF KeysTie
  <2> QED
      BY <2>1, <2>2, <2>3 DEF Ledger!Tables
<1>3. ASSUME NEW k \in Objects, NEW T \in SUBSET {a \in Objects : keyOf[a] = k}, T # {},
             T # {a \in Objects : keyOf[a] = k}
      PROVE  ~Shut(T)
  <2>1. Class(Ledger!Tables, k) = {a \in Objects : keyOf[a] = k}
      BY DEF Class, Ledger!Tables
  <2>2. Torn(T, applied)
      BY <1>1, <1>3, <2>1 DEF KeysTie
  <2> QED
      BY <2>2 DEF Torn
<1> HIDE DEF Shut
<1> DEFINE S(k) == {a \in Objects : keyOf[a] = k}
<1>4. ASSUME NEW k \in Objects PROVE Shut(S(k)) /\ \A T \in (SUBSET S(k)) \ {{}, S(k)} : ~Shut(T)
  <2>1. Shut(S(k))
      BY <1>2
  <2>2. PICK U : U = S(k)
      OBVIOUS
  <2>3. ASSUME NEW T \in SUBSET U, T # {}, T # U PROVE ~Shut(T)
      BY <1>3, <2>2, <2>3
  <2> HIDE DEF S
  <2>4. Shut(U) /\ \A T \in (SUBSET U) \ {{}, U} : ~Shut(T)
      BY <2>1, <2>2, <2>3
  <2> QED
      BY <2>2, <2>4
<1> QED
    BY <1>4 DEF Ledger!KeysAreComponents, Shut

LEMMA MoneyFacts == ASSUME Ledger!CommerceAssumption, MoneyInv PROVE Ledger!FactsAreNewest
<1>1. FactsTell(Ledger!Tables, applied) /\ applied \subseteq Snapshots
    BY DEF MoneyInv, Sound
<1>2. Ledger!Tables.fact = fact /\ Ledger!Tables.keyOf = keyOf
    BY DEF Ledger!Tables
<1>3. \A e, f \in applied : e.at = f.at => e = f
    BY <1>1 DEF Ledger!CommerceAssumption
<1>4. \A e \in applied : e.at \in Nat /\ e.at > 0
    BY <1>1, SnapshotIs
<1> DEFINE Of(o) == {e \in applied : e.of = o}
           Top(o) == CHOOSE x \in Of(o) : \A y \in Of(o) : y.at <= x.at
           Right(o) == /\ Of(o) = {} <=> fact[o] = Ledger!NoFact
                       /\ Of(o) # {} =>
                            /\ fact[o].at = Top(o).at /\ fact[o].gross = Ledger!Gross(Top(o))
                            /\ fact[o].refunded = Ledger!Refunded(Top(o))
                            /\ fact[o].disputed = Ledger!Disputed(Top(o))
                            /\ fact[o].key = keyOf[o]
                       /\ {fact[o].first, fact[o].last} \subseteq {0} \cup {Ledger!PaidAt(e) : e \in Of(o)}
                       /\ fact[o].first <= fact[o].last
<1> SUFFICES \A o \in Objects : Right(o)
    BY Zenon DEF Ledger!FactsAreNewest
<1> SUFFICES ASSUME NEW o \in Objects PROVE Right(o)
    OBVIOUS
<1> DEFINE told == Of(o)
<1>5. told = {} => fact[o] = Ledger!NoFact
    BY <1>1, <1>2 DEF FactsTell
<1>6. ASSUME told # {}
      PROVE  LET e == CHOOSE x \in told : \A y \in told : y.at <= x.at
             IN  /\ fact[o] # Ledger!NoFact
                 /\ fact[o].at = e.at /\ fact[o].gross = Ledger!Gross(e)
                 /\ fact[o].refunded = Ledger!Refunded(e)
                 /\ fact[o].disputed = Ledger!Disputed(e)
                 /\ fact[o].key = keyOf[o]
  <2>1. PICK e \in applied : e.of = o /\ Says(fact[o], e) /\ \A y \in applied : y.of = o => y.at <= e.at
      BY <1>1, <1>2, <1>6 DEF FactsTell
  <2>2. e \in told /\ \A y \in told : y.at <= e.at
      BY <2>1
  <2>3. PICK f : f = CHOOSE x \in told : \A y \in told : y.at <= x.at
      OBVIOUS
  <2>4. f \in told /\ \A y \in told : y.at <= f.at
      BY <2>2, <2>3
  <2>5. e.at <= f.at /\ f.at <= e.at
      BY <2>2, <2>4
  <2>6. f = e
      BY <1>3, <1>4, <2>2, <2>4, <2>5
  <2>7. fact[o].at = e.at /\ e.at > 0
      BY <1>4, <2>1 DEF Says
  <2>8. fact[o] # Ledger!NoFact
      BY <2>7 DEF Ledger!NoFact
  <2>9. fact[o].key = keyOf[o]
      BY <1>1, <1>2, <2>8 DEF FactsTell
  <2> QED
      BY <2>1, <2>3, <2>6, <2>8, <2>9 DEF Says
<1>7. /\ fact[o].first \in {0} \cup {Ledger!PaidAt(e) : e \in told}
      /\ fact[o].last \in {0} \cup {Ledger!PaidAt(e) : e \in told}
      /\ fact[o].first <= fact[o].last
    BY <1>1, <1>2 DEF FactsTell, Dates
<1> QED
    BY <1>5, <1>6, <1>7

LEMMA MoneyOwners == ASSUME Ledger!CommerceAssumption, MoneyInv PROVE Ledger!OwnedByEvidence
<1>1. Agree(Ledger!Tables) /\ OwnersLive(Ledger!Tables, merged)
    BY DEF MoneyInv, Sound
<1>2. Ledger!Tables.fact = fact /\ Ledger!Tables.link = link
    BY DEF Ledger!Tables
<1> DEFINE Fellows(o) == {x \in Objects : fact[x] # Ledger!NoFact /\ fact[x].key = fact[o].key}
           Names(o) == {link[l] : l \in UNION {fact[x].evidence : x \in Fellows(o)}} \ {None}
           Strongly(o) == {link[l] : l \in (UNION {fact[x].evidence : x \in Fellows(o)}) \cap Strong} \ {None}
           Right(o) ==
             /\ \A x \in Fellows(o) : fact[x].owner = fact[o].owner /\ fact[x].conflict = fact[o].conflict
             /\ fact[o].owner \notin merged
             /\ fact[o].conflict => fact[o].owner = None
             /\ Ledger!Cardinality(Names(o)) > 1 => fact[o].conflict
             /\ Strongly(o) # {} /\ ~fact[o].conflict => Strongly(o) = {fact[o].owner}
<1> SUFFICES \A o \in {x \in Objects : fact[x] # Ledger!NoFact} : Right(o)
    BY Zenon DEF Ledger!OwnedByEvidence
<1> SUFFICES ASSUME NEW o \in Objects, fact[o] # Ledger!NoFact PROVE Right(o)
    OBVIOUS
<1> DEFINE group == Fellows(o)
           named == Names(o)
           strong == Strongly(o)
<1>3. group = Ledger!Group(Ledger!Tables, fact[o].key)
    BY <1>2 DEF Ledger!Group
<1>4. Proof(Ledger!Tables, fact[o].key) = UNION {fact[x].evidence : x \in group}
    BY <1>2, <1>3 DEF Proof
<1>5. /\ named = Ledger!Named(Ledger!Tables, Proof(Ledger!Tables, fact[o].key))
      /\ strong = Ledger!Named(Ledger!Tables, Proof(Ledger!Tables, fact[o].key) \cap Strong)
  <2>1. \A ls : Ledger!Named(Ledger!Tables, ls) = {link[l] : l \in ls} \ {None}
      BY <1>2 DEF Ledger!Named
  <2>2. PICK u : u = Proof(Ledger!Tables, fact[o].key)
      OBVIOUS
  <2>3. named = {link[l] : l \in u} \ {None} /\ strong = {link[l] : l \in u \cap Strong} \ {None}
      BY <1>4, <2>2
  <2> HIDE DEF named, strong
  <2> QED
      BY <2>1, <2>2, <2>3
<1>6. /\ \A x \in group : fact[x].owner = fact[o].owner /\ fact[x].conflict = fact[o].conflict
      /\ fact[o].conflict => fact[o].owner = None
      /\ Cardinality(named) > 1 => fact[o].conflict
      /\ strong # {} /\ ~fact[o].conflict => strong = {fact[o].owner}
    BY <1>1, <1>2, <1>3, <1>5 DEF Agree
<1>7. fact[o].owner \notin merged
    BY <1>1, <1>2 DEF OwnersLive
<1> QED
    BY <1>6, <1>7, SameCardinality

LEMMA MoneyInvariance == ASSUME Ledger!CommerceAssumption PROVE Ledger!Spec => []MoneyInv
<1>1. Ledger!Init => MoneyInv
    BY MoneyInit
<1>2. MoneyInv /\ [Ledger!Next]_(Ledger!vars) => MoneyInv'
    BY MoneyNext
<1> QED
    BY <1>1, <1>2, PTL DEF Ledger!Spec

-----------------------------------------------------------------------------
\* In whatever order, and however often, the queue presents Stripe's events:
\* two objects share a payment key exactly when a chain of presented events
\* ties them (the alias upserts of sidestream_customer_commerce_apply).
THEOREM KeysComponents == ASSUME Ledger!CommerceAssumption PROVE Ledger!Spec => []Ledger!KeysAreComponents
<1>1. MoneyInv => Ledger!KeysAreComponents
    BY MoneyKeys
<1> QED
    BY <1>1, MoneyInvariance, PTL

\* A fact tells what the newest presented snapshot of its object says, under
\* the key of its alias (the watermark of the facts' upsert).
THEOREM FactsNewest == ASSUME Ledger!CommerceAssumption PROVE Ledger!Spec => []Ledger!FactsAreNewest
<1>1. MoneyInv => Ledger!FactsAreNewest
    BY MoneyFacts
<1> QED
    BY <1>1, MoneyInvariance, PTL

\* A payment has one owner, never a merged profile, none while live profiles
\* compete for it, and else the one that its strong evidence names
\* (sidestream_customer_commerce_reconcile_namespace, through merges).
THEOREM OwnersByEvidence == ASSUME Ledger!CommerceAssumption PROVE Ledger!Spec => []Ledger!OwnedByEvidence
<1>1. MoneyInv => Ledger!OwnedByEvidence
    BY MoneyOwners
<1> QED
    BY <1>1, MoneyInvariance, PTL

-----------------------------------------------------------------------------
(***************************************************************************)
(* Download leads: DownloadLeads, for any number of calls, retries, replays *)
(* and outages.  A row only grows, a Blob that goes has left its row        *)
(* behind, and a path is carried over once: what a lead's Blobs still wait  *)
(* to add is what its row may yet grow by.                                  *)
(***************************************************************************)
CONSTANTS Leads, Keys, NoKey, Legacy, Migrated, Routes, Requests, Replays, EmailLimit, MaxWrites, Outages,
          Ambiguous, MaxTime
VARIABLES now, db, outages, leadRow, keys, receipts, blob, etag, used, request, replay, leadMailed, answered, stored

Lead == INSTANCE DownloadLeads WITH row <- leadRow, mailed <- leadMailed

Cells == [count : Nat, first : Nat, last : Nat, key : Keys \cup {NoKey}]
Calls == [pc : {"idle", "limit", "capture", "read", "put", "mail", "done"}, lead : Leads \cup {Lead!None},
          key : Keys \cup {NoKey}, at : Nat, route : Routes \cup {Lead!None}, read : Cells, tag : Nat, tries : Nat]
Passes == [pc : {"idle", "read", "commit", "delete"}, path : Lead!Paths \cup {Lead!None}, tag : Nat, read : Cells,
           delete : BOOLEAN]

LeadTypes ==
    /\ now \in Nat /\ leadRow \in [Leads -> Cells] /\ blob \in [Lead!Paths -> Cells]
    /\ etag \in [Lead!Paths -> Nat] /\ stored \in [Leads -> Nat]
    /\ keys \in [Keys -> Leads \cup {Lead!None}] /\ receipts \subseteq Lead!Paths
    /\ request \in [Requests -> Calls] /\ replay \in [Replays -> Passes]
    /\ answered \subseteq [lead : Leads, at : Nat]

\* The lead is in the database or in its Blob.
Kept(l) == leadRow[l].count > 0 \/ blob[<<l, "v2">>].count > 0
\* What a call holds of the Blob is the Blob, as long as it has that version.
CallOK(r) ==
    /\ request[r].pc \notin {"idle", "done"} => request[r].lead \in Leads
    /\ request[r].pc = "put" =>
         /\ request[r].tag <= etag[<<request[r].lead, "v2">>]
         /\ request[r].tag = etag[<<request[r].lead, "v2">>] => request[r].read = blob[<<request[r].lead, "v2">>]
    /\ request[r].pc = "mail" => Kept(request[r].lead)
\* What a replay read is the Blob, or is less, as long as nobody carried it over.
PassOK(p) ==
    /\ replay[p].pc # "idle" => replay[p].path \in Lead!Paths /\ replay[p].tag <= etag[replay[p].path]
    /\ replay[p].pc \in {"commit", "delete"} =>
         /\ replay[p].read.count > 0
         /\ replay[p].tag = etag[replay[p].path] => replay[p].read = blob[replay[p].path]
    /\ replay[p].pc = "commit" /\ ~Lead!CarriedOver(replay[p].path) =>
         replay[p].read.count <= blob[replay[p].path].count
    /\ replay[p].pc = "delete" => Lead!CarriedOver(replay[p].path)

\* What is carried over is in the database.
CarriedOK ==
    /\ \A path \in Lead!Paths : Lead!CarriedOver(path) => leadRow[path[1]].count > 0
    /\ \A k \in Keys : keys[k] # Lead!None => leadRow[keys[k]].count > 0
\* What a Blob still waits to add to its row.
ToCome(path) == IF path \in Lead!Paths /\ ~Lead!CarriedOver(path) THEN blob[path].count ELSE 0
CountsOK == \A l \in Leads : leadRow[l].count + ToCome(<<l, "v2">>) + ToCome(<<l, "legacy">>) <= stored[l]

LeadInv ==
    /\ LeadTypes /\ CarriedOK /\ CountsOK
    /\ \A r \in Requests : CallOK(r)
    /\ \A p \in Replays : PassOK(p)
    /\ \A a \in answered : Kept(a.lead)

\* What no step undoes.
LeadsMove ==
    /\ \A l \in Leads : leadRow'[l].count >= leadRow[l].count
    /\ receipts \subseteq receipts'
    /\ \A path \in Lead!Paths :
         /\ etag'[path] >= etag[path] /\ (etag'[path] = etag[path] => blob'[path] = blob[path])
         /\ blob'[path].count >= blob[path].count \/ (Lead!CarriedOver(path) /\ leadRow[path[1]].count > 0)
GoneWasRead ==
    \A path \in Lead!Paths :
        blob[path].count > 0 /\ blob'[path].count = 0
            => \E p \in Replays : replay[p].pc = "delete" /\ replay[p].path = path /\ replay[p].read = blob[path]

LEMMA PathsAre ==
    ASSUME Lead!LeadsAssumption
    PROVE  /\ \A l \in Leads : <<l, "v2">> \in Lead!Paths
           /\ \A path \in Lead!Paths : /\ path[1] \in Leads /\ path[2] \in {"v2", "legacy"}
                                       /\ path = <<path[1], path[2]>>
    BY DEF Lead!Paths, Lead!LeadsAssumption

LEMMA LeadsStay ==
    ASSUME Lead!LeadsAssumption, LeadInv, LeadTypes', LeadsMove
    PROVE  /\ \A l \in Leads : Kept(l) => Kept(l)'
           /\ \A r \in Requests : request'[r] = request[r] => CallOK(r)'
           /\ \A p \in Replays : replay'[p] = replay[p] => PassOK(p)'
<1>1. ASSUME NEW l \in Leads, Kept(l) PROVE Kept(l)'
  <2>1. <<l, "v2">> \in Lead!Paths /\ <<l, "v2">>[1] = l
      BY PathsAre
  <2>2. /\ leadRow[l].count \in Nat /\ leadRow'[l].count \in Nat
        /\ blob[<<l, "v2">>].count \in Nat /\ blob'[<<l, "v2">>].count \in Nat
      BY <2>1 DEF LeadInv, LeadTypes, Cells
  <2>3. leadRow'[l].count >= leadRow[l].count
      BY DEF LeadsMove
  <2>4. blob'[<<l, "v2">>].count >= blob[<<l, "v2">>].count \/ leadRow[l].count > 0
      BY <2>1 DEF LeadsMove
  <2> QED
      BY <1>1, <2>2, <2>3, <2>4 DEF Kept
<1>2. ASSUME NEW r \in Requests, request'[r] = request[r] PROVE CallOK(r)'
  <2>1. PICK l : l = request[r].lead
      OBVIOUS
  <2>2. CASE l \in Leads
    <3>1. <<l, "v2">> \in Lead!Paths
        BY <2>2, PathsAre
    <3>2. /\ etag[<<l, "v2">>] \in Nat /\ etag'[<<l, "v2">>] \in Nat /\ request[r].tag \in Nat
        BY <3>1 DEF LeadInv, LeadTypes, Calls
    <3>3. /\ etag'[<<l, "v2">>] >= etag[<<l, "v2">>]
          /\ etag'[<<l, "v2">>] = etag[<<l, "v2">>] => blob'[<<l, "v2">>] = blob[<<l, "v2">>]
        BY <3>1 DEF LeadsMove
    <3>4. CallOK(r)
        BY DEF LeadInv
    <3> QED
        BY <1>1, <1>2, <2>1, <2>2, <3>2, <3>3, <3>4 DEF CallOK
  <2>3. CASE l \notin Leads
      BY <1>2, <2>1, <2>3 DEF LeadInv, CallOK
  <2> QED
      BY <2>2, <2>3
<1>3. ASSUME NEW p \in Replays, replay'[p] = replay[p] PROVE PassOK(p)'
  <2>1. PICK path : path = replay[p].path
      OBVIOUS
  <2>2. CASE path \in Lead!Paths
    <3>1. /\ etag[path] \in Nat /\ etag'[path] \in Nat /\ replay[p].tag \in Nat /\ replay[p].read.count \in Nat
          /\ blob[path].count \in Nat /\ blob'[path].count \in Nat
        BY <2>2 DEF LeadInv, LeadTypes, Passes, Cells
    <3>2. /\ etag'[path] >= etag[path] /\ (etag'[path] = etag[path] => blob'[path] = blob[path])
          /\ blob'[path].count >= blob[path].count \/ Lead!CarriedOver(path)
        BY <2>2 DEF LeadsMove
    <3>3. Lead!CarriedOver(path) => Lead!CarriedOver(path)'
        BY DEF LeadsMove, Lead!CarriedOver
    <3>4. PassOK(p)
        BY DEF LeadInv
    <3> QED
        BY <1>3, <2>1, <2>2, <3>1, <3>2, <3>3, <3>4 DEF PassOK, Lead!CarriedOver
  <2>3. CASE path \notin Lead!Paths
      BY <1>3, <2>1, <2>3 DEF LeadInv, PassOK
  <2> QED
      BY <2>2, <2>3
<1> QED
    BY <1>1, <1>2, <1>3

\* A step that moves calls and replays and writes nothing.
LeadData == <<leadRow, keys, receipts, blob, etag, stored>>

LEMMA LeadsQuiet ==
    ASSUME Lead!LeadsAssumption, LeadInv, UNCHANGED LeadData, now' \in Nat,
           request' \in [Requests -> Calls], replay' \in [Replays -> Passes],
           answered' \subseteq [lead : Leads, at : Nat],
           \A r \in Requests : request'[r] = request[r] \/ CallOK(r)',
           \A p \in Replays : replay'[p] = replay[p] \/ PassOK(p)',
           \A a \in answered' : a \in answered \/ Kept(a.lead)
    PROVE  LeadInv' /\ GoneWasRead
<1>1. UNCHANGED <<leadRow, keys, receipts, blob, etag, stored>>
    BY DEF LeadData
<1>2. LeadTypes'
    BY <1>1 DEF LeadInv, LeadTypes
<1>3. LeadsMove /\ GoneWasRead
  <2>1. \A l \in Leads : leadRow[l].count \in Nat
      BY DEF LeadInv, LeadTypes, Cells
  <2>2. \A path \in Lead!Paths : blob[path].count \in Nat /\ etag[path] \in Nat
      BY DEF LeadInv, LeadTypes, Cells
  <2> QED
      BY <1>1, <2>1, <2>2 DEF LeadsMove, GoneWasRead
<1>4. CarriedOK' /\ CountsOK'
    BY <1>1 DEF LeadInv, CarriedOK, CountsOK, ToCome, Lead!CarriedOver
<1>5. \A a \in answered' : Kept(a.lead)'
    BY <1>1 DEF LeadInv, Kept
<1>6. (\A r \in Requests : CallOK(r)') /\ (\A p \in Replays : PassOK(p)')
    BY <1>2, <1>3, LeadsStay
<1> QED
    BY <1>2, <1>3, <1>4, <1>5, <1>6 DEF LeadInv

LEMMA CallWritten ==
    ASSUME LeadInv, NEW r \in Requests, NEW k \in Calls, request' = [request EXCEPT ![r] = k]
    PROVE  /\ request' \in [Requests -> Calls] /\ request'[r] = k
           /\ \A q \in Requests \ {r} : request'[q] = request[q]
    BY DEF LeadInv, LeadTypes

LEMMA PassWritten ==
    ASSUME LeadInv, NEW p \in Replays, NEW k \in Passes, replay' = [replay EXCEPT ![p] = k]
    PROVE  /\ replay' \in [Replays -> Passes] /\ replay'[p] = k
           /\ \A q \in Replays \ {p} : replay'[q] = replay[q]
    BY DEF LeadInv, LeadTypes

\* A call that moves on with what it is, writes nothing and answers nobody.
LEMMA CallMoves ==
    ASSUME Lead!LeadsAssumption, LeadInv, NEW r \in Requests, NEW k \in Calls,
           request' = [request EXCEPT ![r] = k], UNCHANGED <<LeadData, now, replay, answered>>,
           k.pc \in {"limit", "capture", "read"} => k.lead \in Leads, k.pc \notin {"put", "mail"}
    PROVE  LeadInv' /\ GoneWasRead
<1>1. /\ request' \in [Requests -> Calls] /\ request'[r] = k
      /\ \A q \in Requests \ {r} : request'[q] = request[q]
    BY CallWritten
<1>2. k.pc \notin {"idle", "done"} => k.lead \in Leads
    BY DEF Calls
<1>3. CallOK(r)'
    BY <1>1, <1>2 DEF CallOK
<1> QED
    BY <1>1, <1>3, LeadsQuiet DEF LeadInv, LeadTypes, LeadData

LEMMA LeadEmpty == Lead!Empty \in Cells /\ Lead!Idle \in Calls /\ Lead!Resting \in Passes
    BY DEF Lead!Empty, Lead!Idle, Lead!Resting, Cells, Calls, Passes

LEMMA LeadDone ==
    /\ [Lead!Idle EXCEPT !.pc = "done"] \in Calls
    /\ [Lead!Idle EXCEPT !.pc = "done"].pc = "done"
    BY LeadEmpty DEF Lead!Idle, Calls

LEMMA LeadTick ==
    ASSUME Lead!LeadsAssumption, LeadInv, Lead!Tick \/ Lead!Outage \/ UNCHANGED Lead!vars
    PROVE  LeadInv' /\ GoneWasRead
<1>1. UNCHANGED <<LeadData, request, replay, answered>> /\ now' \in Nat
    BY DEF Lead!Tick, Lead!Outage, Lead!vars, LeadData, LeadInv, LeadTypes
<1> QED
    BY <1>1, LeadsQuiet DEF LeadInv, LeadTypes

LEMMA LeadArrive ==
    ASSUME Lead!LeadsAssumption, LeadInv, NEW r \in Requests, Lead!Arrive(r) PROVE LeadInv' /\ GoneWasRead
<1>1. PICK l \in Leads, key \in Keys \cup {NoKey}, route \in Routes :
         /\ request' = [request EXCEPT ![r] = [Lead!Idle EXCEPT !.pc = IF route = "web" THEN "capture" ELSE "limit",
                                               !.lead = l, !.key = key, !.at = now, !.route = route]]
         /\ UNCHANGED <<LeadData, now, replay, answered>>
    BY DEF Lead!Arrive, LeadData
<1>2. PICK pc : pc = IF route = "web" THEN "capture" ELSE "limit"
    OBVIOUS
<1>3. PICK k : k = [Lead!Idle EXCEPT !.pc = pc, !.lead = l, !.key = key, !.at = now, !.route = route]
    OBVIOUS
<1>4. k \in Calls /\ k.pc = pc /\ k.lead = l
    BY <1>2, <1>3, LeadEmpty DEF Lead!Idle, Calls, LeadInv, LeadTypes
<1>5. request' = [request EXCEPT ![r] = k]
    BY <1>1, <1>2, <1>3
<1> QED
    BY <1>1, <1>2, <1>4, <1>5, CallMoves

\* A call that only changes its stage, or ends.
LEMMA LeadTo ==
    ASSUME LeadInv, NEW r \in Requests, NEW pc \in {"read", "mail"}, Lead!To(r, pc)
    PROVE  \E k \in Calls : request' = [request EXCEPT ![r] = k] /\ k.pc = pc /\ k.lead = request[r].lead
<1>1. PICK k : k = [request[r] EXCEPT !.pc = pc]
    OBVIOUS
<1>2. request[r] \in Calls
    BY DEF LeadInv, LeadTypes
<1>3. k \in Calls /\ k.pc = pc /\ k.lead = request[r].lead
    BY <1>1, <1>2 DEF Calls
<1>4. request' = [request EXCEPT ![r] = k]
    BY <1>1 DEF Lead!To, LeadInv, LeadTypes
<1> QED
    BY <1>3, <1>4

LEMMA LeadEnds ==
    ASSUME Lead!LeadsAssumption, LeadInv, NEW r \in Requests, Lead!Done(r),
           UNCHANGED <<LeadData, now, replay, answered>>
    PROVE  LeadInv' /\ GoneWasRead
    BY LeadDone, CallMoves DEF Lead!Done

LEMMA LeadFallback ==
    ASSUME Lead!LeadsAssumption, LeadInv, NEW r \in Requests, Lead!Fallback(r) PROVE LeadInv' /\ GoneWasRead
<1>1. request[r].lead \in Leads /\ UNCHANGED <<LeadData, now, replay, answered>> /\ Lead!To(r, "read")
    BY DEF Lead!Fallback, LeadInv, CallOK, LeadData
<1> QED
    BY <1>1, LeadTo, CallMoves

LEMMA LeadConsumeBlob ==
    ASSUME Lead!LeadsAssumption, LeadInv, NEW r \in Requests, Lead!ConsumeBlob(r) PROVE LeadInv' /\ GoneWasRead
<1>1. request[r].lead \in Leads /\ UNCHANGED <<LeadData, now, replay, answered>>
      /\ (Lead!To(r, "read") \/ Lead!Done(r))
    BY DEF Lead!ConsumeBlob, LeadInv, CallOK, LeadData
<1> QED
    BY <1>1, LeadTo, LeadEnds, CallMoves

LEMMA LeadFail ==
    ASSUME Lead!LeadsAssumption, LeadInv, NEW r \in Requests, Lead!Fail(r) PROVE LeadInv' /\ GoneWasRead
<1>1. UNCHANGED <<LeadData, now, replay, answered>> /\ Lead!Done(r)
    BY DEF Lead!Fail, LeadData
<1> QED
    BY <1>1, LeadEnds

\* Who is told ok by a call whose lead is kept.
LEMMA LeadTold ==
    ASSUME LeadInv, NEW r \in Requests, request[r].lead \in Leads, Lead!Told(r)
    PROVE  /\ answered' \subseteq [lead : Leads, at : Nat]
           /\ \A a \in answered' : a \in answered \/ a.lead = request[r].lead
<1>1. request[r].at \in Nat
    BY DEF LeadInv, LeadTypes, Calls
<1> QED
    BY <1>1 DEF Lead!Told, LeadInv, LeadTypes

\* What a call does once the Blob holds its submission.
LEMMA LeadStored ==
    ASSUME Lead!LeadsAssumption, LeadInv, NEW r \in Requests, request[r].lead \in Leads, Lead!Stored(r)
    PROVE  /\ request' \in [Requests -> Calls]
           /\ \A q \in Requests \ {r} : request'[q] = request[q]
           /\ \/ request'[r].pc = "done"
              \/ request'[r].pc = "mail" /\ request'[r].lead = request[r].lead
           /\ answered' \subseteq [lead : Leads, at : Nat]
           /\ \A a \in answered' : a \in answered \/ a.lead = request[r].lead
<1>1. CASE Lead!Done(r) /\ Lead!Told(r)
  <2>1. PICK k \in Calls : request' = [request EXCEPT ![r] = k] /\ k.pc = "done"
      BY <1>1, LeadDone DEF Lead!Done
  <2> QED
      BY <1>1, <2>1, CallWritten, LeadTold
<1>2. CASE Lead!To(r, "mail") /\ UNCHANGED answered
  <2>1. PICK k \in Calls : request' = [request EXCEPT ![r] = k] /\ k.pc = "mail" /\ k.lead = request[r].lead
      BY <1>2, LeadTo
  <2> QED
      BY <1>2, <2>1, CallWritten DEF LeadInv, LeadTypes
<1> QED
    BY <1>1, <1>2 DEF Lead!Stored

LEMMA LeadReadBlob ==
    ASSUME Lead!LeadsAssumption, LeadInv, NEW r \in Requests, Lead!ReadBlob(r) PROVE LeadInv' /\ GoneWasRead
<1>1. PICK l, path : l = request[r].lead /\ path = <<l, "v2">>
    OBVIOUS
<1>2. /\ request[r].pc = "read" /\ l \in Leads /\ path \in Lead!Paths /\ UNCHANGED <<LeadData, now, replay>>
      /\ request[r] \in Calls /\ blob[path] \in Cells /\ etag[path] \in Nat
    BY <1>1, PathsAre DEF Lead!ReadBlob, LeadInv, LeadTypes, CallOK, LeadData
<1>3. CASE blob[path].count > 0 /\ Lead!Stored(r)
  <2>1. Kept(l)
      BY <1>1, <1>3 DEF Kept
  <2>2. Kept(l)'
      BY <1>2, <2>1 DEF Kept, LeadData
  <2>3. CallOK(r)'
      BY <1>1, <1>2, <1>3, <2>2, LeadStored DEF CallOK
  <2> QED
      BY <1>1, <1>2, <1>3, <2>1, <2>3, LeadStored, LeadsQuiet DEF LeadInv, LeadTypes
<1>4. CASE /\ request' = [request EXCEPT ![r].pc = "put", ![r].read = blob[path], ![r].tag = etag[path]]
           /\ UNCHANGED answered
  <2>1. PICK k : k = [request[r] EXCEPT !.pc = "put", !.read = blob[path], !.tag = etag[path]]
      OBVIOUS
  <2>2. k \in Calls /\ k.pc = "put" /\ k.read = blob[path] /\ k.tag = etag[path] /\ k.lead = l
      BY <1>1, <1>2, <2>1 DEF Calls
  <2>3. request' = [request EXCEPT ![r] = k]
      BY <1>4, <2>1 DEF LeadInv, LeadTypes
  <2>4. request' \in [Requests -> Calls] /\ request'[r] = k /\ \A q \in Requests \ {r} : request'[q] = request[q]
      BY <2>2, <2>3, CallWritten
  <2>5. CallOK(r)'
      BY <1>1, <1>2, <2>2, <2>4 DEF CallOK, LeadData
  <2> QED
      BY <1>2, <1>4, <2>4, <2>5, LeadsQuiet DEF LeadInv, LeadTypes
<1> QED
    BY <1>1, <1>3, <1>4 DEF Lead!ReadBlob

LEMMA LeadMail ==
    ASSUME Lead!LeadsAssumption, LeadInv, NEW r \in Requests, Lead!Mail(r) PROVE LeadInv' /\ GoneWasRead
<1>1. PICK l : l = request[r].lead
    OBVIOUS
<1>2. /\ request[r].pc = "mail" /\ l \in Leads /\ Kept(l) /\ UNCHANGED <<LeadData, now, replay>>
      /\ Lead!Done(r) /\ (Lead!Told(r) \/ UNCHANGED answered)
    BY <1>1 DEF Lead!Mail, LeadInv, CallOK, LeadData
<1>3. PICK k \in Calls : request' = [request EXCEPT ![r] = k] /\ k.pc = "done"
    BY <1>2, LeadDone DEF Lead!Done
<1>4. request' \in [Requests -> Calls] /\ request'[r] = k /\ \A q \in Requests \ {r} : request'[q] = request[q]
    BY <1>3, CallWritten
<1>5. CallOK(r)'
    BY <1>3, <1>4 DEF CallOK
<1>6. /\ answered' \subseteq [lead : Leads, at : Nat]
      /\ \A a \in answered' : a \in answered \/ Kept(a.lead)
    BY <1>1, <1>2, LeadTold DEF LeadInv, LeadTypes
<1> QED
    BY <1>2, <1>4, <1>5, <1>6, LeadsQuiet DEF LeadInv, LeadTypes

\* A replay that moves on and writes nothing.
LEMMA PassMoves ==
    ASSUME Lead!LeadsAssumption, LeadInv, NEW p \in Replays, NEW k \in Passes,
           replay' = [replay EXCEPT ![p] = k], UNCHANGED <<LeadData, now, request, answered>>,
           \/ k.pc = "idle"
           \/ /\ k.pc \in {"read", "commit"} /\ k.path \in Lead!Paths /\ k.tag <= etag[k.path]
              /\ k.pc = "commit" => k.read = blob[k.path] /\ k.read.count > 0
    PROVE  LeadInv' /\ GoneWasRead
<1>1. /\ replay' \in [Replays -> Passes] /\ replay'[p] = k
      /\ \A q \in Replays \ {p} : replay'[q] = replay[q]
    BY PassWritten
<1>2. \A path \in Lead!Paths : blob[path].count \in Nat
    BY DEF LeadInv, LeadTypes, Cells
<1>3. PassOK(p)'
    BY <1>1, <1>2 DEF PassOK, LeadData
<1> QED
    BY <1>1, <1>3, LeadsQuiet DEF LeadInv, LeadTypes, LeadData

LEMMA LeadStop ==
    ASSUME Lead!LeadsAssumption, LeadInv, NEW p \in Replays, Lead!Stop(p) PROVE LeadInv' /\ GoneWasRead
<1>1. UNCHANGED <<LeadData, now, request, answered>> /\ replay' = [replay EXCEPT ![p] = Lead!Resting]
    BY DEF Lead!Stop, LeadData
<1>2. Lead!Resting.pc = "idle"
    BY DEF Lead!Resting
<1> QED
    BY <1>1, <1>2, LeadEmpty, PassMoves

LEMMA LeadList ==
    ASSUME Lead!LeadsAssumption, LeadInv, NEW p \in Replays, Lead!List(p) PROVE LeadInv' /\ GoneWasRead
<1>1. PICK path \in Lead!Paths, delete \in BOOLEAN :
         /\ UNCHANGED <<LeadData, now, request, answered>>
         /\ replay' = [replay EXCEPT ![p] = [pc |-> "read", path |-> path, tag |-> etag[path], read |-> Lead!Empty,
                                             delete |-> delete]]
    BY DEF Lead!List, LeadData
<1>2. PICK k : k = [pc |-> "read", path |-> path, tag |-> etag[path], read |-> Lead!Empty, delete |-> delete]
    OBVIOUS
<1>3. etag[path] \in Nat
    BY DEF LeadInv, LeadTypes
<1>4. k \in Passes
    BY <1>2, <1>3, LeadEmpty, Zenon DEF Passes
<1>5. k.pc = "read" /\ k.path = path /\ k.tag = etag[path]
    BY <1>2
<1>6. replay' = [replay EXCEPT ![p] = k] /\ UNCHANGED <<LeadData, now, request, answered>>
    BY <1>1, <1>2
<1>7. k.path \in Lead!Paths /\ k.tag <= etag[k.path] /\ k.pc # "commit"
    BY <1>3, <1>5
<1> QED
    BY <1>4, <1>5, <1>6, <1>7, PassMoves

LEMMA LeadReadListed ==
    ASSUME Lead!LeadsAssumption, LeadInv, NEW p \in Replays, Lead!ReadListed(p) PROVE LeadInv' /\ GoneWasRead
<1>1. PICK path : path = replay[p].path
    OBVIOUS
<1>2. /\ replay[p].pc = "read" /\ path \in Lead!Paths /\ replay[p].tag <= etag[path]
      /\ UNCHANGED <<LeadData, now, request, answered>> /\ replay[p] \in Passes /\ blob[path] \in Cells
    BY <1>1 DEF Lead!ReadListed, LeadInv, LeadTypes, PassOK, LeadData
<1>3. CASE blob[path].count = 0
  <2>1. replay' = [replay EXCEPT ![p] = Lead!Resting] /\ Lead!Resting.pc = "idle"
      BY <1>1, <1>3 DEF Lead!ReadListed, Lead!Resting
  <2> QED
      BY <1>2, <2>1, LeadEmpty, PassMoves
<1>4. CASE blob[path].count # 0
  <2>1. PICK k : k = [replay[p] EXCEPT !.pc = "commit", !.read = blob[path]]
      OBVIOUS
  <2>2. k \in Passes /\ k.pc = "commit" /\ k.read = blob[path] /\ k.path = path /\ k.tag = replay[p].tag
      BY <1>1, <1>2, <2>1 DEF Passes
  <2>3. replay' = [replay EXCEPT ![p] = k]
      BY <1>1, <1>4, <2>1 DEF Lead!ReadListed, LeadInv, LeadTypes
  <2>4. k.read.count > 0
      BY <1>2, <1>4, <2>2 DEF Cells
  <2> QED
      BY <1>2, <2>2, <2>3, <2>4, PassMoves
<1> QED
    BY <1>3, <1>4

\* The two ways of adding a submission.
LEMMA MergeIs ==
    ASSUME NEW old \in Cells, NEW new \in Cells
    PROVE  /\ Lead!Merge(old, new) \in Cells
           /\ Lead!Merge(old, new).count >= old.count /\ Lead!Merge(old, new).count <= old.count + new.count
<1>1. /\ Lead!Least(old.first, new.first) \in Nat /\ Lead!Most(old.last, new.last) \in Nat
      /\ old.count \in Nat /\ new.count \in Nat
    BY DEF Cells, Lead!Least, Lead!Most
<1>2. CASE new.key # NoKey /\ new.key = old.key
    BY <1>1, <1>2 DEF Lead!Merge
<1>3. CASE ~(new.key # NoKey /\ new.key = old.key)
  <2>1. PICK key : key = IF new.last >= old.last THEN new.key ELSE old.key
      OBVIOUS
  <2>2. key \in Keys \cup {NoKey}
      BY <2>1 DEF Cells
  <2>3. PICK k : k = [count |-> old.count + new.count, first |-> Lead!Least(old.first, new.first),
                      last |-> Lead!Most(old.last, new.last), key |-> key]
      OBVIOUS
  <2>4. k \in Cells /\ k.count = old.count + new.count
      BY <1>1, <2>2, <2>3 DEF Cells
  <2>5. Lead!Merge(old, new) = k
      BY <1>3, <2>1, <2>3 DEF Lead!Merge
  <2> QED
      BY <1>1, <2>4, <2>5
<1> QED
    BY <1>2, <1>3

LEMMA ConvergeIs ==
    ASSUME NEW old \in Cells, NEW new \in Cells
    PROVE  Lead!Converge(old, new) \in Cells /\ Lead!Converge(old, new).count = old.count + new.count
<1>1. /\ Lead!Least(old.first, new.first) \in Nat /\ Lead!Most(old.last, new.last) \in Nat
      /\ old.count \in Nat /\ new.count \in Nat
    BY DEF Cells, Lead!Least, Lead!Most
<1> QED
    BY <1>1 DEF Lead!Converge, Cells

LEMMA SubmissionIs ==
    ASSUME LeadInv, NEW r \in Requests PROVE Lead!Submission(r) \in Cells /\ Lead!Submission(r).count = 1
<1>1. request[r].at \in Nat /\ request[r].key \in Keys \cup {NoKey}
    BY DEF LeadInv, LeadTypes, Calls
<1> QED
    BY <1>1 DEF Lead!Submission, Cells

\* One submission more, or one path carried over: the counts still fit.
LEMMA LeadWrites ==
    ASSUME Lead!LeadsAssumption, LeadInv, LeadTypes', LeadsMove, GoneWasRead, CarriedOK', CountsOK',
           \A r \in Requests : request'[r] = request[r] \/ CallOK(r)',
           \A p \in Replays : replay'[p] = replay[p] \/ PassOK(p)',
           \A a \in answered' : a \in answered \/ Kept(a.lead)'
    PROVE  LeadInv' /\ GoneWasRead
<1>1. \A a \in answered' : Kept(a.lead)'
  <2> SUFFICES ASSUME NEW a \in answered' PROVE Kept(a.lead)'
      OBVIOUS
  <2>1. a \in answered => a.lead \in Leads /\ Kept(a.lead)
      BY DEF LeadInv, LeadTypes
  <2> QED
      BY <2>1, LeadsStay
<1>2. (\A r \in Requests : CallOK(r)') /\ (\A p \in Replays : PassOK(p)')
    BY LeadsStay
<1> QED
    BY <1>1, <1>2 DEF LeadInv

\* The row of a lead grows by what a path or nobody waits to add any more.
LEMMA RowGrows ==
    ASSUME Lead!LeadsAssumption, LeadInv, NEW l \in Leads, NEW c \in Cells, c.count > 0,
           leadRow' = [leadRow EXCEPT ![l] = Lead!Converge(leadRow[l], c)]
    PROVE  /\ leadRow' \in [Leads -> Cells] /\ leadRow'[l].count = leadRow[l].count + c.count
           /\ leadRow'[l].count > 0
           /\ \A x \in Leads \ {l} : leadRow'[x] = leadRow[x]
           /\ \A x \in Leads : leadRow'[x].count >= leadRow[x].count
<1>1. \A x \in Leads : leadRow[x] \in Cells /\ leadRow[x].count \in Nat
    BY DEF LeadInv, LeadTypes, Cells
<1>2. PICK k : k = Lead!Converge(leadRow[l], c)
    OBVIOUS
<1>3. k \in Cells /\ k.count = leadRow[l].count + c.count /\ c.count \in Nat
    BY <1>1, <1>2, ConvergeIs DEF Cells
<1>4. leadRow' \in [Leads -> Cells] /\ leadRow'[l] = k /\ \A x \in Leads \ {l} : leadRow'[x] = leadRow[x]
    BY <1>2, <1>3 DEF LeadInv, LeadTypes
<1>5. ASSUME NEW x \in Leads PROVE leadRow'[x].count >= leadRow[x].count
  <2>1. CASE x = l
      BY <1>1, <1>3, <1>4, <2>1
  <2>2. CASE x # l
      BY <1>1, <1>4, <2>2
  <2> QED
      BY <2>1, <2>2
<1> QED
    BY <1>1, <1>3, <1>4, <1>5

\* A key is claimed for a lead that has its row.
LEMMA KeysClaimed ==
    ASSUME LeadInv, NEW l \in Leads, NEW c \in Cells, Lead!ClaimKey(l, c)
    PROVE  /\ keys' \in [Keys -> Leads \cup {Lead!None}]
           /\ \A k \in Keys : keys'[k] = keys[k] \/ keys'[k] = l
<1>1. c.key \in Keys \cup {NoKey} /\ keys \in [Keys -> Leads \cup {Lead!None}]
    BY DEF Cells, LeadInv, LeadTypes
<1> QED
    BY <1>1 DEF Lead!ClaimKey

LEMMA LeadCapture ==
    ASSUME Lead!LeadsAssumption, LeadInv, NEW r \in Requests, Lead!Capture(r) PROVE LeadInv' /\ GoneWasRead
<1>1. PICK l, c : l = request[r].lead /\ c = Lead!Submission(r)
    OBVIOUS
<1>2. /\ request[r].pc = "capture" /\ l \in Leads /\ c \in Cells /\ c.count = 1
      /\ UNCHANGED <<now, receipts, blob, etag, replay>>
    BY <1>1, SubmissionIs DEF Lead!Capture, LeadInv, CallOK
<1>9. c.count > 0
    BY <1>2
<1>3. PICK k \in Calls : /\ request' = [request EXCEPT ![r] = k]
                         /\ k.pc = "done" \/ (k.pc = "read" /\ k.lead = l)
  <2>1. Lead!Done(r) \/ Lead!To(r, "read")
      BY DEF Lead!Capture
  <2>2. CASE Lead!Done(r)
      BY <2>2, LeadDone DEF Lead!Done
  <2>3. CASE Lead!To(r, "read")
      BY <1>1, <2>3, LeadTo
  <2> QED
      BY <2>1, <2>2, <2>3
<1>4. request' \in [Requests -> Calls] /\ request'[r] = k /\ \A q \in Requests \ {r} : request'[q] = request[q]
    BY <1>3, CallWritten
<1>5. CallOK(r)'
    BY <1>2, <1>3, <1>4 DEF CallOK
<1>6. /\ answered' \subseteq [lead : Leads, at : Nat]
      /\ \A a \in answered' : a \in answered \/ a.lead = l
    BY <1>1, <1>2, LeadTold DEF Lead!Capture, LeadInv, LeadTypes
<1>7. CASE UNCHANGED <<leadRow, keys, stored>>
  <2>1. answered' = answered \/ leadRow[l].count > 0
    <3>1. CASE Lead!Receipt(l, c) = "spent"
        BY <1>2, <3>1 DEF Lead!Receipt, LeadInv, CarriedOK, Cells, Lead!LeadsAssumption
    <3>2. CASE Lead!Receipt(l, c) # "spent"
      <4>1. CASE UNCHANGED answered
          BY <4>1
      <4>2. CASE leadRow' = [leadRow EXCEPT ![l] = Lead!Converge(leadRow[l], c)]
        <5>1. leadRow'[l].count > 0
            BY <1>2, <1>9, <4>2, RowGrows
        <5> QED
            BY <1>7, <5>1
      <4> QED
          BY <1>1, <3>2, <4>1, <4>2 DEF Lead!Capture
    <3> QED
        BY <3>1, <3>2
  <2>2. \A a \in answered' : a \in answered \/ Kept(a.lead)
      BY <1>6, <2>1 DEF Kept
  <2> QED
      BY <1>2, <1>4, <1>5, <1>6, <1>7, <2>2, LeadsQuiet DEF LeadInv, LeadTypes, LeadData
<1>8. CASE /\ leadRow' = [leadRow EXCEPT ![l] = Lead!Converge(leadRow[l], c)] /\ Lead!ClaimKey(l, c)
           /\ stored' = [stored EXCEPT ![l] = @ + 1]
  <2>1. /\ leadRow' \in [Leads -> Cells] /\ leadRow'[l].count = leadRow[l].count + 1 /\ leadRow'[l].count > 0
        /\ \A x \in Leads \ {l} : leadRow'[x] = leadRow[x]
        /\ \A x \in Leads : leadRow'[x].count >= leadRow[x].count
    <3>1. leadRow'[l].count = leadRow[l].count + c.count
        BY <1>2, <1>8, <1>9, RowGrows
    <3> QED
        BY <1>2, <1>8, <1>9, <3>1, RowGrows
  <2>2. /\ keys' \in [Keys -> Leads \cup {Lead!None}]
        /\ \A q \in Keys : keys'[q] = keys[q] \/ keys'[q] = l
      BY <1>2, <1>8, KeysClaimed
  <2>3. PICK n \in Nat : n = stored[l]
      BY <1>2 DEF LeadInv, LeadTypes
  <2>4. stored' \in [Leads -> Nat] /\ stored'[l] = n + 1 /\ \A x \in Leads \ {l} : stored'[x] = stored[x]
      BY <1>2, <1>8, <2>3 DEF LeadInv, LeadTypes
  <2>5. LeadTypes'
      BY <1>2, <1>4, <1>6, <2>1, <2>2, <2>4 DEF LeadInv, LeadTypes
  <2>6. LeadsMove /\ GoneWasRead
    <3>1. \A path \in Lead!Paths : blob[path].count \in Nat /\ etag[path] \in Nat
        BY DEF LeadInv, LeadTypes, Cells
    <3> QED
        BY <1>2, <2>1, <3>1 DEF LeadsMove, GoneWasRead
  <2>7. CarriedOK'
    <3>1. ASSUME NEW x \in Leads, leadRow[x].count > 0 PROVE leadRow'[x].count > 0
      <4>1. leadRow[x].count \in Nat /\ leadRow'[x].count \in Nat /\ leadRow'[x].count >= leadRow[x].count
          BY <2>1 DEF LeadInv, LeadTypes, Cells
      <4> QED
          BY <3>1, <4>1
    <3>2. ASSUME NEW path \in Lead!Paths, Lead!CarriedOver(path)' PROVE leadRow'[path[1]].count > 0
        BY <1>2, <3>1, <3>2, PathsAre DEF LeadInv, CarriedOK, Lead!CarriedOver
    <3>3. ASSUME NEW q \in Keys, keys'[q] # Lead!None PROVE leadRow'[keys'[q]].count > 0
        BY <2>1, <2>2, <3>1, <3>3 DEF LeadInv, LeadTypes, CarriedOK
    <3> QED
        BY <3>2, <3>3 DEF CarriedOK
  <2>8. CountsOK'
    <3>1. ASSUME NEW x \in Leads
          PROVE  leadRow'[x].count + ToCome(<<x, "v2">>) + ToCome(<<x, "legacy">>) <= stored'[x]
      <4>1. /\ leadRow[x].count \in Nat /\ ToCome(<<x, "v2">>) \in Nat /\ ToCome(<<x, "legacy">>) \in Nat
            /\ leadRow[x].count + ToCome(<<x, "v2">>) + ToCome(<<x, "legacy">>) <= stored[x] /\ stored[x] \in Nat
          BY DEF LeadInv, LeadTypes, Cells, CountsOK, ToCome
      <4>2. CASE x = l
          BY <2>1, <2>3, <2>4, <4>1, <4>2
      <4>3. CASE x # l
          BY <2>1, <2>4, <4>1, <4>3
      <4> QED
          BY <4>2, <4>3
    <3> QED
        BY <1>2, <3>1 DEF CountsOK, ToCome, Lead!CarriedOver
  <2>9. \A a \in answered' : a \in answered \/ Kept(a.lead)'
      BY <1>6, <2>1 DEF Kept
  <2> QED
      BY <1>2, <1>4, <1>5, <2>5, <2>6, <2>7, <2>8, <2>9, LeadWrites
<1> QED
    BY <1>1, <1>7, <1>8 DEF Lead!Capture

LEMMA LeadPutBlob ==
    ASSUME Lead!LeadsAssumption, LeadInv, NEW r \in Requests, Lead!PutBlob(r) PROVE LeadInv' /\ GoneWasRead
<1>1. PICK l, path : l = request[r].lead /\ path = <<l, "v2">>
    OBVIOUS
<1>2. /\ request[r].pc = "put" /\ l \in Leads /\ path \in Lead!Paths /\ path[1] = l
      /\ UNCHANGED <<now, leadRow, keys, receipts, replay>>
      /\ request[r] \in Calls /\ blob[path] \in Cells /\ blob[path].count \in Nat /\ etag[path] \in Nat
    BY <1>1, PathsAre DEF Lead!PutBlob, LeadInv, LeadTypes, CallOK, Cells
<1>3. CASE etag[path] # request[r].tag
  <2>1. UNCHANGED <<LeadData, now, replay, answered>>
      BY <1>1, <1>2, <1>3 DEF Lead!PutBlob, LeadData
  <2>2. CASE Lead!TriesLeft(r)
    <3>1. PICK n \in Nat : n = request[r].tries + 1
        BY <1>2 DEF Calls
    <3>2. PICK k : k = [request[r] EXCEPT !.pc = "read", !.tries = n, !.read = Lead!Empty, !.tag = 0]
        OBVIOUS
    <3>3. k \in Calls /\ k.pc = "read" /\ k.lead = l
        BY <1>1, <1>2, <3>1, <3>2, LeadEmpty DEF Calls
    <3>4. request' = [request EXCEPT ![r] = k]
        BY <1>1, <1>3, <2>2, <3>1, <3>2 DEF Lead!PutBlob, LeadInv, LeadTypes
    <3> QED
        BY <1>2, <2>1, <3>3, <3>4, CallMoves
  <2>3. CASE ~Lead!TriesLeft(r)
    <3>1. Lead!Done(r)
        BY <1>1, <1>3, <2>3 DEF Lead!PutBlob
    <3> QED
        BY <2>1, <3>1, LeadEnds
  <2> QED
      BY <2>2, <2>3
<1>4. CASE etag[path] = request[r].tag
  <2>1. request[r].read = blob[path]
      BY <1>1, <1>2, <1>4 DEF LeadInv, CallOK
  <2>2. PICK b : b = IF blob[path].count = 0 THEN Lead!Submission(r) ELSE Lead!Merge(blob[path], Lead!Submission(r))
      OBVIOUS
  <2>3. b \in Cells /\ b.count \in Nat /\ b.count > 0 /\ b.count >= blob[path].count /\ b.count <= blob[path].count + 1
    <3>1. Lead!Submission(r) \in Cells /\ Lead!Submission(r).count = 1
        BY SubmissionIs
    <3>2. CASE blob[path].count = 0
        BY <1>2, <2>2, <3>1, <3>2
    <3>3. CASE blob[path].count # 0
      <4>1. b = Lead!Merge(blob[path], Lead!Submission(r))
          BY <2>2, <3>3
      <4>2. b \in Cells /\ b.count >= blob[path].count /\ b.count <= blob[path].count + Lead!Submission(r).count
          BY <1>2, <3>1, <4>1, MergeIs
      <4> QED
          BY <1>2, <3>1, <3>3, <4>2 DEF Cells
    <3> QED
        BY <3>2, <3>3
  <2>4. PICK m \in Nat : m = etag[path] + 1
      BY <1>2
  <2>5. PICK n \in Nat : n = stored[l]
      BY <1>2 DEF LeadInv, LeadTypes
  <2>6. /\ blob' = [blob EXCEPT ![path] = b] /\ etag' = [etag EXCEPT ![path] = m]
        /\ stored' = [stored EXCEPT ![l] = n + 1] /\ Lead!Stored(r)
      BY <1>1, <1>2, <1>4, <2>1, <2>2, <2>4, <2>5 DEF Lead!PutBlob
  <2>7. /\ blob' \in [Lead!Paths -> Cells] /\ etag' \in [Lead!Paths -> Nat] /\ stored' \in [Leads -> Nat]
        /\ blob'[path] = b /\ etag'[path] = etag[path] + 1 /\ stored'[l] = stored[l] + 1
        /\ \A x \in Lead!Paths \ {path} : blob'[x] = blob[x] /\ etag'[x] = etag[x]
        /\ \A x \in Leads \ {l} : stored'[x] = stored[x]
      BY <1>2, <2>3, <2>4, <2>5, <2>6 DEF LeadInv, LeadTypes
  <2>8. /\ request' \in [Requests -> Calls]
        /\ \A q \in Requests \ {r} : request'[q] = request[q]
        /\ \/ request'[r].pc = "done"
           \/ request'[r].pc = "mail" /\ request'[r].lead = l
        /\ answered' \subseteq [lead : Leads, at : Nat]
        /\ \A a \in answered' : a \in answered \/ a.lead = l
      BY <1>1, <1>2, <2>6, LeadStored
  <2>9. LeadTypes'
      BY <1>2, <2>7, <2>8 DEF LeadInv, LeadTypes
  <2>10. Kept(l)'
      BY <1>1, <2>3, <2>7 DEF Kept
  <2>11. CallOK(r)'
      BY <1>2, <2>8, <2>10 DEF CallOK
  <2>12. LeadsMove /\ GoneWasRead
    <3>1. \A x \in Lead!Paths : blob[x].count \in Nat /\ etag[x] \in Nat
        BY DEF LeadInv, LeadTypes, Cells
    <3>2. \A x \in Leads : leadRow'[x] = leadRow[x] /\ leadRow[x].count \in Nat
        BY <1>2 DEF LeadInv, LeadTypes, Cells
    <3>3. ASSUME NEW x \in Lead!Paths
          PROVE  /\ etag'[x] >= etag[x] /\ (etag'[x] = etag[x] => blob'[x] = blob[x])
                 /\ blob'[x].count >= blob[x].count
      <4>1. CASE x = path
          BY <1>2, <2>3, <2>7, <4>1
      <4>2. CASE x # path
          BY <2>7, <3>1, <4>2
      <4> QED
          BY <4>1, <4>2
    <3>4. GoneWasRead
      <4>1. ASSUME NEW x \in Lead!Paths, blob[x].count > 0 PROVE blob'[x].count # 0
          BY <3>1, <3>3, <4>1
      <4> QED
          BY <4>1 DEF GoneWasRead
    <3> QED
        BY <1>2, <3>2, <3>3, <3>4 DEF LeadsMove
  <2>13. CarriedOK'
      BY <1>2 DEF LeadInv, CarriedOK, Lead!CarriedOver
  <2>14. ASSUME NEW x \in Leads
         PROVE  leadRow[x].count + ToCome(<<x, "v2">>)' + ToCome(<<x, "legacy">>)' <= stored'[x]
    <3>1. /\ leadRow[x].count \in Nat /\ ToCome(<<x, "v2">>) \in Nat /\ ToCome(<<x, "legacy">>) \in Nat
          /\ leadRow[x].count + ToCome(<<x, "v2">>) + ToCome(<<x, "legacy">>) <= stored[x] /\ stored[x] \in Nat
        BY DEF LeadInv, LeadTypes, Cells, CountsOK, ToCome
    <3>2. <<x, "legacy">> # path
        BY <1>1
    <3>3. ToCome(<<x, "legacy">>)' = ToCome(<<x, "legacy">>)
        BY <1>2, <2>7, <3>2 DEF ToCome, Lead!CarriedOver
    <3>4. CASE x = l
      <4>1. ToCome(path)' <= ToCome(path) + 1 /\ ToCome(path)' \in Nat
          BY <1>2, <2>3, <2>7 DEF ToCome, Lead!CarriedOver
      <4> QED
          BY <1>1, <2>7, <3>1, <3>3, <3>4, <4>1
    <3>5. CASE x # l
      <4>1. <<x, "v2">> # path
          BY <1>1, <3>5
      <4>2. ToCome(<<x, "v2">>)' = ToCome(<<x, "v2">>)
          BY <1>2, <2>7, <4>1 DEF ToCome, Lead!CarriedOver
      <4> QED
          BY <2>7, <3>1, <3>3, <3>5, <4>2
    <3> QED
        BY <3>4, <3>5
  <2>15. CountsOK'
      BY <1>2, <2>14 DEF CountsOK
  <2>16. \A a \in answered' : a \in answered \/ Kept(a.lead)'
      BY <2>8, <2>10
  <2> QED
      BY <1>2, <2>8, <2>9, <2>11, <2>12, <2>13, <2>15, <2>16, LeadWrites
<1> QED
    BY <1>3, <1>4

LEMMA LeadDelete ==
    ASSUME Lead!LeadsAssumption, LeadInv, NEW p \in Replays, Lead!Delete(p) PROVE LeadInv' /\ GoneWasRead
<1>1. PICK path : path = replay[p].path
    OBVIOUS
<1>2. /\ replay[p].pc = "delete" /\ path \in Lead!Paths /\ Lead!CarriedOver(path) /\ leadRow[path[1]].count > 0
      /\ etag[path] \in Nat /\ UNCHANGED <<now, leadRow, keys, receipts, request, answered, stored>>
      /\ replay' = [replay EXCEPT ![p] = Lead!Resting]
    BY <1>1 DEF Lead!Delete, LeadInv, LeadTypes, PassOK, CarriedOK
<1>3. /\ replay' \in [Replays -> Passes] /\ replay'[p] = Lead!Resting
      /\ \A q \in Replays \ {p} : replay'[q] = replay[q]
    BY <1>2, LeadEmpty, PassWritten
<1>4. Lead!Resting.pc = "idle"
    BY DEF Lead!Resting
<1>5. CASE UNCHANGED <<blob, etag>>
  <2>1. UNCHANGED <<LeadData, now, request, answered>>
      BY <1>2, <1>5 DEF LeadData
  <2> QED
      BY <1>2, <1>4, <2>1, LeadEmpty, PassMoves
<1>6. CASE Lead!AsListed(p) /\ blob' = [blob EXCEPT ![path] = Lead!Empty] /\ etag' = [etag EXCEPT ![path] = @ + 1]
  <2>1. PICK m \in Nat : m = etag[path] + 1
      BY <1>2
  <2>2. /\ blob' \in [Lead!Paths -> Cells] /\ etag' \in [Lead!Paths -> Nat] /\ etag'[path] = etag[path] + 1
        /\ \A x \in Lead!Paths \ {path} : blob'[x] = blob[x] /\ etag'[x] = etag[x]
      BY <1>2, <1>6, <2>1, LeadEmpty DEF LeadInv, LeadTypes
  <2>3. LeadTypes'
      BY <1>2, <1>3, <2>2 DEF LeadInv, LeadTypes
  <2>4. replay[p].read = blob[path]
      BY <1>1, <1>2, <1>6 DEF LeadInv, PassOK, Lead!AsListed
  <2>5. \A x \in Lead!Paths : blob[x].count \in Nat /\ etag[x] \in Nat
      BY DEF LeadInv, LeadTypes, Cells
  <2>6. LeadsMove
    <3>1. \A x \in Leads : leadRow'[x] = leadRow[x] /\ leadRow[x].count \in Nat
        BY <1>2 DEF LeadInv, LeadTypes, Cells
    <3>2. ASSUME NEW x \in Lead!Paths
          PROVE  /\ etag'[x] >= etag[x] /\ (etag'[x] = etag[x] => blob'[x] = blob[x])
                 /\ blob'[x].count >= blob[x].count \/ (Lead!CarriedOver(x) /\ leadRow[x[1]].count > 0)
      <4>1. CASE x = path
          BY <1>2, <2>2, <4>1
      <4>2. CASE x # path
          BY <2>2, <2>5, <4>2
      <4> QED
          BY <4>1, <4>2
    <3> QED
        BY <1>2, <3>1, <3>2 DEF LeadsMove
  <2>7. GoneWasRead
    <3>1. ASSUME NEW x \in Lead!Paths, blob[x].count > 0, blob'[x].count = 0 PROVE x = path
        BY <2>2, <3>1
    <3> QED
        BY <1>1, <1>2, <2>4, <3>1 DEF GoneWasRead
  <2>8. CarriedOK'
      BY <1>2 DEF LeadInv, CarriedOK, Lead!CarriedOver
  <2>9. \A x \in Lead!Paths : ToCome(x)' = ToCome(x)
      BY <1>2, <2>2 DEF ToCome, Lead!CarriedOver
  <2>10. CountsOK'
    <3>1. ASSUME NEW x \in Leads
          PROVE  leadRow[x].count + ToCome(<<x, "v2">>)' + ToCome(<<x, "legacy">>)' <= stored[x]
      <4>1. ToCome(<<x, "v2">>)' = ToCome(<<x, "v2">>)
          BY <2>9, PathsAre
      <4>2. ToCome(<<x, "legacy">>)' = ToCome(<<x, "legacy">>)
          BY <2>9 DEF ToCome
      <4> QED
          BY <4>1, <4>2 DEF LeadInv, CountsOK
    <3> QED
        BY <1>2, <3>1 DEF CountsOK
  <2>11. PassOK(p)'
      BY <1>3, <1>4 DEF PassOK
  <2> QED
      BY <1>2, <1>3, <2>3, <2>6, <2>7, <2>8, <2>10, <2>11, LeadWrites
<1> QED
    BY <1>1, <1>5, <1>6 DEF Lead!Delete

LEMMA LeadCommit ==
    ASSUME Lead!LeadsAssumption, LeadInv, NEW p \in Replays, Lead!Commit(p) PROVE LeadInv' /\ GoneWasRead
<1>1. PICK path, l, c : path = replay[p].path /\ l = path[1] /\ c = replay[p].read
    OBVIOUS
<1>2. /\ replay[p].pc = "commit" /\ path \in Lead!Paths /\ l \in Leads /\ replay[p] \in Passes
      /\ c \in Cells /\ c.count > 0 /\ c.count \in Nat /\ replay[p].tag <= etag[path]
      /\ replay[p].tag = etag[path] => c = blob[path]
      /\ ~Lead!CarriedOver(path) => c.count <= blob[path].count
      /\ UNCHANGED <<now, blob, etag, request, answered, stored>>
    BY <1>1, PathsAre DEF Lead!Commit, LeadInv, LeadTypes, PassOK, Passes, Cells
<1>3. Lead!Resting \in Passes /\ Lead!Resting.pc = "idle"
    BY LeadEmpty DEF Lead!Resting
<1>4. CASE replay' = [replay EXCEPT ![p] = Lead!Resting] /\ UNCHANGED <<leadRow, keys, receipts>>
  <2>1. UNCHANGED <<LeadData, now, request, answered>>
      BY <1>2, <1>4 DEF LeadData
  <2> QED
      BY <1>3, <1>4, <2>1, PassMoves
<1>5. CASE /\ receipts' = receipts \cup {path} /\ (Lead!CarriedOver(path) \/ Lead!Receipt(l, c) # "conflict")
           /\ \/ /\ Lead!CarriedOver(path) \/ Lead!Receipt(l, c) = "spent"
                 /\ UNCHANGED <<leadRow, keys>>
              \/ /\ ~Lead!CarriedOver(path) /\ leadRow' = [leadRow EXCEPT ![l] = Lead!Converge(leadRow[l], c)]
                 /\ Lead!ClaimKey(l, c)
           /\ \/ replay' = [replay EXCEPT ![p] = Lead!Resting]
              \/ replay' = [replay EXCEPT ![p].pc = "delete"]
  <2>1. PICK k \in Passes : /\ replay' = [replay EXCEPT ![p] = k]
                            /\ \/ k.pc = "idle"
                               \/ k.pc = "delete" /\ k.path = path /\ k.tag = replay[p].tag /\ k.read = c
    <3>1. CASE replay' = [replay EXCEPT ![p] = Lead!Resting]
        BY <1>3, <3>1
    <3>2. CASE replay' = [replay EXCEPT ![p].pc = "delete"]
      <4>1. PICK k : k = [replay[p] EXCEPT !.pc = "delete"]
          OBVIOUS
      <4>2. k \in Passes /\ k.pc = "delete" /\ k.path = path /\ k.tag = replay[p].tag /\ k.read = c
          BY <1>1, <1>2, <4>1 DEF Passes
      <4>3. replay' = [replay EXCEPT ![p] = k]
          BY <3>2, <4>1 DEF LeadInv, LeadTypes
      <4> QED
          BY <4>2, <4>3
    <3> QED
        BY <1>5, <3>1, <3>2
  <2>2. /\ replay' \in [Replays -> Passes] /\ replay'[p] = k
        /\ \A q \in Replays \ {p} : replay'[q] = replay[q]
      BY <2>1, PassWritten
  <2>3. receipts' \subseteq Lead!Paths /\ Lead!CarriedOver(path)'
      BY <1>2, <1>5 DEF LeadInv, LeadTypes, Lead!CarriedOver
  <2>4. PassOK(p)'
      BY <1>2, <2>1, <2>2, <2>3 DEF PassOK
  <2>5. \A x \in Lead!Paths : /\ blob[x].count \in Nat /\ etag[x] \in Nat
                              /\ x # path => (Lead!CarriedOver(x)' <=> Lead!CarriedOver(x))
      BY <1>5 DEF LeadInv, LeadTypes, Cells, Lead!CarriedOver
  <2>6. \A x \in Leads : leadRow[x].count \in Nat /\ stored[x] \in Nat
      BY DEF LeadInv, LeadTypes, Cells
  <2>7. /\ leadRow' \in [Leads -> Cells] /\ keys' \in [Keys -> Leads \cup {Lead!None}]
        /\ leadRow'[l].count > 0 /\ leadRow'[l].count <= leadRow[l].count + ToCome(path)
        /\ \A x \in Leads \ {l} : leadRow'[x] = leadRow[x]
        /\ \A x \in Leads : leadRow'[x].count >= leadRow[x].count /\ leadRow'[x].count \in Nat
        /\ \A q \in Keys : keys'[q] = keys[q] \/ keys'[q] = l
    <3>1. CASE (Lead!CarriedOver(path) \/ Lead!Receipt(l, c) = "spent") /\ UNCHANGED <<leadRow, keys>>
      <4>1. leadRow[l].count > 0
        <5>1. CASE Lead!CarriedOver(path)
            BY <1>1, <1>2, <5>1 DEF LeadInv, CarriedOK
        <5>2. CASE Lead!Receipt(l, c) = "spent"
            BY <1>2, <5>2 DEF Lead!Receipt, LeadInv, CarriedOK, Cells, Lead!LeadsAssumption
        <5> QED
            BY <3>1, <5>1, <5>2
      <4>2. ToCome(path) \in Nat
          BY <2>5 DEF ToCome
      <4> QED
          BY <1>2, <2>6, <3>1, <4>1, <4>2 DEF LeadInv, LeadTypes
    <3>2. CASE /\ ~Lead!CarriedOver(path) /\ leadRow' = [leadRow EXCEPT ![l] = Lead!Converge(leadRow[l], c)]
               /\ Lead!ClaimKey(l, c)
      <4>1. /\ leadRow' \in [Leads -> Cells] /\ leadRow'[l].count = leadRow[l].count + c.count
            /\ leadRow'[l].count > 0
            /\ \A x \in Leads \ {l} : leadRow'[x] = leadRow[x]
            /\ \A x \in Leads : leadRow'[x].count >= leadRow[x].count
          BY <1>2, <3>2, RowGrows
      <4>2. ToCome(path) = blob[path].count /\ c.count <= blob[path].count
          BY <1>2, <3>2 DEF ToCome
      <4>3. leadRow'[l].count <= leadRow[l].count + ToCome(path)
          BY <1>2, <2>5, <2>6, <4>1, <4>2
      <4>4. \A x \in Leads : leadRow'[x].count \in Nat
          BY <4>1 DEF Cells
      <4>5. keys' \in [Keys -> Leads \cup {Lead!None}] /\ \A q \in Keys : keys'[q] = keys[q] \/ keys'[q] = l
          BY <1>2, <3>2, KeysClaimed
      <4> QED
          BY <4>1, <4>3, <4>4, <4>5
    <3> QED
        BY <1>5, <3>1, <3>2
  <2>8. LeadTypes'
      BY <1>2, <2>2, <2>3, <2>7 DEF LeadInv, LeadTypes
  <2>9. LeadsMove /\ GoneWasRead
      BY <1>2, <1>5, <2>5, <2>7 DEF LeadsMove, GoneWasRead
  <2>10. CarriedOK'
    <3>1. \A x \in Leads : leadRow[x].count > 0 => leadRow'[x].count > 0
        BY <2>6, <2>7
    <3>2. ASSUME NEW x \in Lead!Paths, Lead!CarriedOver(x)' PROVE leadRow'[x[1]].count > 0
      <4>1. CASE x = path
          BY <1>1, <2>7, <4>1
      <4>2. CASE x # path
          BY <2>5, <3>1, <3>2, <4>2, PathsAre DEF LeadInv, CarriedOK
      <4> QED
          BY <4>1, <4>2
    <3>3. ASSUME NEW q \in Keys, keys'[q] # Lead!None PROVE leadRow'[keys'[q]].count > 0
      <4>1. CASE keys'[q] = l
          BY <2>7, <4>1
      <4>2. CASE keys'[q] = keys[q]
          BY <3>1, <3>3, <4>2 DEF LeadInv, LeadTypes, CarriedOK
      <4> QED
          BY <2>7, <4>1, <4>2
    <3> QED
        BY <3>2, <3>3 DEF CarriedOK
  <2>11. ASSUME NEW x \in Leads
         PROVE  leadRow'[x].count + ToCome(<<x, "v2">>)' + ToCome(<<x, "legacy">>)' <= stored[x]
    <3>1. /\ ToCome(<<x, "v2">>) \in Nat /\ ToCome(<<x, "legacy">>) \in Nat
          /\ leadRow[x].count + ToCome(<<x, "v2">>) + ToCome(<<x, "legacy">>) <= stored[x]
        BY <2>5 DEF LeadInv, CountsOK, ToCome
    <3>2. ASSUME NEW y, y # path PROVE ToCome(y)' = ToCome(y)
        BY <1>2, <2>5, <3>2 DEF ToCome
    <3>3. ToCome(path)' = 0
        BY <2>3 DEF ToCome
    <3>4. CASE x # l
      <4>1. <<x, "v2">> # path /\ <<x, "legacy">> # path
          BY <1>1, <3>4
      <4>2. ToCome(<<x, "v2">>)' = ToCome(<<x, "v2">>) /\ ToCome(<<x, "legacy">>)' = ToCome(<<x, "legacy">>)
          BY <3>2, <4>1
      <4> QED
          BY <2>7, <3>1, <3>4, <4>2
    <3>5. CASE x = l
      <4>1. path = <<l, "v2">> \/ path = <<l, "legacy">>
          BY <1>1, <1>2, PathsAre
      <4>2. CASE path = <<l, "v2">>
        <5>1. <<x, "legacy">> # path
            BY <4>2
        <5>2. ToCome(<<x, "legacy">>)' = ToCome(<<x, "legacy">>)
            BY <3>2, <5>1
        <5> QED
            BY <2>6, <2>7, <3>1, <3>3, <3>5, <4>2, <5>2
      <4>3. CASE path = <<l, "legacy">>
        <5>1. <<x, "v2">> # path
            BY <4>3
        <5>2. ToCome(<<x, "v2">>)' = ToCome(<<x, "v2">>)
            BY <3>2, <5>1
        <5> QED
            BY <2>6, <2>7, <3>1, <3>3, <3>5, <4>3, <5>2
      <4> QED
          BY <4>1, <4>2, <4>3
    <3> QED
        BY <3>4, <3>5
  <2>12. CountsOK'
      BY <1>2, <2>11 DEF CountsOK
  <2> QED
      BY <1>2, <2>2, <2>4, <2>8, <2>9, <2>10, <2>12, LeadWrites
<1> QED
    BY <1>1, <1>4, <1>5 DEF Lead!Commit, LeadInv, LeadTypes

LEMMA LeadInit == Lead!LeadsAssumption /\ Lead!Init => LeadInv
<1> SUFFICES ASSUME Lead!LeadsAssumption, Lead!Init PROVE LeadInv
    OBVIOUS
<1>1. Lead!Empty \in Cells /\ Lead!Idle \in Calls /\ Lead!Resting \in Passes /\ Lead!Empty.count = 0
    BY LeadEmpty DEF Lead!Empty
<1>2. ASSUME NEW l PROVE Lead!Old(l) \in Cells /\ Lead!Old(l).count = 1
    BY DEF Lead!Old, Cells
<1>3. ASSUME NEW l \in Leads PROVE stored[l] = IF l \in Legacy THEN 1 ELSE 0
  <2>1. PICK S : S = {x \in Lead!Paths : x = <<l, "legacy">>}
      OBVIOUS
  <2>2. stored[l] = Cardinality(S)
      BY <2>1 DEF Lead!Init, Lead!Cardinality, Cardinality
  <2>3. CASE l \in Legacy
    <3>1. S = {<<l, "legacy">>}
        BY <2>1, <2>3 DEF Lead!Paths
    <3> QED
        BY <2>2, <2>3, <3>1, FS_Singleton
  <2>4. CASE l \notin Legacy
    <3>1. S = {}
        BY <2>1, <2>4 DEF Lead!Paths
    <3> QED
        BY <2>2, <2>4, <3>1, FS_EmptySet
  <2> QED
      BY <2>3, <2>4
<1>4. /\ leadRow \in [Leads -> Cells] /\ blob \in [Lead!Paths -> Cells]
      /\ \A l \in Leads : leadRow[l].count = IF l \in Migrated THEN 1 ELSE 0
      /\ \A x \in Lead!Paths : blob[x].count = IF x[2] = "legacy" THEN 1 ELSE 0
    BY <1>1, <1>2 DEF Lead!Init
<1>5. /\ etag \in [Lead!Paths -> Nat] /\ keys \in [Keys -> Leads \cup {Lead!None}] /\ receipts = {} /\ now \in Nat
      /\ request \in [Requests -> Calls] /\ replay \in [Replays -> Passes] /\ answered = {}
      /\ \A r \in Requests : request[r].pc = "idle"
      /\ \A p \in Replays : replay[p].pc = "idle"
      /\ \A k \in Keys : keys[k] = Lead!None
    BY <1>1 DEF Lead!Init, Lead!Idle, Lead!Resting
<1>6. stored \in [Leads -> Nat]
  <2>1. stored = [l \in Leads |-> stored[l]]
      BY DEF Lead!Init
  <2> QED
      BY <1>3, <2>1
<1>7. CountsOK
  <2> SUFFICES ASSUME NEW l \in Leads
               PROVE  leadRow[l].count + ToCome(<<l, "v2">>) + ToCome(<<l, "legacy">>) <= stored[l]
      BY DEF CountsOK
  <2>1. ToCome(<<l, "v2">>) = 0
      BY <1>4, PathsAre DEF ToCome
  <2>2. <<l, "legacy">> \in Lead!Paths => l \in Legacy
      BY DEF Lead!Paths
  <2>3. ToCome(<<l, "legacy">>) = IF l \in Legacy /\ l \notin Migrated THEN 1 ELSE 0
    <3>1. CASE <<l, "legacy">> \in Lead!Paths
        BY <1>4, <1>5, <2>2, <3>1 DEF ToCome, Lead!CarriedOver
    <3>2. CASE <<l, "legacy">> \notin Lead!Paths
        BY <3>2 DEF ToCome, Lead!Paths
    <3> QED
        BY <3>1, <3>2
  <2> QED
      BY <1>3, <1>4, <2>1, <2>3 DEF Lead!LeadsAssumption
<1>8. CarriedOK
    BY <1>4, <1>5 DEF CarriedOK, Lead!CarriedOver, Lead!LeadsAssumption
<1>9. (\A r \in Requests : CallOK(r)) /\ (\A p \in Replays : PassOK(p))
    BY <1>5 DEF CallOK, PassOK
<1> QED
    BY <1>4, <1>5, <1>6, <1>7, <1>8, <1>9 DEF LeadInv, LeadTypes

LEMMA LeadNext ==
    ASSUME Lead!LeadsAssumption PROVE LeadInv /\ [Lead!Next]_(Lead!vars) => LeadInv' /\ GoneWasRead
    BY LeadTick, LeadArrive, LeadCapture, LeadFallback, LeadConsumeBlob, LeadReadBlob, LeadPutBlob, LeadMail,
       LeadFail, LeadList, LeadReadListed, LeadCommit, LeadDelete, LeadStop
    DEF Lead!Next

\* What the two lead routes and the replay promise, for any number of calls,
\* retries, overlapping replays, lost answers and outages: whoever was told ok is
\* in the database or in a Blob, nothing is counted twice, and a Blob goes only
\* as it was replayed (captureDownloadLeadInPostgres, the deterministic fallback
\* and createDownloadLeadReplayHandler).
THEOREM LeadsKept ==
    ASSUME Lead!LeadsAssumption
    PROVE  Lead!Spec => [](Lead!AcceptedIsKept /\ Lead!CountedOnce) /\ Lead!DeletedWasRead
<1>1. LeadInv => Lead!AcceptedIsKept
    BY DEF LeadInv, Kept, Lead!AcceptedIsKept
<1>2. LeadInv => Lead!CountedOnce
  <2> SUFFICES ASSUME LeadInv, NEW l \in Leads PROVE leadRow[l].count <= stored[l]
      BY DEF Lead!CountedOnce
  <2>1. /\ leadRow[l].count \in Nat /\ ToCome(<<l, "v2">>) \in Nat /\ ToCome(<<l, "legacy">>) \in Nat
        /\ leadRow[l].count + ToCome(<<l, "v2">>) + ToCome(<<l, "legacy">>) <= stored[l] /\ stored[l] \in Nat
      BY DEF LeadInv, LeadTypes, Cells, CountsOK, ToCome
  <2> QED
      BY <2>1
<1>3. LeadInv /\ [Lead!Next]_(Lead!vars) =>
        [\A path \in DOMAIN blob :
            blob[path].count > 0 /\ blob'[path].count = 0
                => \E p \in DOMAIN replay :
                     replay[p].pc = "delete" /\ replay[p].path = path /\ replay[p].read = blob[path]]_(Lead!vars)
    BY LeadNext DEF LeadInv, LeadTypes, GoneWasRead
<1> QED
    BY <1>1, <1>2, <1>3, LeadInit, LeadNext, PTL DEF Lead!Spec, Lead!DeletedWasRead
=============================================================================

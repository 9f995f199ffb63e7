-------------------------- MODULE SupportDeskProofs --------------------------
(***************************************************************************)
(* Proofs about SupportDesk, for any number of messages, workers, auditors, *)
(* attempts and claims.  Work that is done left its trace before the row is *)
(* settled, an action is where its gates put it, and the log names a        *)
(* delivery only beside a delivered row.                                    *)
(***************************************************************************)
EXTENDS SupportDesk, TLAPS

\* A worker that is done left the verdict or the mail behind.
WorkIsDone ==
    \A w \in Workers : held[w].stage = "done" =>
        /\ \A m \in Messages : held[w].item = <<"job", m>> => gate[m]["triage"] # "none"
        /\ held[w].item \in Alerts => held[w].item \in mailed

\* An action exists from the first verdict on, and its status tells the second.
ActionsFollowGates ==
    \A m \in Messages :
        /\ action[m].status = "absent" <=> gate[m]["triage"] = "none"
        /\ action[m].status \in {"audit_passed", "audit_flagged"}
             <=> gate[m]["safety_audit"] # "none"
        /\ action[m].status # "absent" => thread[m] # "absent"

\* Only what passed the first gate is audited.
AuditsHaveActions ==
    \A a \in Auditors : audit[a].stage # "idle" =>
        action[audit[a].message].status \notin {"absent", "triage_flagged"}

\* The log and the outbox agree about deliveries.
LogIsTrue ==
    \A i \in Alerts :
        /\ \A n \in 0..MaxClaims : <<i, n, "delivered">> \in log =>
             row[i].state = "delivered" /\ row[i].attempts = n
        /\ row[i].state = "delivered" =>
             i \in mailed /\ <<i, row[i].attempts, "delivered">> \in log

IInv ==
    /\ TypeOK
    /\ WorkIsDone
    /\ ActionsFollowGates
    /\ AuditsHaveActions
    /\ LogIsTrue
    /\ CompletedIsTriaged
    /\ StopsAreAlerted
    /\ NothingPassesUnreviewed

RowsOK(t) == t \in [Items -> RowType] /\ \A i \in Items : t[i].cycle <= t[i].attempts
DueOK(d, t) == d \subseteq {i \in Items : t[i].state \in Open}

\* One row may change; the others stay.
OnlyRow(i) == \A j \in Items : j # i => row'[j] = row[j]

ClaimType == [item : Items \cup {<<>>}, attempt : 0..MaxClaims,
              cycle : 0..MaxClaims, stage : {"idle", "claimed", "done", "failed"}]

AuditOutcome == [verdict : {"pass", "flag", "error"}, human : BOOLEAN]

-----------------------------------------------------------------------------
\* Jobs and alerts are different rows.
LEMMA ItemFacts ==
    /\ \A m \in Messages : /\ <<"job", m>> \in Jobs /\ <<"job", m>> \in Items
                           /\ <<"job", m>> \notin Alerts
    /\ \A s \in {"triage", "safety_audit", "dead"}, m \in Messages :
         /\ <<s, m>> \in Alerts /\ <<s, m>> \in Items
         /\ \A n \in Messages : <<s, m>> # <<"job", n>>
    /\ \A i \in Jobs : i \in Items /\ i \notin Alerts /\ i[2] \in Messages /\ i = <<"job", i[2]>>
    /\ \A i \in Alerts : i \in Items /\ i \notin Jobs
    /\ \A i \in Items : i \in Jobs \/ i \in Alerts
    /\ <<>> \notin Items
    BY DEF Jobs, Alerts, Items

LEMMA PendingFacts ==
    ASSUME SupportAssumption
    PROVE  /\ NoRow \in RowType /\ Pending \in RowType
           /\ Pending.state = "pending" /\ Pending.cycle <= Pending.attempts
           /\ NoRow.state = "absent" /\ NoRow.cycle <= NoRow.attempts
    BY DEF SupportAssumption, NoRow, Pending, RowType, Open, Done

\* What an alert row adds, to any table it is put into.
LEMMA AlertedFacts ==
    ASSUME SupportAssumption, NEW t, RowsOK(t), NEW i \in Items
    PROVE  /\ RowsOK(Alerted(t, i))
           /\ Alerted(t, i)[i].state # "absent"
           /\ \A j \in Items : j # i => Alerted(t, i)[j] = t[j]
           /\ t[i].state # "absent" => Alerted(t, i)[i] = t[i]
           /\ t[i].state = "absent" => Alerted(t, i)[i] = Pending
    BY PendingFacts DEF RowsOK, Alerted, RowType

LEMMA InitInv == ASSUME SupportAssumption, Init PROVE IInv
<1>1. TypeOK
  <2>1. NoEmail \in EmailType
      BY DEF NoEmail, EmailType
  <2>2. row \in [Items -> RowType] /\ \A i \in Items : row[i].cycle <= row[i].attempts
      BY PendingFacts DEF Init
  <2>3. NoClaim \in ClaimType /\ NoClaim.stage = "idle"
      BY DEF NoClaim, ClaimType, SupportAssumption
  <2>4. held \in [Workers -> ClaimType] /\ \A w \in Workers : held[w].stage = "idle"
      BY <2>3 DEF Init
  <2> QED
      BY <2>1, <2>2, <2>4 DEF Init, TypeOK, NoAudit, NoAction, ActionTypes, ClaimType
<1>2. \A i \in Items : row[i].state = "absent"
    BY DEF Init, NoRow
<1>3. WorkIsDone
    BY DEF Init, WorkIsDone, NoClaim
<1>4. ActionsFollowGates /\ AuditsHaveActions /\ NothingPassesUnreviewed
    BY DEF Init, ActionsFollowGates, AuditsHaveActions, NothingPassesUnreviewed, NoAction, NoAudit
<1>5. LogIsTrue /\ CompletedIsTriaged
    BY <1>2, ItemFacts DEF Init, LogIsTrue, CompletedIsTriaged
<1>6. StopsAreAlerted
    BY <1>2, ItemFacts DEF Init, StopsAreAlerted
<1> QED
    BY <1>1, <1>3, <1>4, <1>5, <1>6 DEF IInv

-----------------------------------------------------------------------------
\* A worker moves on with its claim, takes one, or puts it down.
LEMMA StageFacts ==
    ASSUME TypeOK, NEW w \in Workers, held[w].stage # "idle",
           NEW s \in {"claimed", "done", "failed"}, held' = [held EXCEPT ![w].stage = s]
    PROVE  /\ held' \in [Workers -> ClaimType]
           /\ \A x \in Workers : held'[x].stage = "idle" \/ held'[x].item \in Items
           /\ held'[w].stage = s /\ held'[w].item = held[w].item
           /\ \A x \in Workers : x # w => held'[x] = held[x]
<1>1. held' = [held EXCEPT ![w] = [held[w] EXCEPT !.stage = s]]
    BY DEF TypeOK
<1>2. [held[w] EXCEPT !.stage = s] \in ClaimType
  <2>1. held[w] \in ClaimType
      BY DEF TypeOK, ClaimType
  <2> QED
      BY <2>1 DEF ClaimType
<1>3. held' \in [Workers -> ClaimType]
    BY <1>1, <1>2 DEF TypeOK, ClaimType
<1>4. held'[w].stage = s /\ held'[w].item = held[w].item
    BY <1>1 DEF TypeOK
<1>5. \A x \in Workers : x # w => held'[x] = held[x]
    BY <1>1 DEF TypeOK
<1> QED
    BY <1>3, <1>4, <1>5 DEF TypeOK

LEMMA HeldFacts ==
    ASSUME SupportAssumption, TypeOK, NEW w \in Workers,
           NEW c \in ClaimType, c.stage = "idle" \/ c.item \in Items,
           held' = [held EXCEPT ![w] = c]
    PROVE  /\ held' \in [Workers -> ClaimType]
           /\ \A x \in Workers : held'[x].stage = "idle" \/ held'[x].item \in Items
           /\ held'[w] = c
           /\ \A x \in Workers : x # w => held'[x] = held[x]
    BY DEF TypeOK, ClaimType

LEMMA NoClaimFacts ==
    SupportAssumption => NoClaim \in ClaimType /\ NoClaim.stage = "idle"
    BY DEF SupportAssumption, NoClaim, ClaimType

\* A change of rows that finishes nothing and buries no job.
Quiet ==
    \A i \in Items :
        /\ row[i].state # "absent" => row'[i].state # "absent"
        /\ row[i].state = "delivered" => row'[i] = row[i]
        /\ row'[i].state \in {"delivered", "completed"} => row'[i].state = row[i].state
        /\ i \in Jobs /\ row'[i].state = "dead_letter" => row[i].state = "dead_letter"

LEMMA QuietLog ==
    ASSUME LogIsTrue, Quiet, log' = log, mailed \subseteq mailed'
    PROVE  LogIsTrue'
<1>1. \A i \in Alerts : (row[i].state = "delivered" \/ row'[i].state = "delivered")
                           => row'[i] = row[i]
    BY ItemFacts DEF Quiet
<1> QED
    BY <1>1 DEF LogIsTrue

LEMMA QuietRows ==
    ASSUME LogIsTrue, CompletedIsTriaged, StopsAreAlerted, Quiet,
           gate' = gate, log' = log, mailed \subseteq mailed'
    PROVE  LogIsTrue' /\ CompletedIsTriaged' /\ StopsAreAlerted'
<1>1. CompletedIsTriaged'
    BY ItemFacts DEF Quiet, CompletedIsTriaged
<1>2. StopsAreAlerted'
    BY ItemFacts DEF Quiet, StopsAreAlerted
<1> QED
    BY <1>1, <1>2, QuietLog

LEMMA ReceiveInv ==
    ASSUME SupportAssumption, IInv, NEW m \in Messages, NEW e \in Emails, Receive(m, e)
    PROVE  IInv'
<1> DEFINE job == <<"job", m>>
<1>1. /\ job \in Items
      /\ UNCHANGED <<held, action, gate, audit, mailed, log>>
    BY ItemFacts DEF Receive
<1>2. /\ email' \in [Messages -> EmailType]
      /\ thread' \in [Messages -> {"absent", "received", "triage_passed",
                     "triage_flagged", "audit_passed", "audit_flagged", "human_review"}]
      /\ \A n \in Messages : thread[n] # "absent" =>
            thread'[n] # "absent" /\ email'[n] = email[n]
  <2>1. CASE thread[m] # "absent"
    <3>1. email' = email /\ thread' = thread
        BY <2>1 DEF Receive, RecordMessage
    <3> QED
        BY <3>1 DEF IInv, TypeOK
  <2>2. CASE thread[m] = "absent"
    <3>1. email' = [email EXCEPT ![m] = e] /\ thread' = [thread EXCEPT ![m] = "received"]
        BY <2>2 DEF Receive, RecordMessage
    <3>2. e \in EmailType
        BY DEF SupportAssumption
    <3> QED
        BY <2>2, <3>1, <3>2 DEF IInv, TypeOK
  <2> QED
      BY <2>1, <2>2
<1>3. RowsOK(row') /\ DueOK(due', row') /\ Quiet
  <2>1. CASE row[job].state # "absent"
    <3>1. row' = row /\ due' = due
        BY <2>1 DEF Receive, RecordMessage, EnsureJob
    <3> QED
        BY <3>1 DEF IInv, TypeOK, RowsOK, DueOK, Quiet
  <2>2. CASE row[job].state = "absent"
    <3>1. row' = [row EXCEPT ![job] = Pending] /\ due' = due \cup {job}
        BY <2>2 DEF Receive, RecordMessage, EnsureJob
    <3> HIDE DEF job
    <3>2. row \in [Items -> RowType] /\ \A i \in Items : row[i].cycle <= row[i].attempts
        BY DEF IInv, TypeOK
    <3>3. /\ row'[job] = Pending
          /\ \A i \in Items : i # job => row'[i] = row[i]
        BY <1>1, <3>1, <3>2
    <3>4. RowsOK(row')
        BY <1>1, <3>1, <3>2, <3>3, PendingFacts DEF RowsOK
    <3>5. DueOK(due', row')
        BY <1>1, <3>1, <3>3, PendingFacts DEF DueOK, Open, IInv, TypeOK
    <3>6. Quiet
        BY <2>2, <3>3, PendingFacts DEF Quiet
    <3> QED
        BY <3>4, <3>5, <3>6
  <2> QED
      BY <2>1, <2>2
<1>4. TypeOK'
    BY <1>1, <1>2, <1>3 DEF IInv, TypeOK, RowsOK, DueOK
<1>5. LogIsTrue' /\ CompletedIsTriaged' /\ StopsAreAlerted'
    BY <1>1, <1>3, QuietRows DEF IInv
<1>6. NothingPassesUnreviewed' /\ ActionsFollowGates'
    BY <1>1, <1>2 DEF IInv, NothingPassesUnreviewed, ActionsFollowGates
<1> QED
    BY <1>1, <1>4, <1>5, <1>6 DEF IInv, WorkIsDone, AuditsHaveActions

\* Of the gates, the audits, the mail and the log nothing moves.
LEMMA QueueInv ==
    ASSUME IInv, RowsOK(row'), DueOK(due', row'), Quiet,
           UNCHANGED <<email, thread, held, action, gate, audit, mailed, log>>
    PROVE  IInv'
<1>1. TypeOK'
    BY DEF IInv, TypeOK, RowsOK, DueOK
<1>2. LogIsTrue' /\ CompletedIsTriaged' /\ StopsAreAlerted'
    BY QuietRows DEF IInv
<1> QED
    BY <1>1, <1>2 DEF IInv, WorkIsDone, ActionsFollowGates, AuditsHaveActions,
                      NothingPassesUnreviewed

LEMMA ComesDueInv == ASSUME IInv, NEW i \in Items, ComesDue(i) PROVE IInv'
<1>1. RowsOK(row') /\ DueOK(due', row') /\ Quiet
    BY DEF ComesDue, IInv, TypeOK, RowsOK, DueOK, Quiet, Open
<1> QED
    BY <1>1, QueueInv DEF ComesDue

LEMMA RecoverInv ==
    ASSUME SupportAssumption, IInv, NEW i \in Items, Recover(i) PROVE IInv'
<1> DEFINE r == [row[i] EXCEPT !.state = "pending", !.cycle = 0, !.recovered = @ + 1]
<1>1. row[i] \in RowType /\ row[i].state = "dead_letter" /\ row[i].recovered < MaxRecover
    BY DEF Recover, IInv, TypeOK
<1>2. r \in RowType /\ r.state = "pending" /\ r.cycle <= r.attempts
  <2>1. /\ 0 \in 0..MaxClaims /\ row[i].recovered + 1 \in 0..MaxRecover
        /\ 0 <= row[i].attempts
      BY <1>1 DEF RowType, SupportAssumption
  <2> QED
      BY <1>1, <2>1 DEF RowType, Open
<1>3. row' = [row EXCEPT ![i] = r] /\ due' = due \cup {i}
    BY DEF Recover, IInv, TypeOK
<1> HIDE DEF r
<1>4. row'[i] = r /\ \A j \in Items : j # i => row'[j] = row[j]
    BY <1>3 DEF IInv, TypeOK
<1>5. RowsOK(row')
    BY <1>2, <1>3, <1>4 DEF RowsOK, IInv, TypeOK
<1>6. DueOK(due', row')
    BY <1>2, <1>3, <1>4 DEF DueOK, IInv, TypeOK, Open
<1>7. Quiet
    BY <1>1, <1>2, <1>4 DEF Quiet
<1> QED
    BY <1>5, <1>6, <1>7, QueueInv DEF Recover, verdicts

LEMMA ClaimRowInv ==
    ASSUME SupportAssumption, IInv, NEW w \in Workers, NEW i \in Items, ClaimRow(w, i)
    PROVE  IInv'
<1> DEFINE r == [row[i] EXCEPT !.state = "processing", !.attempts = @ + 1, !.cycle = @ + 1]
           c == [item |-> i, attempt |-> row[i].attempts + 1,
                 cycle |-> row[i].cycle + 1, stage |-> "claimed"]
<1>1. /\ row[i] \in RowType /\ row[i].state \in Open
      /\ row[i].attempts < MaxClaims /\ row[i].cycle <= row[i].attempts
    BY DEF ClaimRow, Claimable, IInv, TypeOK
<1>2. /\ row[i].attempts + 1 \in 0..MaxClaims /\ row[i].cycle + 1 \in 0..MaxClaims
      /\ row[i].cycle + 1 <= row[i].attempts + 1
    BY <1>1 DEF RowType, SupportAssumption
<1>3. c \in ClaimType /\ c.stage = "claimed" /\ c.item \in Items
    BY <1>2 DEF ClaimType
<1>4. r \in RowType /\ r.state = "processing" /\ r.cycle <= r.attempts
    BY <1>1, <1>2 DEF RowType, Open
<1>5. row' = [row EXCEPT ![i] = r] /\ due' = due \ {i} /\ held' = [held EXCEPT ![w] = c]
    BY DEF ClaimRow, IInv, TypeOK
<1>6. UNCHANGED <<email, thread, action, gate, audit, mailed, log>>
    BY DEF ClaimRow, verdicts
<1> HIDE DEF r, c
<1>7. row'[i] = r /\ \A j \in Items : j # i => row'[j] = row[j]
    BY <1>5 DEF IInv, TypeOK
<1>8. RowsOK(row') /\ DueOK(due', row')
    BY <1>4, <1>5, <1>7 DEF RowsOK, DueOK, IInv, TypeOK
<1>9. Quiet
    BY <1>1, <1>4, <1>7 DEF Quiet, Open
<1>10. /\ held' \in [Workers -> ClaimType]
       /\ \A x \in Workers : held'[x].stage = "idle" \/ held'[x].item \in Items
       /\ held'[w] = c
       /\ \A x \in Workers : x # w => held'[x] = held[x]
    BY <1>3, <1>5, HeldFacts DEF IInv
<1>11. TypeOK'
    BY <1>6, <1>8, <1>10 DEF IInv, TypeOK, RowsOK, DueOK, ClaimType
<1>12. LogIsTrue' /\ CompletedIsTriaged' /\ StopsAreAlerted'
    BY <1>6, <1>9, QuietRows DEF IInv
<1>13. WorkIsDone'
    BY <1>3, <1>6, <1>10 DEF IInv, WorkIsDone
<1> QED
    BY <1>6, <1>11, <1>12, <1>13 DEF IInv, ActionsFollowGates, AuditsHaveActions,
                                     NothingPassesUnreviewed

\* A worker moves on, the work it leaves behind being there.
LEMMA WorkMoves ==
    ASSUME WorkIsDone, NEW w \in Workers, mailed \subseteq mailed',
           \A m \in Messages : gate[m]["triage"] # "none" => gate'[m]["triage"] # "none",
           \A x \in Workers : x # w => held'[x] = held[x],
           held'[w].stage = "done" =>
             /\ \A m \in Messages : held'[w].item = <<"job", m>> => gate'[m]["triage"] # "none"
             /\ held'[w].item \in Alerts => held'[w].item \in mailed'
    PROVE  WorkIsDone'
<1> SUFFICES ASSUME NEW x \in Workers, held'[x].stage = "done"
             PROVE  /\ \A m \in Messages : held'[x].item = <<"job", m>> => gate'[m]["triage"] # "none"
                    /\ held'[x].item \in Alerts => held'[x].item \in mailed'
    BY DEF WorkIsDone
<1>1. CASE x = w
    BY <1>1
<1>2. CASE x # w
    BY <1>2 DEF WorkIsDone
<1> QED
    BY <1>1, <1>2

\* Only the worker's own claim moves.
LEMMA HeldInv ==
    ASSUME IInv, NEW w \in Workers,
           held' \in [Workers -> ClaimType],
           \A x \in Workers : held'[x].stage = "idle" \/ held'[x].item \in Items,
           \A x \in Workers : x # w => held'[x] = held[x],
           held'[w].stage # "done",
           UNCHANGED <<email, thread, row, due, action, gate, audit, mailed, log>>
    PROVE  IInv'
<1>1. TypeOK'
    BY DEF IInv, TypeOK, ClaimType
<1>2. WorkIsDone'
    BY WorkMoves DEF IInv
<1> QED
    BY <1>1, <1>2 DEF IInv, ActionsFollowGates, AuditsHaveActions, LogIsTrue,
                      CompletedIsTriaged, StopsAreAlerted, NothingPassesUnreviewed

LEMMA ThrowInv == ASSUME IInv, NEW w \in Workers, Throw(w) PROVE IInv'
<1>1. /\ held' \in [Workers -> ClaimType]
      /\ \A x \in Workers : held'[x].stage = "idle" \/ held'[x].item \in Items
      /\ held'[w].stage = "failed"
      /\ \A x \in Workers : x # w => held'[x] = held[x]
    BY StageFacts DEF Throw, IInv
<1> QED
    BY <1>1, HeldInv DEF Throw, verdicts

LEMMA DieInv ==
    ASSUME SupportAssumption, IInv, NEW w \in Workers, Die(w) PROVE IInv'
<1>1. /\ held' \in [Workers -> ClaimType]
      /\ \A x \in Workers : held'[x].stage = "idle" \/ held'[x].item \in Items
      /\ held'[w] = NoClaim
      /\ \A x \in Workers : x # w => held'[x] = held[x]
    BY HeldFacts, NoClaimFacts DEF Die, IInv
<1> QED
    BY <1>1, NoClaimFacts, HeldInv DEF Die, verdicts

LEMMA SendAlertInv == ASSUME IInv, NEW w \in Workers, SendAlert(w) PROVE IInv'
<1>1. /\ held[w].stage = "claimed" /\ held[w].item \in Alerts
      /\ mailed' = mailed \cup {held[w].item}
      /\ UNCHANGED <<email, thread, row, due, action, gate, audit, log>>
    BY DEF SendAlert, verdicts
<1>2. /\ held' \in [Workers -> ClaimType]
      /\ \A x \in Workers : held'[x].stage = "idle" \/ held'[x].item \in Items
      /\ held'[w].item = held[w].item
      /\ \A x \in Workers : x # w => held'[x] = held[x]
    BY <1>1, StageFacts DEF SendAlert, Advance, IInv
<1>3. TypeOK'
    BY <1>1, <1>2 DEF IInv, TypeOK, ClaimType
<1>4. WorkIsDone'
  <2>1. \A m \in Messages : held'[w].item # <<"job", m>>
    <3>1. PICK k \in {"triage", "safety_audit", "dead"}, n \in Messages : held[w].item = <<k, n>>
        BY <1>1 DEF Alerts
    <3> QED
        BY <1>2, <3>1
  <2>2. held'[w].item \in mailed' /\ mailed \subseteq mailed' /\ gate' = gate
      BY <1>1, <1>2
  <2> QED
      BY <1>2, <2>1, <2>2, WorkMoves DEF IInv
<1>5. LogIsTrue'
    BY <1>1 DEF IInv, LogIsTrue
<1> QED
    BY <1>1, <1>3, <1>4, <1>5 DEF IInv, ActionsFollowGates, AuditsHaveActions,
                      CompletedIsTriaged, StopsAreAlerted, NothingPassesUnreviewed

\* What the first gate may answer, and that passing it needs no person.
LEMMA TriageFacts ==
    ASSUME SupportAssumption, NEW e \in EmailType, NEW o,
           o \in {GateError} \cup {Triage(e, a) : a \in Answers}
    PROVE  /\ o.verdict \in {"pass", "flag", "error"} /\ o.type \in ActionTypes
           /\ o.human \in BOOLEAN
           /\ o.verdict = "pass" => ~e.injected /\ ~e.systematic /\ ~o.human
<1>1. CASE o = GateError
    BY <1>1 DEF GateError, ActionTypes
<1>2. ASSUME NEW a \in Answers, o = Triage(e, a)
      PROVE  /\ o.verdict \in {"pass", "flag", "error"} /\ o.type \in ActionTypes
             /\ o.human \in BOOLEAN
             /\ o.verdict = "pass" => ~e.injected /\ ~e.systematic /\ ~o.human
  <2>1. /\ a.verdict \in {"pass", "flag"} /\ a.action \in ActionTypes
        /\ a.risk \in BOOLEAN /\ a.systematic \in BOOLEAN /\ a.human \in BOOLEAN
      BY DEF SupportAssumption, AnswerType
  <2>2. e.injected \in BOOLEAN /\ e.systematic \in BOOLEAN
      BY DEF EmailType
  <2>3. CASE e.injected \/ e.systematic
    <3>1. o = [verdict |-> "flag", type |-> "none", human |-> TRUE]
        BY <1>2, <2>3 DEF Triage
    <3> QED
        BY <3>1 DEF ActionTypes
  <2>4. CASE ~(e.injected \/ e.systematic)
    <3> DEFINE must == a.risk \/ a.systematic \/ a.human
    <3>1. o = [verdict |-> IF must THEN "flag" ELSE a.verdict, type |-> a.action,
               human |-> a.human \/ (must /\ a.verdict = "pass")]
        BY <1>2, <2>4 DEF Triage
    <3>2. a.human => must
        OBVIOUS
    <3> HIDE DEF must
    <3>3. CASE must
        BY <2>1, <3>1, <3>3
    <3>4. CASE ~must
        BY <2>1, <2>4, <3>1, <3>2, <3>4
    <3> QED
        BY <3>3, <3>4
  <2> QED
      BY <2>3, <2>4
<1> QED
    BY <1>1, <1>2

LEMMA JudgeFacts ==
    ASSUME SupportAssumption, NEW x, NEW t, NEW p \in Opinions
    PROVE  /\ Judge(x, t, p) \in AuditOutcome
           /\ Judge(x, t, p).verdict = "pass" => ~Judge(x, t, p).human
<1>1. p.verdict \in {"pass", "flag"} /\ p.core \in BOOLEAN /\ p.human \in BOOLEAN
    BY DEF SupportAssumption, OpinionType
<1> DEFINE flags == ~ValidArtifact(x) \/ RiskCodes(x, t) # {}
<1>2. Judge(x, t, p) = IF flags THEN [verdict |-> "flag", human |-> TRUE]
        ELSE [verdict |-> IF p.core \/ p.human THEN "flag" ELSE p.verdict,
              human |-> p.human \/ ((p.core \/ p.human) /\ p.verdict = "pass")]
    BY DEF Judge
<1> HIDE DEF flags
<1>3. CASE flags
    BY <1>2, <1>3 DEF AuditOutcome
<1>4. CASE ~flags
    BY <1>1, <1>2, <1>4 DEF AuditOutcome
<1> QED
    BY <1>3, <1>4

\* The first outcome moves the job's worker on; an earlier one lets it pass.
LEMMA TriageMessageInv ==
    ASSUME SupportAssumption, IInv, NEW w \in Workers, TriageMessage(w) PROVE IInv'
<1> DEFINE m == held[w].item[2]
           alert == <<"triage", m>>
<1>1. /\ held[w].stage = "claimed" /\ held[w].item = <<"job", m>> /\ m \in Messages
      /\ UNCHANGED <<email, audit, mailed, log>>
    BY ItemFacts DEF TriageMessage
<1>2. PICK o \in {GateError} \cup {Triage(email[m], a) : a \in Answers} : StoreTriage(m, o)
    BY DEF TriageMessage
<1> HIDE DEF m
<1>3. /\ o.verdict \in {"pass", "flag", "error"} /\ o.type \in ActionTypes
      /\ o.human \in BOOLEAN
      /\ o.verdict = "pass" => ~email[m].injected /\ ~email[m].systematic /\ ~o.human
  <2>1. email[m] \in EmailType
      BY <1>1 DEF IInv, TypeOK
  <2> QED
      BY <2>1, TriageFacts
<1>4. /\ alert \in Alerts /\ alert \in Items
      /\ \A n \in Messages : alert # <<"job", n>> /\ (n # m => alert # <<"triage", n>>)
                             /\ alert # <<"safety_audit", n>> /\ alert # <<"dead", n>>
    BY <1>1, ItemFacts
<1>5. /\ held' \in [Workers -> ClaimType]
      /\ \A x \in Workers : held'[x].stage = "idle" \/ held'[x].item \in Items
      /\ held'[w].item = held[w].item
      /\ \A x \in Workers : x # w => held'[x] = held[x]
    BY <1>1, StageFacts DEF TriageMessage, Advance, IInv
<1>6. CASE TriageStored(m)
  <2>1. UNCHANGED <<thread, action, gate, row, due>>
      BY <1>2, <1>6 DEF StoreTriage
  <2>2. gate[m]["triage"] # "none"
      BY <1>1, <1>6 DEF IInv, ActionsFollowGates, TriageStored
  <2>3. TypeOK'
      BY <1>1, <1>5, <2>1 DEF IInv, TypeOK, ClaimType
  <2>4. WorkIsDone'
    <3>1. /\ \A n \in Messages : held'[w].item = <<"job", n>> => gate'[n]["triage"] # "none"
          /\ held'[w].item \notin Alerts
      <4>1. \A n \in Messages : held'[w].item = <<"job", n>> => n = m
          BY <1>1, <1>5
      <4> QED
          BY <1>1, <1>5, <2>1, <2>2, <4>1, ItemFacts
    <3> QED
        BY <1>1, <1>5, <2>1, <3>1, WorkMoves DEF IInv
  <2> QED
      BY <1>1, <2>1, <2>3, <2>4 DEF IInv, ActionsFollowGates, AuditsHaveActions, LogIsTrue,
                        CompletedIsTriaged, StopsAreAlerted, NothingPassesUnreviewed
<1>7. CASE ~TriageStored(m)
  <2> DEFINE flagged == o.verdict # "pass"
             stored == [status |-> IF flagged THEN "triage_flagged" ELSE "proposed",
                        type |-> o.type, human |-> o.human]
  <2>1. /\ gate' = [gate EXCEPT ![m]["triage"] = o.verdict]
        /\ action' = [action EXCEPT ![m] = stored]
        /\ thread' = [thread EXCEPT ![m] = IF flagged THEN "triage_flagged" ELSE "triage_passed"]
        /\ flagged => row' = Alerted(row, alert) /\ due' = AlertDue(alert)
        /\ ~flagged => UNCHANGED <<row, due>>
      BY <1>2, <1>7 DEF StoreTriage
  <2>2. action[m].status = "absent" /\ gate[m]["triage"] = "none"
        /\ gate[m]["safety_audit"] = "none"
      BY <1>1, <1>7 DEF TriageStored, IInv, ActionsFollowGates
  <2>3. /\ gate' \in [Messages -> [{"triage", "safety_audit"} -> {"none", "pass", "flag", "error"}]]
        /\ gate'[m]["triage"] = o.verdict /\ gate'[m]["safety_audit"] = "none"
        /\ \A n \in Messages : n # m => gate'[n] = gate[n]
      BY <1>1, <1>3, <2>1, <2>2 DEF IInv, TypeOK
  <2>4. /\ action'[m] = stored
        /\ \A n \in Messages : n # m => action'[n] = action[n]
        /\ thread'[m] \in {"triage_flagged", "triage_passed"}
        /\ \A n \in Messages : n # m => thread'[n] = thread[n]
      BY <1>1, <2>1 DEF IInv, TypeOK
  <2>5. /\ stored.status \in {"triage_flagged", "proposed"}
        /\ stored.status = "proposed" => ~flagged /\ ~stored.human
        /\ stored.type \in ActionTypes /\ stored.human \in BOOLEAN
        /\ stored \in [status : {"absent", "proposed", "triage_flagged",
                          "audit_pending", "audit_passed", "audit_flagged"},
                       type : ActionTypes, human : BOOLEAN]
      BY <1>3
  <2> HIDE DEF stored
  <2>6. /\ RowsOK(row') /\ DueOK(due', row') /\ Quiet
        /\ flagged => row'[alert].state # "absent"
    <3>1. CASE flagged
      <4>1. /\ RowsOK(row') /\ row'[alert].state # "absent"
            /\ \A j \in Items : j # alert => row'[j] = row[j]
            /\ row[alert].state # "absent" => row'[alert] = row[alert]
            /\ row[alert].state = "absent" => row'[alert] = Pending
        <5>1. RowsOK(row)
            BY DEF IInv, TypeOK, RowsOK
        <5> HIDE DEF alert
        <5>2. row' = Alerted(row, alert) /\ alert \in Items
            BY <1>4, <2>1, <3>1
        <5> QED
            BY <5>1, <5>2, AlertedFacts
      <4>2. due' = IF row[alert].state = "absent" THEN due \cup {alert} ELSE due
          BY <2>1, <3>1 DEF AlertDue
      <4> HIDE DEF alert
      <4>3. DueOK(due', row')
          BY <1>4, <4>1, <4>2, PendingFacts DEF DueOK, IInv, TypeOK, Open
      <4>4. Quiet
          BY <4>1, PendingFacts DEF Quiet
      <4> QED
          BY <4>1, <4>3, <4>4
    <3>2. CASE ~flagged
        BY <2>1, <3>2 DEF IInv, TypeOK, RowsOK, DueOK, Quiet
    <3> QED
        BY <3>1, <3>2
  <2> HIDE DEF alert
  <2>7. TypeOK'
    <3>1. /\ thread' \in [Messages -> {"absent", "received", "triage_passed",
                     "triage_flagged", "audit_passed", "audit_flagged", "human_review"}]
          /\ action' \in [Messages -> [status : {"absent", "proposed", "triage_flagged",
                     "audit_pending", "audit_passed", "audit_flagged"},
                                type : ActionTypes, human : BOOLEAN]]
        BY <1>1, <2>1, <2>5 DEF IInv, TypeOK
    <3> QED
        BY <1>1, <1>5, <2>3, <2>6, <3>1 DEF IInv, TypeOK, RowsOK, DueOK, ClaimType
  <2>8. WorkIsDone'
    <3>1. /\ \A n \in Messages : held'[w].item = <<"job", n>> => gate'[n]["triage"] # "none"
          /\ held'[w].item \notin Alerts
      <4>1. \A n \in Messages : held'[w].item = <<"job", n>> => n = m
          BY <1>1, <1>5
      <4> QED
          BY <1>1, <1>3, <1>5, <2>3, <4>1, ItemFacts
    <3>2. \A n \in Messages : gate[n]["triage"] # "none" => gate'[n]["triage"] # "none"
        BY <2>2, <2>3
    <3> QED
        BY <1>1, <1>5, <3>1, <3>2, WorkMoves DEF IInv
  <2>9. ActionsFollowGates'
      BY <1>3, <2>2, <2>3, <2>4, <2>5 DEF IInv, ActionsFollowGates
  <2>10. AuditsHaveActions'
      BY <1>1, <2>2, <2>4 DEF IInv, AuditsHaveActions, TypeOK, NoAudit
  <2>11. NothingPassesUnreviewed'
      BY <1>1, <1>3, <2>2, <2>3, <2>4, <2>5 DEF IInv, NothingPassesUnreviewed
  <2>12. LogIsTrue'
      BY <1>1, <2>6, QuietLog DEF IInv
  <2>13. CompletedIsTriaged'
      BY <2>2, <2>3, <2>6, ItemFacts DEF IInv, CompletedIsTriaged, Quiet
  <2>14. StopsAreAlerted'
    <3>1. \A n \in Messages : n # m => gate'[n] = gate[n]
        BY <2>3
    <3>2. gate'[m]["triage"] \in {"flag", "error"} => row'[<<"triage", m>>].state # "absent"
        BY <1>3, <2>3, <2>6 DEF alert
    <3> QED
        BY <2>3, <2>6, <3>1, <3>2, ItemFacts DEF IInv, StopsAreAlerted, Quiet
  <2> QED
      BY <2>7, <2>8, <2>9, <2>10, <2>11, <2>12, <2>13, <2>14 DEF IInv
<1> QED
    BY <1>6, <1>7

\* A settled row keeps its attempts and is due no more.
LEMMA SettleFacts ==
    ASSUME IInv, NEW w \in Workers, held[w].item \in Items,
           NEW state \in Done \cup {"retry", "dead_letter"}, Settle(w, state)
    PROVE  /\ RowsOK(row') /\ DueOK(due', row')
           /\ row'[held[w].item].state = state
           /\ row'[held[w].item].attempts = row[held[w].item].attempts
           /\ \A j \in Items : j # held[w].item => row'[j] = row[j]
<1> DEFINE i == held[w].item
           r == [row[i] EXCEPT !.state = state]
<1>1. /\ row' = [row EXCEPT ![i] = r] /\ due' = due \ {i} /\ i \in Items
    BY DEF Settle, IInv, TypeOK
<1> HIDE DEF i
<1>2. row[i] \in RowType /\ row[i].cycle <= row[i].attempts
    BY <1>1 DEF IInv, TypeOK
<1>3. /\ r \in RowType /\ r.state = state /\ r.attempts = row[i].attempts
      /\ r.cycle = row[i].cycle
    BY <1>2 DEF RowType, Open, Done
<1> HIDE DEF r
<1>4. row'[i] = r /\ \A j \in Items : j # i => row'[j] = row[j]
    BY <1>1 DEF IInv, TypeOK
<1>5. RowsOK(row')
    BY <1>1, <1>2, <1>3, <1>4 DEF RowsOK, IInv, TypeOK
<1>6. DueOK(due', row')
    BY <1>1, <1>4 DEF DueOK, IInv, TypeOK
<1> QED
    BY <1>3, <1>4, <1>5, <1>6 DEF i

\* Putting a claim down beside a settled row.
LEMMA PutDownInv ==
    ASSUME SupportAssumption, IInv, NEW w \in Workers, PutDown(w),
           RowsOK(row'), DueOK(due', row'),
           thread' \in [Messages -> {"absent", "received", "triage_passed",
                     "triage_flagged", "audit_passed", "audit_flagged", "human_review"}],
           \A m \in Messages : thread[m] # "absent" => thread'[m] # "absent",
           log' \subseteq Alerts \X (0..MaxClaims) \X {"delivered", "retry", "dead_letter"},
           UNCHANGED <<email, action, gate, audit, mailed>>
    PROVE  /\ TypeOK' /\ WorkIsDone' /\ ActionsFollowGates' /\ AuditsHaveActions'
           /\ NothingPassesUnreviewed'
<1>1. /\ held' \in [Workers -> ClaimType]
      /\ \A x \in Workers : held'[x].stage = "idle" \/ held'[x].item \in Items
      /\ held'[w] = NoClaim
      /\ \A x \in Workers : x # w => held'[x] = held[x]
    BY HeldFacts, NoClaimFacts DEF PutDown, IInv
<1>2. TypeOK'
    BY <1>1 DEF IInv, TypeOK, RowsOK, DueOK, ClaimType
<1>3. WorkIsDone'
    BY <1>1, NoClaimFacts, WorkMoves DEF IInv
<1> QED
    BY <1>2, <1>3 DEF IInv, ActionsFollowGates, AuditsHaveActions, NothingPassesUnreviewed

\* A lapsed lease: the claim is put down and nothing else moves.
LEMMA LapsedInv ==
    ASSUME SupportAssumption, IInv, NEW w \in Workers, PutDown(w),
           UNCHANGED <<email, thread, row, due, action, gate, audit, mailed, log>>
    PROVE  IInv'
<1>1. held'[w].stage # "done"
    BY NoClaimFacts DEF PutDown, IInv, TypeOK
<1>2. /\ held' \in [Workers -> ClaimType]
      /\ \A x \in Workers : held'[x].stage = "idle" \/ held'[x].item \in Items
      /\ \A x \in Workers : x # w => held'[x] = held[x]
    BY HeldFacts, NoClaimFacts DEF PutDown, IInv
<1> QED
    BY <1>1, <1>2, HeldInv

LEMMA CompleteJobInv ==
    ASSUME SupportAssumption, IInv, NEW w \in Workers, CompleteJob(w) PROVE IInv'
<1> DEFINE i == held[w].item
<1>1. /\ i \in Jobs /\ i \in Items /\ i \notin Alerts /\ held[w].stage = "done"
      /\ PutDown(w) /\ UNCHANGED <<email, thread, action, gate, audit, mailed, log>>
    BY ItemFacts DEF CompleteJob, verdicts
<1>2. CASE ~LeaseHolds(w)
  <2>1. UNCHANGED <<row, due>>
      BY <1>2 DEF CompleteJob
  <2> QED
      BY <1>1, <2>1, LapsedInv
<1>3. CASE LeaseHolds(w)
  <2>1. /\ RowsOK(row') /\ DueOK(due', row') /\ row'[i].state = "completed"
        /\ \A j \in Items : j # i => row'[j] = row[j]
      BY <1>1, <1>3, SettleFacts DEF CompleteJob, Done
  <2>2. /\ TypeOK' /\ WorkIsDone' /\ ActionsFollowGates' /\ AuditsHaveActions'
        /\ NothingPassesUnreviewed'
      BY <1>1, <2>1, PutDownInv DEF IInv, TypeOK
  <2>3. \A m \in Messages : i = <<"job", m>> => gate'[m]["triage"] # "none"
      BY <1>1 DEF IInv, WorkIsDone
  <2> HIDE DEF i
  <2>4. LogIsTrue'
    <3>1. \A a \in Alerts : row'[a] = row[a]
        BY <1>1, <2>1, ItemFacts
    <3> QED
        BY <1>1, <3>1 DEF IInv, LogIsTrue
  <2>5. CompletedIsTriaged'
      BY <1>1, <2>1, <2>3, ItemFacts DEF IInv, CompletedIsTriaged
  <2>6. StopsAreAlerted'
      BY <1>1, <2>1, ItemFacts DEF IInv, StopsAreAlerted
  <2> QED
      BY <2>2, <2>4, <2>5, <2>6 DEF IInv
<1> QED
    BY <1>2, <1>3

\* A log entry more, for the attempt of the lease.
LEMMA LogFacts ==
    ASSUME IInv, NEW w \in Workers, held[w].item \in Alerts,
           NEW o \in {"delivered", "retry", "dead_letter"}, LogAttempt(w, o)
    PROVE  /\ log' \subseteq Alerts \X (0..MaxClaims) \X {"delivered", "retry", "dead_letter"}
           /\ log' = log \cup {<<held[w].item, held[w].attempt, o>>}
    BY DEF LogAttempt, IInv, TypeOK

LEMMA CompleteAlertInv ==
    ASSUME SupportAssumption, IInv, NEW w \in Workers, CompleteAlert(w) PROVE IInv'
<1> DEFINE i == held[w].item
<1>1. /\ i \in Alerts /\ i \in Items /\ i \notin Jobs /\ held[w].stage = "done"
      /\ PutDown(w) /\ UNCHANGED <<email, thread, action, gate, audit, mailed>>
    BY ItemFacts DEF CompleteAlert, verdicts
<1>2. CASE ~LeaseHolds(w)
  <2>1. UNCHANGED <<row, due, log>>
      BY <1>2 DEF CompleteAlert
  <2> QED
      BY <1>1, <2>1, LapsedInv
<1>3. CASE LeaseHolds(w)
  <2>1. /\ RowsOK(row') /\ DueOK(due', row') /\ row'[i].state = "delivered"
        /\ row'[i].attempts = row[i].attempts
        /\ \A j \in Items : j # i => row'[j] = row[j]
      BY <1>1, <1>3, SettleFacts DEF CompleteAlert, Done
  <2>2. /\ log' \subseteq Alerts \X (0..MaxClaims) \X {"delivered", "retry", "dead_letter"}
        /\ log' = log \cup {<<i, held[w].attempt, "delivered">>}
      BY <1>1, <1>3, LogFacts DEF CompleteAlert
  <2>3. row[i].state = "processing" /\ row[i].attempts = held[w].attempt /\ i \in mailed
      BY <1>1, <1>3 DEF LeaseHolds, IInv, WorkIsDone
  <2>4. /\ TypeOK' /\ WorkIsDone' /\ ActionsFollowGates' /\ AuditsHaveActions'
        /\ NothingPassesUnreviewed'
      BY <1>1, <2>1, <2>2, PutDownInv DEF IInv, TypeOK
  <2> DEFINE n0 == held[w].attempt
  <2> HIDE DEF i, n0
  <2>5. LogIsTrue'
    <3> SUFFICES ASSUME NEW a \in Alerts
                 PROVE  /\ \A n \in 0..MaxClaims : <<a, n, "delivered">> \in log' =>
                             row'[a].state = "delivered" /\ row'[a].attempts = n
                        /\ row'[a].state = "delivered" =>
                             a \in mailed' /\ <<a, row'[a].attempts, "delivered">> \in log'
        BY DEF LogIsTrue
    <3>1. CASE a = i
        BY <1>1, <2>1, <2>2, <2>3, <3>1 DEF IInv, LogIsTrue, n0
    <3>2. CASE a # i
      <4>1. \A n \in 0..MaxClaims : <<a, n, "delivered">> \in log' <=> <<a, n, "delivered">> \in log
          BY <2>2, <3>2
      <4>2. row'[a] = row[a]
          BY <2>1, <3>2, ItemFacts
      <4> QED
          BY <1>1, <2>2, <4>1, <4>2 DEF IInv, LogIsTrue
    <3> QED
        BY <3>1, <3>2
  <2>6. CompletedIsTriaged'
      BY <1>1, <2>1, ItemFacts DEF IInv, CompletedIsTriaged
  <2>7. StopsAreAlerted'
      BY <1>1, <2>1, ItemFacts DEF IInv, StopsAreAlerted
  <2> QED
      BY <2>4, <2>5, <2>6, <2>7 DEF IInv
<1> QED
    BY <1>2, <1>3

LEMMA FailAlertInv ==
    ASSUME SupportAssumption, IInv, NEW w \in Workers, FailAlert(w) PROVE IInv'
<1> DEFINE i == held[w].item
<1>1. /\ i \in Alerts /\ i \in Items /\ i \notin Jobs
      /\ PutDown(w) /\ UNCHANGED <<email, thread, action, gate, audit, mailed>>
    BY ItemFacts DEF FailAlert, verdicts
<1>2. CASE ~LeaseHolds(w)
  <2>1. UNCHANGED <<row, due, log>>
      BY <1>2 DEF FailAlert
  <2> QED
      BY <1>1, <2>1, LapsedInv
<1>3. CASE LeaseHolds(w)
  <2>1. FailedState(w) \in {"retry", "dead_letter"}
      BY DEF FailedState
  <2>2. /\ RowsOK(row') /\ DueOK(due', row') /\ row'[i].state = FailedState(w)
        /\ \A j \in Items : j # i => row'[j] = row[j]
      BY <1>1, <1>3, <2>1, SettleFacts DEF FailAlert
  <2>3. /\ log' \subseteq Alerts \X (0..MaxClaims) \X {"delivered", "retry", "dead_letter"}
        /\ log' = log \cup {<<i, held[w].attempt, FailedState(w)>>}
      BY <1>1, <1>3, <2>1, LogFacts DEF FailAlert
  <2>4. row[i].state = "processing"
      BY <1>3 DEF LeaseHolds
  <2>5. /\ TypeOK' /\ WorkIsDone' /\ ActionsFollowGates' /\ AuditsHaveActions'
        /\ NothingPassesUnreviewed'
      BY <1>1, <2>2, <2>3, PutDownInv DEF IInv, TypeOK
  <2> HIDE DEF i
  <2>6. LogIsTrue'
    <3>1. \A a \in Alerts : \A n \in 0..MaxClaims :
            <<a, n, "delivered">> \in log' <=> <<a, n, "delivered">> \in log
        BY <2>1, <2>3
    <3>2. \A a \in Alerts : (row[a].state = "delivered" \/ row'[a].state = "delivered")
                               => row'[a] = row[a]
        BY <2>1, <2>2, <2>4, ItemFacts
    <3>3. \A a \in Alerts : row'[a].state = "delivered" => <<a, row'[a].attempts, "delivered">> \in log'
        BY <2>3, <3>2 DEF IInv, LogIsTrue
    <3> QED
        BY <1>1, <3>1, <3>2, <3>3 DEF IInv, LogIsTrue
  <2>7. CompletedIsTriaged'
      BY <1>1, <2>2, ItemFacts DEF IInv, CompletedIsTriaged
  <2>8. StopsAreAlerted'
    <3>1. \A j \in Jobs : row'[j] = row[j]
        BY <1>1, <2>2, ItemFacts
    <3>2. \A j \in Alerts : row[j].state # "absent" => row'[j].state # "absent"
        BY <1>1, <2>1, <2>2, ItemFacts
    <3> QED
        BY <1>1, <3>1, <3>2, ItemFacts DEF IInv, StopsAreAlerted
  <2> QED
      BY <2>5, <2>6, <2>7, <2>8 DEF IInv
<1> QED
    BY <1>2, <1>3

\* A failure that buries its job leaves an alert and a thread for a person.
LEMMA BuryJobInv ==
    ASSUME SupportAssumption, IInv, NEW w \in Workers, NEW m \in Messages,
           held[w].item = <<"job", m>>, row[<<"job", m>>].state = "processing",
           BuryJob(m), PutDown(w), UNCHANGED <<email, action, gate, audit, mailed, log>>
    PROVE  IInv'
<1> DEFINE job == <<"job", m>>
           alert == <<"dead", m>>
           r == [row[job] EXCEPT !.state = "dead_letter"]
           buried == [row EXCEPT ![job] = r]
<1>1. /\ job \in Items /\ job \notin Alerts /\ alert \in Items /\ alert \in Alerts
      /\ alert # job
    BY ItemFacts
<1>2. /\ row' = Alerted(buried, alert) /\ due' = AlertDue(alert) \ {job}
      /\ thread' = [thread EXCEPT ![m] = "human_review"]
    BY <1>1 DEF BuryJob, IInv, TypeOK
<1>3. /\ \A n \in Messages : <<"job", n>> = job => n = m
      /\ \A n \in Messages : <<"dead", n>> = alert => n = m
    OBVIOUS
<1> HIDE DEF alert
<1>4. RowsOK(buried) /\ buried[job].state = "dead_letter"
      /\ \A j \in Items : j # job => buried[j] = row[j]
  <2>1. row[job] \in RowType /\ row[job].cycle <= row[job].attempts
      BY <1>1 DEF IInv, TypeOK
  <2>2. r \in RowType /\ r.state = "dead_letter" /\ r.cycle <= r.attempts
      BY <2>1 DEF RowType
  <2> HIDE DEF r, job
  <2> QED
      BY <1>1, <2>2 DEF RowsOK, IInv, TypeOK
<1> HIDE DEF buried
<1>5. /\ RowsOK(row') /\ row'[alert].state # "absent"
      /\ \A j \in Items : j # alert => row'[j] = buried[j]
      /\ buried[alert].state # "absent" => row'[alert] = buried[alert]
      /\ buried[alert].state = "absent" => row'[alert] = Pending
    BY <1>1, <1>2, <1>4, AlertedFacts
<1>6. DueOK(due', row')
  <2>1. due' \subseteq (due \cup {x \in {alert} : row[alert].state = "absent"}) \ {job}
      BY <1>2 DEF AlertDue
  <2>2. \A j \in Items : j # job /\ j # alert => row'[j] = row[j]
      BY <1>4, <1>5
  <2>3. row[alert].state = "absent" => row'[alert].state = "pending"
      BY <1>1, <1>4, <1>5, PendingFacts
  <2>4. row[alert].state # "absent" => row'[alert] = row[alert]
      BY <1>1, <1>4, <1>5
  <2> QED
      BY <1>1, <2>1, <2>2, <2>3, <2>4 DEF DueOK, IInv, TypeOK, Open
<1>7. /\ thread' \in [Messages -> {"absent", "received", "triage_passed",
                     "triage_flagged", "audit_passed", "audit_flagged", "human_review"}]
      /\ \A n \in Messages : thread[n] # "absent" => thread'[n] # "absent"
    BY <1>2 DEF IInv, TypeOK
<1>8. /\ TypeOK' /\ WorkIsDone' /\ ActionsFollowGates' /\ AuditsHaveActions'
      /\ NothingPassesUnreviewed'
    BY <1>5, <1>6, <1>7, PutDownInv DEF IInv, TypeOK
<1>9. LogIsTrue'
  <2>1. \A a \in Alerts : a # alert => row'[a] = row[a]
      BY <1>1, <1>4, <1>5, ItemFacts
  <2>2. (row[alert].state = "delivered" \/ row'[alert].state = "delivered")
          => row'[alert] = row[alert]
      BY <1>1, <1>4, <1>5, PendingFacts
  <2>3. \A a \in Alerts : (row[a].state = "delivered" \/ row'[a].state = "delivered")
                              => row'[a] = row[a]
      BY <2>1, <2>2
  <2> QED
      BY <2>3 DEF IInv, LogIsTrue
<1>10. \A n \in Messages : n # m => row'[<<"job", n>>] = row[<<"job", n>>]
    BY <1>1, <1>3, <1>4, <1>5, ItemFacts
<1>11. CompletedIsTriaged'
  <2>1. row'[<<"job", m>>].state = "dead_letter"
      BY <1>1, <1>4, <1>5
  <2> QED
      BY <1>10, <2>1 DEF IInv, CompletedIsTriaged
<1>12. StopsAreAlerted'
  <2>1. \A a \in Alerts : row[a].state # "absent" => row'[a].state # "absent"
      BY <1>1, <1>4, <1>5, ItemFacts
  <2>2. row'[<<"dead", m>>].state # "absent"
      BY <1>5 DEF alert
  <2> QED
      BY <1>10, <2>1, <2>2, ItemFacts DEF IInv, StopsAreAlerted
<1> QED
    BY <1>8, <1>9, <1>11, <1>12 DEF IInv

LEMMA FailJobInv ==
    ASSUME SupportAssumption, IInv, NEW w \in Workers, FailJob(w) PROVE IInv'
<1> DEFINE i == held[w].item
<1>1. /\ i \in Jobs /\ i \in Items /\ i[2] \in Messages /\ i = <<"job", i[2]>>
      /\ PutDown(w) /\ UNCHANGED <<email, action, gate, audit, mailed, log>>
    BY ItemFacts DEF FailJob
<1>2. CASE ~LeaseHolds(w)
  <2>1. UNCHANGED <<row, due, thread>>
      BY <1>2 DEF FailJob
  <2> QED
      BY <1>1, <2>1, LapsedInv
<1>3. CASE LeaseHolds(w) /\ FailedState(w) = "dead_letter"
  <2>1. BuryJob(i[2]) /\ row[i].state = "processing"
      BY <1>3 DEF FailJob, LeaseHolds
  <2> QED
      BY <1>1, <2>1, BuryJobInv
<1>4. CASE LeaseHolds(w) /\ FailedState(w) # "dead_letter"
  <2>1. Settle(w, "retry") /\ thread' = thread /\ row[i].state = "processing"
      BY <1>4 DEF FailJob, LeaseHolds
  <2>2. /\ RowsOK(row') /\ DueOK(due', row') /\ row'[i].state = "retry"
        /\ \A j \in Items : j # i => row'[j] = row[j]
      BY <1>1, <2>1, SettleFacts
  <2>3. Quiet
      BY <1>1, <2>1, <2>2 DEF Quiet
  <2>4. /\ TypeOK' /\ WorkIsDone' /\ ActionsFollowGates' /\ AuditsHaveActions'
        /\ NothingPassesUnreviewed'
      BY <1>1, <2>1, <2>2, PutDownInv DEF IInv, TypeOK
  <2>5. LogIsTrue' /\ CompletedIsTriaged' /\ StopsAreAlerted'
      BY <1>1, <2>3, QuietRows DEF IInv
  <2> QED
      BY <2>4, <2>5 DEF IInv
<1> QED
    BY <1>2, <1>3, <1>4

-----------------------------------------------------------------------------
\* An auditor takes a request on.
LEMMA LoadActionInv ==
    ASSUME IInv, NEW a \in Auditors, NEW m \in Messages, LoadAction(a, m) PROVE IInv'
<1>1. /\ audit' = [audit EXCEPT ![a] = [message |-> m, stage |-> "loaded"]]
      /\ action[m].status \in {"proposed", "audit_pending"}
      /\ UNCHANGED <<email, thread, action, gate, row, due, held, mailed, log>>
    BY DEF LoadAction, Auditable, verdicts
<1>2. TypeOK'
    BY <1>1 DEF IInv, TypeOK
<1>3. AuditsHaveActions'
    BY <1>1 DEF IInv, TypeOK, AuditsHaveActions
<1> QED
    BY <1>1, <1>2, <1>3 DEF IInv, WorkIsDone, ActionsFollowGates, LogIsTrue,
                      CompletedIsTriaged, StopsAreAlerted, NothingPassesUnreviewed

LEMMA MarkAuditPendingInv ==
    ASSUME IInv, NEW a \in Auditors, MarkAuditPending(a) PROVE IInv'
<1> DEFINE m == audit[a].message
           act == [action[m] EXCEPT !.status = IF @ = "proposed" THEN "audit_pending" ELSE @]
<1>1. /\ audit[a].stage = "loaded" /\ m \in Messages
      /\ action' = [action EXCEPT ![m] = act]
      /\ audit' = [audit EXCEPT ![a] = [audit[a] EXCEPT !.stage = "pending"]]
      /\ UNCHANGED <<email, thread, gate, row, due, held, mailed, log>>
    BY DEF MarkAuditPending, IInv, TypeOK
<1>2. action[m] \in [status : {"absent", "proposed", "triage_flagged", "audit_pending",
                               "audit_passed", "audit_flagged"},
                     type : ActionTypes, human : BOOLEAN]
    BY <1>1 DEF IInv, TypeOK
<1>3. /\ act \in [status : {"absent", "proposed", "triage_flagged", "audit_pending",
                               "audit_passed", "audit_flagged"},
                     type : ActionTypes, human : BOOLEAN]
      /\ act.human = action[m].human
      /\ act.status = IF action[m].status = "proposed" THEN "audit_pending" ELSE action[m].status
    BY <1>2
<1> HIDE DEF act
<1>4. action'[m] = act /\ \A n \in Messages : n # m => action'[n] = action[n]
    BY <1>1 DEF IInv, TypeOK
<1>5. /\ \A x \in Auditors : audit'[x].message = audit[x].message
      /\ \A x \in Auditors : audit'[x].stage = "idle" <=> audit[x].stage = "idle"
    BY <1>1 DEF IInv, TypeOK
<1>6. TypeOK'
  <2>1. action' \in [Messages -> [status : {"absent", "proposed", "triage_flagged",
                     "audit_pending", "audit_passed", "audit_flagged"},
                                type : ActionTypes, human : BOOLEAN]]
      BY <1>1, <1>3 DEF IInv, TypeOK
  <2>2. audit' \in [Auditors -> [message : Messages \cup {<<>>},
                                stage : {"idle", "loaded", "pending"}]]
    <3>1. audit[a] \in [message : Messages \cup {<<>>}, stage : {"idle", "loaded", "pending"}]
        BY DEF IInv, TypeOK
    <3>2. [audit[a] EXCEPT !.stage = "pending"]
            \in [message : Messages \cup {<<>>}, stage : {"idle", "loaded", "pending"}]
        BY <3>1
    <3> QED
        BY <1>1, <3>2 DEF IInv, TypeOK
  <2> QED
      BY <1>1, <1>5, <2>1, <2>2 DEF IInv, TypeOK
<1> HIDE DEF m
<1>7. ActionsFollowGates'
    BY <1>1, <1>3, <1>4 DEF IInv, ActionsFollowGates
<1>8. AuditsHaveActions'
    BY <1>1, <1>3, <1>4, <1>5 DEF IInv, TypeOK, AuditsHaveActions
<1>9. NothingPassesUnreviewed'
    BY <1>1, <1>3, <1>4 DEF IInv, NothingPassesUnreviewed
<1> QED
    BY <1>1, <1>6, <1>7, <1>8, <1>9 DEF IInv, WorkIsDone, LogIsTrue,
                      CompletedIsTriaged, StopsAreAlerted

\* A verdict of the second gate ends the request; only the first one is kept.
LEMMA AuditOver ==
    ASSUME IInv, NEW a \in Auditors, audit[a].stage # "idle",
           audit' = [audit EXCEPT ![a] = NoAudit],
           UNCHANGED <<email, thread, action, gate, row, due, held, mailed, log>>
    PROVE  IInv'
<1>1. /\ \A x \in Auditors : audit'[x].stage # "idle" => audit'[x] = audit[x]
      /\ audit' \in [Auditors -> [message : Messages \cup {<<>>},
                                stage : {"idle", "loaded", "pending"}]]
    BY DEF IInv, TypeOK, NoAudit
<1>2. TypeOK'
    BY <1>1 DEF IInv, TypeOK
<1>3. AuditsHaveActions'
    BY <1>1 DEF IInv, AuditsHaveActions
<1> QED
    BY <1>2, <1>3 DEF IInv, WorkIsDone, ActionsFollowGates, LogIsTrue,
                      CompletedIsTriaged, StopsAreAlerted, NothingPassesUnreviewed

LEMMA StoreAuditInv ==
    ASSUME SupportAssumption, IInv, NEW a \in Auditors, audit[a].stage # "idle",
           NEW m \in Messages, audit[a].message = m,
           NEW o \in AuditOutcome, o.verdict = "pass" => ~o.human, StoreAudit(m, o),
           audit' = [audit EXCEPT ![a] = NoAudit],
           UNCHANGED <<email, held, mailed, log>>
    PROVE  IInv'
<1> DEFINE alert == <<"safety_audit", m>>
           flagged == o.verdict # "pass"
           act == [action[m] EXCEPT !.status = IF flagged THEN "audit_flagged" ELSE "audit_passed",
                                    !.human = o.human]
<1>0. o.verdict \in {"pass", "flag", "error"} /\ o.human \in BOOLEAN
    BY DEF AuditOutcome
<1>1. m \in Messages /\ action[m].status \notin {"absent", "triage_flagged"}
    BY DEF IInv, AuditsHaveActions
<1>2. CASE AuditStored(m)
  <2>1. UNCHANGED <<thread, action, gate, row, due>>
      BY <1>2 DEF StoreAudit
  <2> QED
      BY <2>1, AuditOver
<1>3. CASE ~AuditStored(m)
  <2>1. /\ gate' = [gate EXCEPT ![m]["safety_audit"] = o.verdict]
        /\ action' = [action EXCEPT ![m] = act]
        /\ thread' = [thread EXCEPT ![m] = IF flagged THEN "audit_flagged" ELSE "audit_passed"]
        /\ flagged => row' = Alerted(row, alert) /\ due' = AlertDue(alert)
        /\ ~flagged => UNCHANGED <<row, due>>
      BY <1>1, <1>3 DEF StoreAudit, IInv, TypeOK
  <2>2. /\ gate[m]["safety_audit"] = "none"
        /\ action[m].status \in {"proposed", "audit_pending"}
        /\ gate[m]["triage"] = "pass" /\ ~email[m].injected /\ ~email[m].systematic
    <3>1. gate[m]["safety_audit"] = "none"
        BY <1>3 DEF AuditStored
    <3>2. action[m].status \in {"proposed", "audit_pending"}
        BY <1>1, <3>1 DEF IInv, TypeOK, ActionsFollowGates
    <3> QED
        BY <1>1, <3>1, <3>2 DEF IInv, NothingPassesUnreviewed
  <2>3. /\ alert \in Alerts /\ alert \in Items
        /\ \A n \in Messages : alert # <<"job", n>>
      BY <1>1, ItemFacts
  <2>4. /\ gate' \in [Messages -> [{"triage", "safety_audit"} -> {"none", "pass", "flag", "error"}]]
        /\ gate'[m]["safety_audit"] = o.verdict /\ gate'[m]["triage"] = gate[m]["triage"]
        /\ \A n \in Messages : n # m => gate'[n] = gate[n]
      BY <1>0, <1>1, <2>1 DEF IInv, TypeOK
  <2>5. /\ act \in [status : {"absent", "proposed", "triage_flagged", "audit_pending",
                               "audit_passed", "audit_flagged"},
                     type : ActionTypes, human : BOOLEAN]
        /\ act.status = IF flagged THEN "audit_flagged" ELSE "audit_passed"
        /\ act.human = o.human
    <3>1. action[m] \in [status : {"absent", "proposed", "triage_flagged", "audit_pending",
                               "audit_passed", "audit_flagged"},
                         type : ActionTypes, human : BOOLEAN]
        BY <1>0, <1>1 DEF IInv, TypeOK
    <3> QED
        BY <1>0, <3>1
  <2> HIDE DEF act
  <2>6. /\ action'[m] = act
        /\ \A n \in Messages : n # m => action'[n] = action[n]
        /\ thread'[m] \in {"audit_flagged", "audit_passed"}
        /\ \A n \in Messages : n # m => thread'[n] = thread[n]
      BY <1>0, <1>1, <2>1 DEF IInv, TypeOK
  <2>7. /\ RowsOK(row') /\ DueOK(due', row') /\ Quiet
        /\ flagged => row'[alert].state # "absent"
    <3>1. CASE flagged
      <4> HIDE DEF alert
      <4>1. /\ RowsOK(row') /\ row'[alert].state # "absent"
            /\ \A j \in Items : j # alert => row'[j] = row[j]
            /\ row[alert].state # "absent" => row'[alert] = row[alert]
            /\ row[alert].state = "absent" => row'[alert] = Pending
        <5>1. RowsOK(row)
            BY DEF IInv, TypeOK, RowsOK
        <5> QED
            BY <2>1, <2>3, <3>1, <5>1, AlertedFacts
      <4>2. due' = IF row[alert].state = "absent" THEN due \cup {alert} ELSE due
          BY <2>1, <3>1 DEF AlertDue
      <4>3. DueOK(due', row')
          BY <2>3, <4>1, <4>2, PendingFacts DEF DueOK, IInv, TypeOK, Open
      <4>4. Quiet
          BY <4>1, PendingFacts DEF Quiet
      <4> QED
          BY <4>1, <4>3, <4>4
    <3>2. CASE ~flagged
        BY <2>1, <3>2 DEF IInv, TypeOK, RowsOK, DueOK, Quiet
    <3> QED
        BY <3>1, <3>2
  <2>8. /\ \A x \in Auditors : audit'[x].stage # "idle" => audit'[x] = audit[x]
        /\ audit' \in [Auditors -> [message : Messages \cup {<<>>},
                                  stage : {"idle", "loaded", "pending"}]]
      BY DEF IInv, TypeOK, NoAudit
  <2>9. TypeOK'
    <3>1. /\ thread' \in [Messages -> {"absent", "received", "triage_passed",
                     "triage_flagged", "audit_passed", "audit_flagged", "human_review"}]
          /\ action' \in [Messages -> [status : {"absent", "proposed", "triage_flagged",
                     "audit_pending", "audit_passed", "audit_flagged"},
                                type : ActionTypes, human : BOOLEAN]]
        BY <1>1, <2>1, <2>5 DEF IInv, TypeOK
    <3> QED
        BY <2>4, <2>7, <2>8, <3>1 DEF IInv, TypeOK, RowsOK, DueOK
  <2>10. WorkIsDone'
      BY <2>4 DEF IInv, WorkIsDone
  <2>11. ActionsFollowGates'
      BY <1>0, <2>2, <2>4, <2>5, <2>6 DEF IInv, ActionsFollowGates
  <2>12. AuditsHaveActions'
    <3>1. act.status \notin {"absent", "triage_flagged"}
        BY <2>5
    <3>2. \A x \in Auditors : audit[x].stage # "idle" => audit[x].message \in Messages
        BY DEF IInv, TypeOK
    <3> QED
        BY <2>6, <2>8, <3>1, <3>2 DEF IInv, AuditsHaveActions
  <2>13. NothingPassesUnreviewed'
      BY <1>0, <2>2, <2>4, <2>5, <2>6 DEF IInv, NothingPassesUnreviewed
  <2>14. LogIsTrue'
      BY <2>7, QuietLog DEF IInv
  <2>15. CompletedIsTriaged'
      BY <1>0, <2>4, <2>7, ItemFacts DEF IInv, CompletedIsTriaged, Quiet
  <2>16. StopsAreAlerted'
    <3>1. gate'[m]["safety_audit"] \in {"flag", "error"} => row'[<<"safety_audit", m>>].state # "absent"
        BY <1>0, <2>4, <2>7
    <3>2. \A n \in Messages, s \in {"triage", "safety_audit"} :
            (n = m /\ s = "safety_audit") \/ gate'[n][s] = gate[n][s]
        BY <2>4
    <3> HIDE DEF alert
    <3>3. \A n \in Messages, s \in {"triage", "safety_audit"} :
            gate'[n][s] \in {"flag", "error"} => row'[<<s, n>>].state # "absent"
      <4> SUFFICES ASSUME NEW n \in Messages, NEW s \in {"triage", "safety_audit"},
                          gate'[n][s] \in {"flag", "error"}
                   PROVE  row'[<<s, n>>].state # "absent"
          OBVIOUS
      <4>1. CASE n = m /\ s = "safety_audit"
          BY <3>1, <4>1
      <4>2. CASE gate'[n][s] = gate[n][s]
          BY <2>7, <4>2, ItemFacts DEF IInv, StopsAreAlerted, Quiet
      <4> QED
          BY <3>2, <4>1, <4>2
    <3>4. \A n \in Messages : row'[<<"job", n>>].state = "dead_letter"
                               => row'[<<"dead", n>>].state # "absent"
        BY <2>7, ItemFacts DEF IInv, StopsAreAlerted, Quiet
    <3> QED
        BY <3>3, <3>4 DEF StopsAreAlerted
  <2> QED
      BY <2>9, <2>10, <2>11, <2>12, <2>13, <2>14, <2>15, <2>16 DEF IInv
<1> QED
    BY <1>2, <1>3

LEMMA RecordAuditInv ==
    ASSUME SupportAssumption, IInv, NEW a \in Auditors, RecordAudit(a) PROVE IInv'
<1>1. audit[a].stage # "idle" /\ audit[a].message \in Messages
    BY DEF RecordAudit, IInv, TypeOK
<1>2. PICK m \in Messages : audit[a].message = m
    BY <1>1
<1>3. PICK x \in Artifacts, p \in Opinions : StoreAudit(m, Judge(x, action[m].type, p))
    BY <1>2 DEF RecordAudit
<1>4. PICK t : t = action[m].type
    OBVIOUS
<1>5. PICK o : o = Judge(x, t, p)
    OBVIOUS
<1>6. o \in AuditOutcome /\ (o.verdict = "pass" => ~o.human)
    BY <1>5, JudgeFacts
<1>7. StoreAudit(m, o)
    BY <1>3, <1>4, <1>5 DEF StoreAudit
<1> QED
    BY <1>1, <1>2, <1>6, <1>7, StoreAuditInv DEF RecordAudit

LEMMA AuditFailsInv ==
    ASSUME SupportAssumption, IInv, NEW a \in Auditors, AuditFails(a) PROVE IInv'
<1>1. /\ audit[a].stage # "idle" /\ audit[a].message \in Messages
      /\ audit' = [audit EXCEPT ![a] = NoAudit] /\ UNCHANGED <<email, held, mailed, log>>
    BY DEF AuditFails, IInv, TypeOK
<1>2. PICK m \in Messages : audit[a].message = m
    BY <1>1
<1>3. PICK o \in AuditOutcome : o = [verdict |-> "error", human |-> TRUE]
    BY DEF AuditOutcome
<1>4. CASE StoreAudit(m, o)
    BY <1>1, <1>2, <1>3, <1>4, StoreAuditInv
<1>5. CASE UNCHANGED <<thread, action, gate, row, due>>
    BY <1>1, <1>5, AuditOver
<1> QED
    BY <1>2, <1>3, <1>4, <1>5 DEF AuditFails

LEMMA NextInv == ASSUME SupportAssumption, IInv, [Next]_vars PROVE IInv'
<1>1. CASE \E m \in Messages, e \in Emails : Receive(m, e)
    BY <1>1, ReceiveInv
<1>2. CASE \E i \in Items : ComesDue(i)
    BY <1>2, ComesDueInv
<1>3. CASE \E m \in Messages : RecoverJob(m)
    BY <1>3, ItemFacts, RecoverInv DEF RecoverJob
<1>4. CASE \E i \in Alerts : RecoverAlert(i)
    BY <1>4, ItemFacts, RecoverInv DEF RecoverAlert
<1>5. ASSUME NEW w \in Workers, Work(w) PROVE IInv'
  <2>1. CASE ClaimJob(w) \/ ClaimAlert(w)
      BY <2>1, ItemFacts, ClaimRowInv DEF ClaimJob, ClaimAlert
  <2>2. CASE TriageMessage(w)
      BY <2>2, TriageMessageInv
  <2>3. CASE SendAlert(w)
      BY <2>3, SendAlertInv
  <2>4. CASE Throw(w)
      BY <2>4, ThrowInv
  <2>5. CASE Die(w)
      BY <2>5, DieInv
  <2>6. CASE CompleteJob(w)
      BY <2>6, CompleteJobInv
  <2>7. CASE CompleteAlert(w)
      BY <2>7, CompleteAlertInv
  <2>8. CASE FailJob(w)
      BY <2>8, FailJobInv
  <2>9. CASE FailAlert(w)
      BY <2>9, FailAlertInv
  <2> QED
      BY <1>5, <2>1, <2>2, <2>3, <2>4, <2>5, <2>6, <2>7, <2>8, <2>9 DEF Work
<1>6. CASE \E a \in Auditors, m \in Messages : LoadAction(a, m)
    BY <1>6, LoadActionInv
<1>7. ASSUME NEW a \in Auditors, MarkAuditPending(a) PROVE IInv'
    BY <1>7, MarkAuditPendingInv
<1>8. ASSUME NEW a \in Auditors, RecordAudit(a) PROVE IInv'
    BY <1>8, RecordAuditInv
<1>9. ASSUME NEW a \in Auditors, AuditFails(a) PROVE IInv'
    BY <1>9, AuditFailsInv
<1>10. CASE UNCHANGED vars
  <2>1. TypeOK'
      BY <1>10 DEF vars, IInv, TypeOK
  <2> QED
    BY <1>10, <2>1 DEF vars, IInv, WorkIsDone, ActionsFollowGates, AuditsHaveActions,
                 LogIsTrue, CompletedIsTriaged, StopsAreAlerted, NothingPassesUnreviewed
<1> QED
    BY <1>1, <1>2, <1>3, <1>4, <1>5, <1>6, <1>7, <1>8, <1>9, <1>10 DEF Next

LEMMA Invariance == Spec => []IInv
<1>1. Init => IInv
    BY DeskConstants, InitInv
<1>2. IInv /\ [Next]_vars => IInv'
    BY DeskConstants, NextInv
<1> QED
    BY <1>1, <1>2, PTL DEF Spec

-----------------------------------------------------------------------------
\* Rows, claims, actions, gates and audits have their types, and attempts stay
\* within the bound (support-queue.ts, support-ledger.ts).
THEOREM TypeCorrect == Spec => []TypeOK
<1>1. IInv => TypeOK
    BY DEF IInv
<1> QED
    BY <1>1, Invariance, PTL

\* A delivered row has its one log entry.
LEMMA DeliveredFromLog == IInv => DeliveredWasSent
<1> SUFFICES ASSUME IInv, NEW i \in Alerts, row[i].state = "delivered"
             PROVE  /\ i \in mailed
                    /\ {e \in log : e[1] = i /\ e[3] = "delivered"}
                         = {<<i, row[i].attempts, "delivered">>}
    BY DEF DeliveredWasSent
<1>1. i \in mailed /\ <<i, row[i].attempts, "delivered">> \in log
    BY DEF IInv, LogIsTrue
<1>2. ASSUME NEW e \in log, e[1] = i, e[3] = "delivered"
      PROVE  e = <<i, row[i].attempts, "delivered">>
  <2>1. e = <<e[1], e[2], e[3]>> /\ e[2] \in 0..MaxClaims
      BY DEF IInv, TypeOK
  <2>2. <<i, e[2], "delivered">> \in log
      BY <1>2, <2>1
  <2>3. row[i].attempts = e[2]
      BY <2>1, <2>2 DEF IInv, LogIsTrue
  <2> QED
      BY <1>2, <2>1, <2>3
<1> QED
    BY <1>1, <1>2

\* A step keeps every stored verdict: the first gate's by the action it made,
\* the second one's by itself.
LEMMA StepKeepsVerdicts ==
    ASSUME IInv, [Next]_vars, NEW m \in Messages, NEW s \in {"triage", "safety_audit"},
           gate[m][s] # "none"
    PROVE  gate'[m][s] = gate[m][s]
<1>1. s = "triage" => action[m].status # "absent"
    BY DEF IInv, ActionsFollowGates
<1>2. ASSUME NEW n \in Messages, NEW o, StoreTriage(n, o) PROVE gate'[m][s] = gate[m][s]
  <2>1. gate' = gate \/ (action[n].status = "absent" /\ gate' = [gate EXCEPT ![n]["triage"] = o.verdict])
      BY <1>2 DEF StoreTriage, TriageStored
  <2>2. gate \in [Messages -> [{"triage", "safety_audit"} -> {"none", "pass", "flag", "error"}]]
      BY DEF IInv, TypeOK
  <2>3. CASE gate' = [gate EXCEPT ![n]["triage"] = o.verdict] /\ action[n].status = "absent"
    <3>1. ~(m = n /\ s = "triage")
        BY <1>1, <2>3
    <3> QED
        BY <2>2, <2>3, <3>1
  <2> QED
      BY <2>1, <2>3
<1>3. ASSUME NEW n \in Messages, NEW o, StoreAudit(n, o) PROVE gate'[m][s] = gate[m][s]
  <2>1. \/ gate' = gate
        \/ /\ gate[n]["safety_audit"] = "none"
           /\ gate' = [gate EXCEPT ![n]["safety_audit"] = o.verdict]
      BY <1>3 DEF StoreAudit, AuditStored
  <2> QED
      BY <2>1 DEF IInv, TypeOK
<1>4. ASSUME NEW w \in Workers, TriageMessage(w) PROVE gate'[m][s] = gate[m][s]
  <2>1. PICK n \in Messages : held[w].item = <<"job", n>> /\ held[w].item[2] = n
      BY <1>4, ItemFacts DEF TriageMessage
  <2>2. \E o : StoreTriage(n, o)
      BY <1>4, <2>1 DEF TriageMessage
  <2> QED
      BY <1>2, <2>2
<1>5. ASSUME NEW a \in Auditors, RecordAudit(a) PROVE gate'[m][s] = gate[m][s]
  <2>1. audit[a].message \in Messages
      BY <1>5 DEF RecordAudit, IInv, TypeOK
  <2>2. \E n \in Messages : \E o : StoreAudit(n, o)
      BY <1>5, <2>1 DEF RecordAudit
  <2> QED
      BY <1>3, <2>2
<1>6. ASSUME NEW a \in Auditors, AuditFails(a) PROVE gate'[m][s] = gate[m][s]
  <2>1. audit[a].message \in Messages
      BY <1>6 DEF AuditFails, IInv, TypeOK
  <2>2. gate' = gate \/ \E n \in Messages : \E o : StoreAudit(n, o)
      BY <1>6, <2>1 DEF AuditFails
  <2> QED
      BY <1>3, <2>2
<1>7. \/ gate' = gate
      \/ \E w \in Workers : TriageMessage(w)
      \/ \E a \in Auditors : RecordAudit(a) \/ AuditFails(a)
    BY DEF Next, vars, verdicts, Receive, ComesDue, RecoverJob, RecoverAlert, Recover, Work,
           ClaimJob, ClaimAlert, ClaimRow, SendAlert, Throw, Die, CompleteJob, CompleteAlert,
           FailJob, FailAlert, LoadAction, MarkAuditPending
<1> QED
    BY <1>4, <1>5, <1>6, <1>7

\* Who may change a row: whoever makes it, who claims it when it is due, the
\* worker whose lease holds, or a recovery.
RowMoves(i) ==
    \/ row[i].state = "absent" /\ row'[i] = Pending
    \/ i \in due
    \/ row[i].state = "dead_letter" /\ row'[i].recovered = row[i].recovered + 1
    \/ \E w \in Workers : LeaseHolds(w) /\ held[w].item = i /\ held'[w] = NoClaim

LEMMA AlertMoves ==
    ASSUME SupportAssumption, IInv, NEW j \in Items, row' = Alerted(row, j), NEW i \in Items
    PROVE  row'[i] = row[i] \/ RowMoves(i)
<1>1. RowsOK(row)
    BY DEF IInv, TypeOK, RowsOK
<1> QED
    BY <1>1, AlertedFacts DEF RowMoves

LEMMA StepMovesRows ==
    ASSUME SupportAssumption, IInv, [Next]_vars, NEW i \in Items
    PROVE  row'[i] = row[i] \/ RowMoves(i)
<1>1. ASSUME NEW m \in Messages, NEW e \in Emails, Receive(m, e)
      PROVE  row'[i] = row[i] \/ RowMoves(i)
  <2>1. \/ row' = row
        \/ row[<<"job", m>>].state = "absent" /\ row' = [row EXCEPT ![<<"job", m>>] = Pending]
      BY <1>1 DEF Receive, RecordMessage, EnsureJob
  <2> QED
      BY <2>1 DEF IInv, TypeOK, RowMoves
<1>2. ASSUME NEW j \in Items, Recover(j) PROVE row'[i] = row[i] \/ RowMoves(i)
  <2> DEFINE r == [row[j] EXCEPT !.state = "pending", !.cycle = 0, !.recovered = @ + 1]
  <2>1. row' = [row EXCEPT ![j] = r] /\ row[j].state = "dead_letter"
      BY <1>2 DEF Recover, IInv, TypeOK
  <2>2. r.recovered = row[j].recovered + 1
    <3>1. row[j] \in RowType
        BY DEF IInv, TypeOK
    <3> QED
        BY <3>1 DEF RowType
  <2> HIDE DEF r
  <2> QED
      BY <2>1, <2>2 DEF IInv, TypeOK, RowMoves
<1>3. ASSUME NEW w \in Workers, NEW j \in Items, ClaimRow(w, j)
      PROVE  row'[i] = row[i] \/ RowMoves(i)
  <2>1. j \in due /\ \A x \in Items : x # j => row'[x] = row[x]
      BY <1>3 DEF ClaimRow, Claimable, IInv, TypeOK
  <2> QED
      BY <2>1 DEF RowMoves
<1>4. ASSUME NEW m \in Messages, NEW o, StoreTriage(m, o) \/ StoreAudit(m, o)
      PROVE  row'[i] = row[i] \/ RowMoves(i)
  <2>1. \/ row' = row
        \/ \E s \in {"triage", "safety_audit"} : row' = Alerted(row, <<s, m>>)
      BY <1>4 DEF StoreTriage, StoreAudit
  <2> QED
      BY <2>1, ItemFacts, AlertMoves
<1>5. ASSUME NEW w \in Workers, TriageMessage(w) PROVE row'[i] = row[i] \/ RowMoves(i)
  <2>1. PICK n \in Messages : held[w].item = <<"job", n>> /\ held[w].item[2] = n
      BY <1>5, ItemFacts DEF TriageMessage
  <2>2. \E o : StoreTriage(n, o)
      BY <1>5, <2>1 DEF TriageMessage
  <2> QED
      BY <1>4, <2>2
<1>6. ASSUME NEW w \in Workers, LeaseHolds(w), held[w].item \in Items, PutDown(w),
             NEW state, Settle(w, state)
      PROVE  row'[i] = row[i] \/ RowMoves(i)
  <2>1. held'[w] = NoClaim
      BY <1>6 DEF PutDown, IInv, TypeOK
  <2>2. \A x \in Items : x # held[w].item => row'[x] = row[x]
      BY <1>6 DEF Settle, IInv, TypeOK
  <2> QED
      BY <1>6, <2>1, <2>2 DEF RowMoves
<1>7. ASSUME NEW w \in Workers, LeaseHolds(w), PutDown(w), NEW m \in Messages,
             held[w].item = <<"job", m>>, BuryJob(m)
      PROVE  row'[i] = row[i] \/ RowMoves(i)
  <2> DEFINE job == <<"job", m>>
             dead == <<"dead", m>>
             buried == [row EXCEPT ![job].state = "dead_letter"]
  <2>1. held'[w] = NoClaim
      BY <1>7 DEF PutDown, IInv, TypeOK
  <2>2. row' = Alerted(buried, dead) /\ job \in Items /\ dead \in Items
      BY <1>7, ItemFacts DEF BuryJob
  <2>3. /\ buried \in [Items -> RowType]
        /\ \A x \in Items : x # job => buried[x] = row[x]
    <3>1. row[job] \in RowType
        BY <2>2 DEF IInv, TypeOK
    <3>2. [row[job] EXCEPT !.state = "dead_letter"] \in RowType
        BY <3>1 DEF RowType
    <3> QED
        BY <2>2, <3>2 DEF IInv, TypeOK
  <2> HIDE DEF buried, dead
  <2>4. \A x \in Items : x # job =>
          row'[x] = row[x] \/ (row[x].state = "absent" /\ row'[x] = Pending)
      BY <2>2, <2>3 DEF Alerted
  <2> QED
      BY <1>7, <2>1, <2>4 DEF RowMoves
<1>8. ASSUME NEW w \in Workers, CompleteJob(w) \/ CompleteAlert(w) \/ FailAlert(w)
      PROVE  row'[i] = row[i] \/ RowMoves(i)
  <2>1. /\ held[w].item \in Items /\ PutDown(w)
        /\ row' = row \/ (LeaseHolds(w) /\ \E state : Settle(w, state))
      BY <1>8, ItemFacts DEF CompleteJob, CompleteAlert, FailAlert
  <2> QED
      BY <1>6, <2>1
<1>9. ASSUME NEW w \in Workers, FailJob(w) PROVE row'[i] = row[i] \/ RowMoves(i)
  <2>1. PICK m \in Messages : held[w].item = <<"job", m>> /\ held[w].item[2] = m
      BY <1>9, ItemFacts DEF FailJob
  <2>2. /\ held[w].item \in Items /\ PutDown(w)
        /\ \/ row' = row
           \/ LeaseHolds(w) /\ (BuryJob(m) \/ Settle(w, "retry"))
      BY <1>9, <2>1, ItemFacts DEF FailJob
  <2> QED
      BY <1>6, <1>7, <2>1, <2>2
<1>10. ASSUME NEW a \in Auditors, RecordAudit(a) \/ AuditFails(a)
       PROVE  row'[i] = row[i] \/ RowMoves(i)
  <2>1. audit[a].message \in Messages
      BY <1>10 DEF RecordAudit, AuditFails, IInv, TypeOK, NoAudit
  <2>2. row' = row \/ \E n \in Messages : \E o : StoreAudit(n, o)
      BY <1>10, <2>1 DEF RecordAudit, AuditFails
  <2> QED
      BY <1>4, <2>2
<1>11. \/ row' = row
       \/ \E m \in Messages, e \in Emails : Receive(m, e)
       \/ \E j \in Items : Recover(j)
       \/ \E w \in Workers, j \in Items : ClaimRow(w, j)
       \/ \E w \in Workers : \/ TriageMessage(w) \/ CompleteJob(w) \/ CompleteAlert(w)
                             \/ FailJob(w) \/ FailAlert(w)
       \/ \E a \in Auditors : RecordAudit(a) \/ AuditFails(a)
    BY ItemFacts DEF Next, vars, verdicts, ComesDue, RecoverJob, RecoverAlert, Work,
           ClaimJob, ClaimAlert, SendAlert, Throw, Die, LoadAction, MarkAuditPending
<1> QED
    BY <1>1, <1>2, <1>3, <1>5, <1>8, <1>9, <1>10, <1>11

\* What completed was triaged, what was stopped or buried has its alert, nothing
\* passes a gate unreviewed and a delivery was made; no verdict is rewritten, a
\* finished row stays, and a running lease is ended by its holder alone, however
\* many workers and auditors lose their leases, die or come late
\* (support-queue.ts, support-ledger.ts).
THEOREM DeskCorrect == Spec => DeskHolds
<1>1. Spec => []IInv
    BY Invariance
<1>2. IInv => (/\ CompletedIsTriaged /\ StopsAreAlerted
               /\ NothingPassesUnreviewed /\ DeliveredWasSent)
    BY DeliveredFromLog DEF IInv
<1>3. IInv /\ [Next]_vars => [\A m \in Messages, s \in {"triage", "safety_audit"} :
          gate[m][s] # "none" => gate'[m][s] = gate[m][s]]_vars
    BY StepKeepsVerdicts
<1>4. IInv /\ [Next]_vars => [\A i \in Items :
          /\ row[i].state \in Done => row'[i] = row[i]
          /\ row[i].state = "dead_letter" =>
               row'[i] = row[i] \/ row'[i].recovered = row[i].recovered + 1]_vars
  <2> SUFFICES ASSUME IInv, [Next]_vars, NEW i \in Items
               PROVE  /\ row[i].state \in Done => row'[i] = row[i]
                      /\ row[i].state = "dead_letter" =>
                           row'[i] = row[i] \/ row'[i].recovered = row[i].recovered + 1
      OBVIOUS
  <2>1. i \in due => row[i].state \in Open
      BY DEF IInv, TypeOK
  <2> QED
      BY <2>1, DeskConstants, StepMovesRows DEF RowMoves, LeaseHolds, Done, Open
<1>5. IInv /\ [Next]_vars => [\A i \in Items :
          row[i].state = "processing" /\ i \notin due /\ row'[i] # row[i]
            => \E w \in DOMAIN held :
                 /\ held[w].item = i /\ held[w].attempt = row[i].attempts
                 /\ held'[w] = NoClaim]_vars
  <2> SUFFICES ASSUME IInv, [Next]_vars, NEW i \in Items,
                      row[i].state = "processing", i \notin due, row'[i] # row[i]
               PROVE  \E w \in DOMAIN held :
                        /\ held[w].item = i /\ held[w].attempt = row[i].attempts
                        /\ held'[w] = NoClaim
      OBVIOUS
  <2>1. DOMAIN held = Workers
      BY DEF IInv, TypeOK
  <2> QED
      BY <2>1, DeskConstants, StepMovesRows DEF RowMoves, LeaseHolds
<1> QED
    BY <1>1, <1>2, <1>3, <1>4, <1>5, PTL DEF Spec, DeskHolds, VerdictIsFinal, FinishedStays,
                                           LeaseIsExclusive
=============================================================================

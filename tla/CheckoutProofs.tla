--------------------------- MODULE CheckoutProofs ---------------------------
(***************************************************************************)
(* Proofs about Checkout, for any number of requests, accounts, activations *)
(* and offers.  A Session that can be paid is the one attached because an   *)
(* attachment compares what it replaces with what it read, and because what *)
(* it replaces has expired by then; the locks serve the owners of licences. *)
(***************************************************************************)
EXTENDS Checkout, Sequences, WellFoundedInduction, TLAPS

\* None is neither a request nor an activation.
Separate == None \notin Requests \cup Activations

Locked == {"activation", "decide", "expire", "create", "commit"}

\* A request under way has a pending row without a Session; it names what it
\* replaces once it has decided.
StagesMatch ==
    \A r \in Requests :
        /\ intent[r].state # "absent" => intent[r].account \in Accounts
        /\ worker[r].stage \notin {"idle", "over"} => intent[r].state = "pending"
        /\ worker[r].stage = "idle" => intent[r].session = None
        /\ worker[r].stage \in {"activation", "decide", "expire"}
             => intent[r].activation \in Activations
        /\ worker[r].stage \in {"idle", "account", "activation", "decide"}
             => worker[r].replaces = None
        /\ worker[r].stage = "expire" => worker[r].replaces # None

\* Whoever holds the lock of his account does not own a licence.
OwnersOutside ==
    \A r \in Requests : worker[r].stage \in Locked => intent[r].account \notin licensed

\* A Session stands in the row it was made of, and rows that took it over have
\* that row's attempt.
SessionsHaveRows ==
    \A r \in Requests : intent[r].session # None =>
        /\ intent[intent[r].session].session = intent[r].session
        /\ intent[intent[r].session].attempt = intent[r].attempt

\* So does what a browser was sent to, and what a request replaces.
NamedHaveRows ==
    \A r \in Requests :
        /\ worker[r].sent # None => intent[worker[r].sent].session = worker[r].sent
        /\ worker[r].replaces # None => intent[worker[r].replaces].session = worker[r].replaces

AttachedHasRow ==
    \A a \in Activations : activation[a].session # None =>
        /\ intent[activation[a].session].activation = a
        /\ intent[activation[a].session].session = activation[a].session

\* What can be paid, sent to a browser or not, is attached.
PayableRowIsAttached ==
    \A s \in Requests :
        intent[s].session = s /\ stripe[s] \in {"open", "complete"}
          /\ intent[s].activation \in Activations
            => activation[intent[s].activation].session = s

\* What a request replaces has expired when it makes a Session of its own.
ReplacedIsExpired ==
    \A r \in Requests : worker[r].stage \in {"create", "commit"} /\ worker[r].replaces # None
        => stripe[worker[r].replaces] = "expired"

\* Nobody pays a Session before it is committed; only its time may run out.
CommitsOpen ==
    \A r \in Requests : worker[r].stage = "commit" =>
        stripe[r] = "open" \/ (stripe[r] = "expired" /\ r \in late)

IInv ==
    /\ TypeOK
    /\ RowsHaveSessions
    /\ StagesMatch
    /\ OwnersOutside
    /\ SessionsHaveRows
    /\ NamedHaveRows
    /\ AttachedHasRow
    /\ PayableRowIsAttached
    /\ ReplacedIsExpired
    /\ CommitsOpen

-----------------------------------------------------------------------------
LEMMA InitInv == ASSUME Separate, Init PROVE IInv
<1>1. TypeOK
    BY DEF Init, TypeOK, NoIntent, IntentRows, WorkerRows, ActivationRows, Stages
<1>2. /\ \A r \in Requests : /\ intent[r] = NoIntent /\ stripe[r] = "none"
                             /\ worker[r] = [stage |-> "idle", replaces |-> None, sent |-> None]
      /\ \A a \in Activations : activation[a].session = None
    BY DEF Init
<1>3. RowsHaveSessions /\ StagesMatch /\ OwnersOutside /\ SessionsHaveRows
    BY <1>2 DEF RowsHaveSessions, StagesMatch, OwnersOutside, SessionsHaveRows, NoIntent, Locked
<1>4. NamedHaveRows /\ AttachedHasRow /\ ReplacedIsExpired /\ CommitsOpen
    BY <1>2 DEF NamedHaveRows, AttachedHasRow, ReplacedIsExpired, CommitsOpen
<1>5. PayableRowIsAttached
    BY <1>2 DEF PayableRowIsAttached
<1> QED
    BY <1>1, <1>3, <1>4, <1>5 DEF IInv

-----------------------------------------------------------------------------
(* The worker alone *)

\* A request is over, or goes on to a stage whose conditions it meets.
LEMMA GotoInv ==
    ASSUME Separate, IInv, NEW r \in Requests, NEW stage \in Stages, Goto(r, stage),
           UNCHANGED <<intent, stripe, late, activation, licensed>>,
           stage \in {"over", "activation", "decide", "create"},
           stage # "over" =>
             /\ intent[r].state = "pending" /\ intent[r].account \notin licensed
             /\ worker[r].replaces = None
             /\ stage \in {"activation", "decide"} => intent[r].activation \in Activations
    PROVE  IInv'
<1>1. worker \in [Requests -> WorkerRows]
    BY DEF IInv, TypeOK
<1>2. /\ worker' \in [Requests -> WorkerRows]
      /\ \A t \in Requests : /\ t # r => worker'[t] = worker[t]
                             /\ worker'[t].sent = worker[t].sent
                             /\ worker'[t].replaces = worker[t].replaces
      /\ worker'[r].stage = stage
    BY <1>1 DEF Goto, WorkerRows
<1>3. TypeOK'
    BY <1>2 DEF IInv, TypeOK, IntentRows, ActivationRows
<1>4. RowsHaveSessions'
    BY <1>2 DEF IInv, RowsHaveSessions
<1>5. StagesMatch'
    BY <1>2 DEF IInv, StagesMatch
<1>6. OwnersOutside'
    BY <1>2 DEF IInv, OwnersOutside, Locked
<1>7. SessionsHaveRows' /\ AttachedHasRow' /\ PayableRowIsAttached'
    BY DEF IInv, SessionsHaveRows, AttachedHasRow, PayableRowIsAttached
<1>8. NamedHaveRows'
    BY <1>2 DEF IInv, NamedHaveRows
<1>9. ReplacedIsExpired' /\ CommitsOpen'
    BY <1>2 DEF IInv, ReplacedIsExpired, CommitsOpen
<1> QED
    BY <1>3, <1>4, <1>5, <1>6, <1>7, <1>8, <1>9 DEF IInv

LEMMA OverInv ==
    ASSUME Separate, IInv, NEW r \in Requests, Over(r),
           UNCHANGED <<intent, stripe, late, activation, licensed>>
    PROVE  IInv'
    BY GotoInv DEF Over, Stages

LEMMA LockAccountInv ==
    ASSUME Separate, IInv, NEW r \in Requests, LockAccount(r) PROVE IInv'
<1>1. /\ worker[r].stage = "account" /\ intent[r].state = "pending"
      /\ worker[r].replaces = None /\ intent[r].activation \in Activations \cup {None}
    BY DEF LockAccount, IInv, StagesMatch, TypeOK, IntentRows
<1>2. CASE intent[r].account \in licensed
    BY <1>2, OverInv DEF LockAccount, Over
<1>3. CASE intent[r].account \notin licensed
    BY <1>1, <1>3, GotoInv DEF LockAccount, Stages
<1> QED
    BY <1>2, <1>3

LEMMA LockActivationInv ==
    ASSUME Separate, IInv, NEW r \in Requests, LockActivation(r) PROVE IInv'
<1>1. /\ worker[r].stage = "activation" /\ intent[r].state = "pending"
      /\ worker[r].replaces = None /\ intent[r].activation \in Activations
      /\ intent[r].account \notin licensed
    BY DEF LockActivation, IInv, StagesMatch, OwnersOutside, Locked
<1>2. CASE Pending(intent[r].activation)
    BY <1>1, <1>2, GotoInv DEF LockActivation, Stages
<1>3. CASE ~Pending(intent[r].activation)
    BY <1>3, OverInv DEF LockActivation, Over
<1> QED
    BY <1>2, <1>3

LEMMA DieInv ==
    ASSUME Separate, IInv, NEW r \in Requests, Die(r) PROVE IInv'
    BY OverInv DEF Die
-----------------------------------------------------------------------------
(* Intents *)

LEMMA CreateIntentInv ==
    ASSUME Separate, IInv, NEW r \in Requests, NEW acc \in Accounts,
           NEW a \in Activations \cup {None}, NEW o \in Offers, CreateIntent(r, acc, a, o)
    PROVE  IInv'
<1> DEFINE row == [account |-> acc, activation |-> a, offer |-> o, session |-> None,
                   state |-> "pending", attempt |-> 0]
<1>1. /\ worker[r].stage = "idle" /\ intent[r].session = None /\ worker[r].replaces = None
      /\ intent \in [Requests -> IntentRows] /\ worker \in [Requests -> WorkerRows]
    BY DEF CreateIntent, IInv, StagesMatch, TypeOK
<1>2. row \in IntentRows
    BY DEF IntentRows
<1>3. intent' = [intent EXCEPT ![r] = row] /\ UNCHANGED <<stripe, late, activation, licensed>>
    BY DEF CreateIntent
<1>4. /\ worker' \in [Requests -> WorkerRows] /\ worker'[r].stage = "account"
      /\ \A t \in Requests : /\ t # r => worker'[t] = worker[t]
                             /\ worker'[t].sent = worker[t].sent
                             /\ worker'[t].replaces = worker[t].replaces
    BY <1>1 DEF CreateIntent, Goto, WorkerRows, Stages
<1>5. /\ \A t \in Requests : t # r => intent'[t] = intent[t]
      /\ intent'[r] = row /\ row.session = None /\ row.state = "pending" /\ row.account = acc
    BY <1>1, <1>3
<1> HIDE DEF row
<1>6. TypeOK'
    BY <1>1, <1>2, <1>3, <1>4 DEF IInv, TypeOK, IntentRows, ActivationRows
<1>7. RowsHaveSessions'
    BY <1>3, <1>4, <1>5 DEF IInv, RowsHaveSessions
<1>8. StagesMatch'
    BY <1>1, <1>4, <1>5 DEF IInv, StagesMatch
<1>9. OwnersOutside'
    BY <1>3, <1>4, <1>5 DEF IInv, OwnersOutside, Locked
<1>10. \A t \in Requests : intent[t].session # r
    BY <1>1 DEF IInv, SessionsHaveRows, Separate
<1>11. SessionsHaveRows'
    BY <1>1, <1>5, <1>10 DEF IInv, SessionsHaveRows, TypeOK, IntentRows
<1>12. NamedHaveRows'
  <2>1. \A t \in Requests :
           /\ worker[t].sent # None =>
                worker[t].sent \in Requests /\ intent[worker[t].sent].session = worker[t].sent
           /\ worker[t].replaces # None =>
                /\ worker[t].replaces \in Requests
                /\ intent[worker[t].replaces].session = worker[t].replaces
      BY <1>1 DEF IInv, NamedHaveRows, WorkerRows
  <2>2. \A t \in Requests : worker[t].sent # r /\ worker[t].replaces # r
      BY <1>1, <2>1 DEF Separate
  <2> QED
      BY <1>4, <1>5, <2>1, <2>2 DEF NamedHaveRows
<1>13. AttachedHasRow'
    BY <1>1, <1>3, <1>5 DEF IInv, AttachedHasRow, Separate
<1>14. PayableRowIsAttached'
    BY <1>3, <1>5 DEF IInv, PayableRowIsAttached, Separate
<1>15. ReplacedIsExpired' /\ CommitsOpen'
    BY <1>3, <1>4 DEF IInv, ReplacedIsExpired, CommitsOpen
<1> QED
    BY <1>6, <1>7, <1>8, <1>9, <1>11, <1>12, <1>13, <1>14, <1>15 DEF IInv

\* The row of an attached Session, whichever of those that share it is updated
\* last, has the attempt of the one the Session was made of.
LEMMA AttachedAttempt ==
    ASSUME Separate, IInv, NEW s \in Requests, intent[s].session = s
    PROVE  /\ Attached(s) \in Requests /\ intent[Attached(s)].session = s
           /\ intent[Attached(s)].attempt = intent[s].attempt
           /\ intent[s].attempt \in Nat
<1>1. \A x \in RowsOf(s) : x \in Requests /\ intent[x].attempt = intent[s].attempt
    BY DEF IInv, SessionsHaveRows, RowsOf, Separate
<1>2. intent[s].attempt \in Nat
    BY DEF IInv, TypeOK, IntentRows
<1>3. s \in RowsOf(s)
    BY DEF RowsOf
<1>4. \A y \in RowsOf(s) : intent[y].attempt <= intent[s].attempt
    BY <1>1, <1>2
<1>5. Attached(s) \in RowsOf(s)
    BY <1>3, <1>4 DEF Attached
<1> QED
    BY <1>1, <1>2, <1>5 DEF RowsOf

\* Taking over an open Session, or deciding to replace one, writes the row of the
\* request and its worker; no other row has the request's own Session yet.
LEMMA DecidedInv ==
    ASSUME Separate, IInv, NEW r \in Requests, NEW s \in Requests,
           NEW row \in IntentRows, NEW w \in WorkerRows,
           worker[r].stage = "decide", intent[s].session = s,
           intent' = [intent EXCEPT ![r] = row], worker' = [worker EXCEPT ![r] = w],
           UNCHANGED <<stripe, late, activation, licensed>>,
           row.account = intent[r].account, row.activation = intent[r].activation,
           \/ /\ w.stage = "over" /\ w.replaces = None /\ w.sent = s
              /\ row = intent[r] \/ /\ row.session = s /\ row.state = "open"
                                    /\ row.attempt = intent[s].attempt
           \/ /\ row.session = None /\ row.state = "pending" /\ w.replaces = s
              /\ w.sent = worker[r].sent
              /\ w.stage = "expire" \/ (w.stage = "create" /\ stripe[s] = "expired")
    PROVE  IInv'
<1>1. /\ intent[r].session = None /\ intent[r].state = "pending" /\ s # r
      /\ intent[r].account \in Accounts /\ intent[r].activation \in Activations
      /\ intent[r].account \notin licensed
      /\ intent \in [Requests -> IntentRows] /\ worker \in [Requests -> WorkerRows]
    BY DEF IInv, StagesMatch, RowsHaveSessions, OwnersOutside, Locked, TypeOK, Separate
<1>2. /\ \A t \in Requests : t # r => intent'[t] = intent[t] /\ worker'[t] = worker[t]
      /\ intent'[r] = row /\ worker'[r] = w
    BY <1>1
<1>3. /\ row.session \in {None, s}
      /\ row.session # None <=> row.state \in {"open", "completed"}
      /\ row.state # "absent" /\ w.stage # "idle" /\ w.stage # "commit"
      /\ w.stage # "over" => row.state = "pending"
      /\ row.session = s => row.attempt = intent[s].attempt
    BY <1>1, Separate DEF Separate
<1>4. /\ w.sent = s \/ w.sent = worker[r].sent
      /\ w.replaces \in {None, s} /\ (w.stage = "expire" => w.replaces = s)
      /\ w.stage \notin {"account", "activation", "decide"}
      /\ w.stage = "create" => stripe[s] = "expired"
    OBVIOUS
<1>5. TypeOK'
    BY <1>1 DEF IInv, TypeOK, IntentRows, WorkerRows, ActivationRows
<1>6. RowsHaveSessions'
    BY <1>2, <1>3 DEF IInv, RowsHaveSessions, Separate
<1>7. StagesMatch'
    BY <1>1, <1>2, <1>3, <1>4 DEF IInv, StagesMatch, Separate
<1>8. OwnersOutside'
    BY <1>1, <1>2 DEF IInv, OwnersOutside
<1>9. \A t \in Requests : intent[t].session # r
    BY <1>1 DEF IInv, SessionsHaveRows, Separate
<1>10. SessionsHaveRows'
  <2>1. ASSUME NEW t \in Requests, intent'[t].session # None
        PROVE  /\ intent'[intent'[t].session].session = intent'[t].session
               /\ intent'[intent'[t].session].attempt = intent'[t].attempt
    <3>1. CASE t = r
        BY <1>1, <1>2, <1>3, <2>1, <3>1
    <3>2. CASE t # r
      <4>1. intent[t].session \in Requests /\ intent[t].session # r
          BY <1>1, <1>2, <1>9, <2>1, <3>2 DEF IntentRows
      <4> QED
          BY <1>2, <2>1, <3>2, <4>1 DEF IInv, SessionsHaveRows
    <3> QED
        BY <3>1, <3>2
  <2> QED
      BY <2>1 DEF SessionsHaveRows
<1>11. NamedHaveRows'
    BY <1>1, <1>2, <1>4 DEF IInv, NamedHaveRows, Separate, WorkerRows
<1>12. AttachedHasRow'
    BY <1>1, <1>2 DEF IInv, AttachedHasRow, Separate, TypeOK, ActivationRows
<1>13. PayableRowIsAttached'
    BY <1>1, <1>2, <1>3 DEF IInv, PayableRowIsAttached, Separate
<1>14. ReplacedIsExpired'
    BY <1>2, <1>4 DEF IInv, ReplacedIsExpired
<1>15. CommitsOpen'
    BY <1>2, <1>3 DEF IInv, CommitsOpen
<1> QED
    BY <1>5, <1>6, <1>7, <1>8, <1>10, <1>11, <1>12, <1>13, <1>14, <1>15 DEF IInv

LEMMA DecideInv ==
    ASSUME Separate, IInv, NEW r \in Requests, Decide(r) PROVE IInv'
<1>1. /\ worker[r].stage = "decide" /\ worker[r].replaces = None
      /\ intent[r].activation \in Activations
      /\ intent[r].state = "pending" /\ intent[r].session = None
      /\ intent[r].account \notin licensed
      /\ intent[r] \in IntentRows /\ worker[r] \in WorkerRows
      /\ UNCHANGED <<stripe, late, activation, licensed>>
    BY DEF Decide, IInv, StagesMatch, RowsHaveSessions, OwnersOutside, Locked, TypeOK
<1>2. PICK s : s = activation[intent[r].activation].session
    OBVIOUS
<1>3. s \in Requests \cup {None}
    BY <1>1, <1>2 DEF IInv, TypeOK, ActivationRows
<1>4. CASE s = None
    BY <1>1, <1>2, <1>4, GotoInv DEF Decide, Stages
<1>5. CASE s # None /\ (intent[Attached(s)].state = "completed" \/ stripe[s] = "complete")
    BY <1>1, <1>2, <1>5, OverInv DEF Decide, SendToCompletion
<1>6. CASE /\ s # None /\ intent[Attached(s)].state # "completed" /\ stripe[s] # "complete"
  <2>1. s \in Requests /\ intent[s].session = s
      BY <1>1, <1>2, <1>3, <1>6 DEF IInv, AttachedHasRow
  <2>2. intent[Attached(s)].attempt = intent[s].attempt /\ intent[s].attempt \in Nat
      BY <2>1, AttachedAttempt
  <2>3. stripe[s] \in {"open", "expired"}
      BY <1>6, <2>1 DEF IInv, RowsHaveSessions, TypeOK, Separate
  <2>4. CASE Keepable(r, s) /\ stripe[s] = "open"
    <3>1. Reuse(r, s)
        BY <1>2, <1>6, <2>4 DEF Decide
    <3>2. PICK row : row = IF intent[s].offer # intent[r].offer THEN intent[r]
                           ELSE [intent[r] EXCEPT !.session = s, !.state = "open",
                                                  !.attempt = intent[s].attempt]
        OBVIOUS
    <3>3. PICK w : w = [worker[r] EXCEPT !.stage = "over", !.sent = s]
        OBVIOUS
    <3>4. intent' = [intent EXCEPT ![r] = row] /\ worker' = [worker EXCEPT ![r] = w]
        BY <2>2, <3>1, <3>2, <3>3 DEF Reuse, Hand, IInv, TypeOK
    <3>5. /\ row \in IntentRows /\ row.account = intent[r].account
          /\ row.activation = intent[r].activation
          /\ row = intent[r] \/ /\ row.session = s /\ row.state = "open"
                                /\ row.attempt = intent[s].attempt
        BY <1>1, <2>1, <2>2, <3>2 DEF IntentRows
    <3>6. w \in WorkerRows /\ w.stage = "over" /\ w.replaces = None /\ w.sent = s
        BY <1>1, <2>1, <3>3 DEF WorkerRows, Stages
    <3> QED
        BY <1>1, <2>1, <3>4, <3>5, <3>6, DecidedInv
  <2>5. CASE ~(Keepable(r, s) /\ stripe[s] = "open")
    <3>1. PICK stage : stage = IF stripe[s] = "open" THEN "expire" ELSE "create"
        OBVIOUS
    <3>2. Replace(r, s, stage)
        BY <1>2, <1>6, <2>5, <3>1 DEF Decide
    <3>3. PICK row : row = [intent[r] EXCEPT !.attempt = intent[s].attempt + 1]
        OBVIOUS
    <3>4. PICK w : w = [worker[r] EXCEPT !.stage = stage, !.replaces = s]
        OBVIOUS
    <3>5. intent' = [intent EXCEPT ![r] = row] /\ worker' = [worker EXCEPT ![r] = w]
        BY <2>2, <3>2, <3>3, <3>4 DEF Replace, IInv, TypeOK
    <3>6. /\ row \in IntentRows /\ row.account = intent[r].account
          /\ row.activation = intent[r].activation
          /\ row.session = None /\ row.state = "pending"
        BY <1>1, <2>2, <3>3 DEF IntentRows
    <3>7. /\ w \in WorkerRows /\ w.replaces = s /\ w.sent = worker[r].sent
          /\ w.stage = "expire" \/ (w.stage = "create" /\ stripe[s] = "expired")
        BY <1>1, <2>1, <2>3, <3>1, <3>4 DEF WorkerRows, Stages
    <3> QED
        BY <1>1, <2>1, <3>5, <3>6, <3>7, DecidedInv
  <2> QED
      BY <2>4, <2>5
<1> QED
    BY <1>4, <1>5, <1>6
-----------------------------------------------------------------------------
(* Stripe, buyers and time *)

\* Stripe moves one Session, which nobody takes back once it has expired; a
\* request may go on meanwhile.
LEMMA StripeInv ==
    ASSUME Separate, IInv, NEW s \in Requests,
           NEW state \in {"open", "complete", "expired"},
           stripe' = [stripe EXCEPT ![s] = state],
           UNCHANGED <<intent, activation, licensed>>,
           worker' \in [Requests -> WorkerRows], late \subseteq late', late' \subseteq Requests,
           \A r \in Requests :
             /\ worker'[r].sent = worker[r].sent /\ worker'[r].replaces = worker[r].replaces
             /\ \/ worker'[r].stage = worker[r].stage
                \/ /\ worker[r].stage = "expire" /\ worker'[r].stage = "create"
                   /\ worker[r].replaces = s /\ state = "expired"
                \/ r = s /\ worker[r].stage = "create" /\ worker'[r].stage = "commit",
           stripe[s] = "expired" => state = "expired" \/ worker[s].stage = "create",
           state \in {"open", "complete"} =>
               worker[s].stage = "create" \/ stripe[s] \in {"open", "complete"},
           worker'[s].stage = "commit" =>
               state = "open" \/ (state = "expired" /\ s \in late')
    PROVE  IInv'
<1>1. /\ stripe \in [Requests -> {"none", "open", "complete", "expired"}]
      /\ \A t \in Requests : t # s => stripe'[t] = stripe[t]
      /\ stripe'[s] = state
    BY DEF IInv, TypeOK
<1>2. TypeOK'
    BY <1>1 DEF IInv, TypeOK
<1>3. /\ worker[s].stage \in {"create", "commit"} => intent[s].session = None
      /\ \A t \in Requests : intent[t].session = s => worker[s].stage \notin {"create", "commit"}
      /\ \A t \in Requests : worker[t].replaces = s => worker[s].stage \notin {"create", "commit"}
  <2>1. worker[s].stage \in {"create", "commit"} => intent[s].session = None
      BY DEF IInv, StagesMatch, RowsHaveSessions
  <2>2. \A t \in Requests : intent[t].session = s => intent[s].session = s
      BY DEF IInv, SessionsHaveRows, Separate
  <2>3. \A t \in Requests : worker[t].replaces = s => intent[s].session = s
      BY DEF IInv, NamedHaveRows, Separate
  <2> QED
      BY <2>1, <2>2, <2>3 DEF Separate
<1>4. RowsHaveSessions'
  <2>1. \A r \in Requests : intent[r].session # None => stripe'[intent[r].session] # "none"
      BY <1>1 DEF IInv, RowsHaveSessions, TypeOK, IntentRows
  <2> QED
      BY <2>1 DEF IInv, RowsHaveSessions
<1>5. StagesMatch'
    BY DEF IInv, StagesMatch
<1>6. OwnersOutside'
    BY DEF IInv, OwnersOutside, Locked
<1>7. SessionsHaveRows' /\ AttachedHasRow'
    BY DEF IInv, SessionsHaveRows, AttachedHasRow
<1>8. NamedHaveRows'
    BY DEF IInv, NamedHaveRows
<1>9. PayableRowIsAttached'
    BY <1>1, <1>3 DEF IInv, PayableRowIsAttached
<1>10. ReplacedIsExpired'
  <2>1. ASSUME NEW r \in Requests, worker'[r].stage \in {"create", "commit"},
               worker'[r].replaces # None
        PROVE  stripe'[worker'[r].replaces] = "expired"
    <3>1. worker'[r].replaces = worker[r].replaces /\ worker[r].replaces \in Requests
        BY <2>1 DEF IInv, TypeOK, WorkerRows
    <3>2. CASE worker[r].stage \in {"create", "commit"}
      <4>1. stripe[worker[r].replaces] = "expired"
          BY <2>1, <3>1, <3>2 DEF IInv, ReplacedIsExpired
      <4> QED
          BY <1>1, <1>3, <3>1, <4>1
    <3>3. CASE worker[r].stage \notin {"create", "commit"}
        BY <1>1, <2>1, <3>1, <3>3
    <3> QED
        BY <3>2, <3>3
  <2> QED
      BY <2>1 DEF ReplacedIsExpired
<1>11. CommitsOpen'
    BY <1>1 DEF IInv, CommitsOpen
<1> QED
    BY <1>2, <1>4, <1>5, <1>6, <1>7, <1>8, <1>9, <1>10, <1>11 DEF IInv

\* What Goto does to the workers.
LEMMA GotoFacts ==
    ASSUME IInv, NEW r \in Requests, NEW stage \in Stages, Goto(r, stage)
    PROVE  /\ worker' \in [Requests -> WorkerRows] /\ worker'[r].stage = stage
           /\ \A t \in Requests : /\ t # r => worker'[t] = worker[t]
                                  /\ worker'[t].sent = worker[t].sent
                                  /\ worker'[t].replaces = worker[t].replaces
<1>1. worker \in [Requests -> WorkerRows]
    BY DEF IInv, TypeOK
<1> QED
    BY <1>1 DEF Goto, WorkerRows

LEMMA ExpireOldInv ==
    ASSUME Separate, IInv, NEW r \in Requests, ExpireOld(r) PROVE IInv'
<1>1. PICK s \in Requests : s = worker[r].replaces
    BY DEF ExpireOld, IInv, StagesMatch, TypeOK, WorkerRows
<1>2. CASE stripe[s] = "complete"
    BY <1>1, <1>2, OverInv DEF ExpireOld
<1>3. CASE stripe[s] # "complete"
  <2> DEFINE state == "expired"
  <2>1. /\ stripe' = [stripe EXCEPT ![s] = state] /\ Goto(r, "create")
        /\ worker[r].stage = "expire" /\ UNCHANGED <<intent, late, activation, licensed>>
      BY <1>1, <1>3 DEF ExpireOld
  <2>2. intent[s].session = s /\ late \subseteq Requests
      BY <1>1 DEF IInv, NamedHaveRows, Separate, TypeOK
  <2>3. worker[s].stage # "commit" /\ s # r
      BY <2>1, <2>2 DEF IInv, StagesMatch, RowsHaveSessions, Separate
  <2>4. /\ worker' \in [Requests -> WorkerRows] /\ worker'[r].stage = "create"
        /\ \A t \in Requests : /\ t # r => worker'[t] = worker[t]
                               /\ worker'[t].sent = worker[t].sent
                               /\ worker'[t].replaces = worker[t].replaces
      BY <2>1, GotoFacts DEF Stages
  <2>5. \A t \in Requests :
           /\ worker'[t].sent = worker[t].sent /\ worker'[t].replaces = worker[t].replaces
           /\ \/ worker'[t].stage = worker[t].stage
              \/ /\ worker[t].stage = "expire" /\ worker'[t].stage = "create"
                 /\ worker[t].replaces = s /\ state = "expired"
              \/ t = s /\ worker[t].stage = "create" /\ worker'[t].stage = "commit"
      BY <1>1, <2>1, <2>4
  <2>6. worker'[s].stage = "commit" => state = "open" \/ (state = "expired" /\ s \in late')
      BY <2>3, <2>4
  <2>7. late \subseteq late' /\ late' \subseteq Requests /\ UNCHANGED <<intent, activation, licensed>>
      BY <2>1, <2>2
  <2>8. worker' \in [Requests -> WorkerRows]
      BY <2>4
  <2>9. stripe' = [stripe EXCEPT ![s] = state]
      BY <2>1
  <2>10. /\ state \in {"open", "complete", "expired"}
         /\ stripe[s] = "expired" => state = "expired" \/ worker[s].stage = "create"
         /\ state \in {"open", "complete"} =>
              worker[s].stage = "create" \/ stripe[s] \in {"open", "complete"}
      OBVIOUS
  <2> HIDE DEF state
  <2> QED
      BY <2>5, <2>6, <2>7, <2>8, <2>9, <2>10, StripeInv
<1> QED
    BY <1>2, <1>3

LEMMA CreateSessionInv ==
    ASSUME Separate, IInv, NEW r \in Requests, CreateSession(r) PROVE IInv'
<1>1. CASE intent[r].activation # None /\ activation[intent[r].activation].age # "ample"
    BY <1>1, OverInv DEF CreateSession
<1>2. CASE ~(intent[r].activation # None /\ activation[intent[r].activation].age # "ample")
  <2>1. /\ stripe' = [stripe EXCEPT ![r] = "open"] /\ Goto(r, "commit")
        /\ worker[r].stage = "create" /\ UNCHANGED <<intent, late, activation, licensed>>
      BY <1>2 DEF CreateSession
  <2>2. /\ worker' \in [Requests -> WorkerRows] /\ worker'[r].stage = "commit"
        /\ \A t \in Requests : /\ t # r => worker'[t] = worker[t]
                               /\ worker'[t].sent = worker[t].sent
                               /\ worker'[t].replaces = worker[t].replaces
      BY <2>1, GotoFacts DEF Stages
  <2>3. late \subseteq late' /\ late' \subseteq Requests /\ UNCHANGED <<intent, activation, licensed>>
      BY <2>1 DEF IInv, TypeOK
  <2>4. \A t \in Requests :
           /\ worker'[t].sent = worker[t].sent /\ worker'[t].replaces = worker[t].replaces
           /\ \/ worker'[t].stage = worker[t].stage
              \/ t = r /\ worker[t].stage = "create" /\ worker'[t].stage = "commit"
      BY <2>1, <2>2
  <2>5. worker' \in [Requests -> WorkerRows]
      BY <2>2
  <2>6. stripe' = [stripe EXCEPT ![r] = "open"] /\ worker[r].stage = "create"
      BY <2>1
  <2> QED
      BY <2>3, <2>4, <2>5, <2>6, StripeInv
<1> QED
    BY <1>1, <1>2

LEMMA PayInv ==
    ASSUME Separate, IInv, NEW s \in Requests, Pay(s) PROVE IInv'
<1>1. intent[s].session = s
    BY DEF Pay, Handed, IInv, NamedHaveRows, Separate
<1>2. worker[s].stage # "commit"
    BY <1>1 DEF IInv, StagesMatch, RowsHaveSessions, Separate
<1>3. worker \in [Requests -> WorkerRows] /\ late \subseteq Requests
    BY DEF IInv, TypeOK
<1> QED
    BY <1>2, <1>3, StripeInv DEF Pay

LEMMA LapseInv ==
    ASSUME Separate, IInv, NEW s \in Requests, Lapse(s) PROVE IInv'
<1>1. /\ worker \in [Requests -> WorkerRows] /\ late \subseteq Requests
      /\ stripe[s] \in {"open", "complete", "expired"}
    BY DEF Lapse, IInv, TypeOK
<1>2. PICK state : state = IF stripe[s] = "open" THEN "expired" ELSE stripe[s]
    OBVIOUS
<1>3. stripe' = [stripe EXCEPT ![s] = state] /\ state \in {"complete", "expired"}
    BY <1>1, <1>2 DEF Lapse
<1>4. /\ late' = late \cup {s} /\ UNCHANGED <<intent, worker, activation, licensed>>
    BY DEF Lapse
<1>5. worker[s].stage = "commit" => stripe[s] # "complete"
    BY DEF IInv, CommitsOpen
<1> QED
    BY <1>1, <1>2, <1>3, <1>4, <1>5, StripeInv

LEMMA AgeInv ==
    ASSUME Separate, IInv, NEW a \in Activations, Age(a) PROVE IInv'
<1>1. activation \in [Activations -> ActivationRows]
    BY DEF IInv, TypeOK
<1>2. /\ activation' \in [Activations -> ActivationRows]
      /\ \A b \in Activations : activation'[b].session = activation[b].session
    BY <1>1 DEF Age, ActivationRows
<1>3. UNCHANGED <<intent, worker, stripe, late, licensed>>
    BY DEF Age
<1>4. TypeOK'
    BY <1>2, <1>3 DEF IInv, TypeOK
<1>5. RowsHaveSessions' /\ StagesMatch' /\ OwnersOutside'
    BY <1>3 DEF IInv, RowsHaveSessions, StagesMatch, OwnersOutside
<1>6. SessionsHaveRows' /\ NamedHaveRows' /\ ReplacedIsExpired' /\ CommitsOpen'
    BY <1>3 DEF IInv, SessionsHaveRows, NamedHaveRows, ReplacedIsExpired, CommitsOpen
<1>7. AttachedHasRow' /\ PayableRowIsAttached'
    BY <1>2, <1>3 DEF IInv, AttachedHasRow, PayableRowIsAttached
<1> QED
    BY <1>4, <1>5, <1>6, <1>7 DEF IInv
-----------------------------------------------------------------------------
(* Commit and fulfilment *)

\* A Session that is committed replaces one that has expired, or none.
LEMMA CommitInv ==
    ASSUME Separate, IInv, NEW r \in Requests, Commit(r) PROVE IInv'
<1>1. /\ worker[r].stage = "commit" /\ intent[r].session = None /\ intent[r].state = "pending"
      /\ intent[r].account \in Accounts /\ intent[r] \in IntentRows
      /\ intent \in [Requests -> IntentRows] /\ worker \in [Requests -> WorkerRows]
      /\ activation \in [Activations -> ActivationRows]
      /\ stripe[r] \in {"open", "expired"} /\ r # None
      /\ UNCHANGED <<stripe, late, licensed>>
    BY DEF Commit, IInv, StagesMatch, RowsHaveSessions, CommitsOpen, TypeOK, Separate
<1>2. PICK a : a = intent[r].activation
    OBVIOUS
<1>3. CASE a # None /\ ~Attachable(r)
    BY <1>2, <1>3, OverInv DEF Commit
<1>4. CASE ~(a # None /\ ~Attachable(r))
  <2>1. a \in Activations \cup {None}
      BY <1>1, <1>2 DEF IntentRows
  <2>2. PICK row : row = [intent[r] EXCEPT !.session = r, !.state = "open"]
      OBVIOUS
  <2>3. /\ row \in IntentRows /\ row.session = r /\ row.state = "open"
        /\ row.account = intent[r].account /\ row.activation = a
      BY <1>1, <1>2, <2>2 DEF IntentRows
  <2>4. intent' = [intent EXCEPT ![r] = row]
      BY <1>1, <1>2, <1>4, <2>2 DEF Commit
  <2>5. /\ intent'[r] = row /\ \A t \in Requests : t # r => intent'[t] = intent[t]
      BY <1>1, <2>4
  <2>6. PICK w : w = [worker[r] EXCEPT !.stage = "over", !.sent = r]
      OBVIOUS
  <2>7. /\ w \in WorkerRows /\ w.stage = "over" /\ w.sent = r
        /\ w.replaces = worker[r].replaces
      BY <1>1, <2>6 DEF WorkerRows, Stages
  <2>8. worker' = [worker EXCEPT ![r] = w]
      BY <1>1, <1>2, <1>4, <2>6 DEF Commit, Hand
  <2>9. worker'[r] = w /\ \A t \in Requests : t # r => worker'[t] = worker[t]
      BY <1>1, <2>8
  <2>10. /\ activation' \in [Activations -> ActivationRows]
         /\ a # None => activation'[a].session = r
         /\ \A b \in Activations : b # a => activation'[b] = activation[b]
    <3>1. CASE a = None
        BY <1>1, <1>2, <1>4, <2>1, <3>1 DEF Commit, Separate
    <3>2. CASE a # None
      <4>1. activation' = [activation EXCEPT ![a].session = r]
          BY <1>2, <1>4, <3>2 DEF Commit
      <4> QED
          BY <1>1, <2>1, <3>2, <4>1 DEF ActivationRows
    <3> QED
        BY <3>1, <3>2
  <2>11. \A t \in Requests : intent[t].session # r
      BY <1>1 DEF IInv, SessionsHaveRows
  <2>12. TypeOK'
      BY <1>1, <2>3, <2>4, <2>7, <2>8, <2>10 DEF IInv, TypeOK
  <2>13. RowsHaveSessions'
      BY <1>1, <2>3, <2>5, <2>7, <2>9 DEF IInv, RowsHaveSessions
  <2>14. StagesMatch'
      BY <1>1, <2>3, <2>5, <2>7, <2>9 DEF IInv, StagesMatch
  <2>15. OwnersOutside'
      BY <1>1, <2>3, <2>5, <2>7, <2>9 DEF IInv, OwnersOutside, Locked
  <2>16. SessionsHaveRows'
    <3>1. ASSUME NEW t \in Requests, intent'[t].session # None
          PROVE  /\ intent'[intent'[t].session].session = intent'[t].session
                 /\ intent'[intent'[t].session].attempt = intent'[t].attempt
      <4>1. CASE t = r
          BY <2>3, <2>5, <4>1
      <4>2. CASE t # r
        <5>1. intent[t].session \in Requests /\ intent[t].session # r
            BY <1>1, <2>5, <2>11, <3>1, <4>2 DEF IntentRows
        <5> QED
            BY <2>5, <3>1, <4>2, <5>1 DEF IInv, SessionsHaveRows
      <4> QED
          BY <4>1, <4>2
    <3> QED
        BY <3>1 DEF SessionsHaveRows
  <2>17. NamedHaveRows'
    <3>1. \A t \in Requests :
             /\ worker[t].sent # None =>
                  worker[t].sent \in Requests /\ intent[worker[t].sent].session = worker[t].sent
             /\ worker[t].replaces # None =>
                  /\ worker[t].replaces \in Requests
                  /\ intent[worker[t].replaces].session = worker[t].replaces
        BY <1>1 DEF IInv, NamedHaveRows, WorkerRows
    <3> QED
        BY <1>1, <2>3, <2>5, <2>7, <2>9, <3>1 DEF NamedHaveRows
  <2>18. AttachedHasRow'
    <3>1. \A b \in Activations : activation[b].session # None =>
             activation[b].session \in Requests /\ activation[b].session # r
        BY <1>1 DEF IInv, AttachedHasRow, ActivationRows
    <3>2. ASSUME NEW b \in Activations, activation'[b].session # None
          PROVE  /\ intent'[activation'[b].session].activation = b
                 /\ intent'[activation'[b].session].session = activation'[b].session
      <4>1. CASE b = a
        <5>1. activation'[b].session = r
            BY <2>1, <2>10, <4>1 DEF Separate
        <5> QED
            BY <2>3, <2>5, <4>1, <5>1
      <4>2. CASE b # a
        <5>1. activation'[b].session = activation[b].session
            BY <2>10, <4>2
        <5>2. /\ activation[b].session \in Requests /\ activation[b].session # r
              /\ intent[activation[b].session].activation = b
              /\ intent[activation[b].session].session = activation[b].session
            BY <3>1, <3>2, <5>1 DEF IInv, AttachedHasRow
        <5> QED
            BY <2>5, <5>1, <5>2
      <4> QED
          BY <4>1, <4>2
    <3> QED
        BY <3>2 DEF AttachedHasRow
  <2>19. PayableRowIsAttached'
    <3>1. ASSUME NEW s \in Requests, intent'[s].session = s, stripe[s] \in {"open", "complete"},
                 intent'[s].activation \in Activations
          PROVE  activation'[intent'[s].activation].session = s
      <4>1. CASE s = r
          BY <2>3, <2>5, <2>10, <3>1, <4>1 DEF Separate
      <4>2. CASE s # r
        <5>1. activation[intent[s].activation].session = s
            BY <2>5, <3>1, <4>2 DEF IInv, PayableRowIsAttached
        <5>2. CASE intent[s].activation # a
            BY <2>5, <2>10, <3>1, <4>2, <5>1, <5>2
        <5>3. CASE intent[s].activation = a
          <6>1. a # None /\ activation[a].session \in {None, worker[r].replaces}
              BY <1>2, <1>4, <2>5, <3>1, <4>2, <5>3 DEF Attachable, Separate
          <6>2. worker[r].replaces = s /\ s # None
              BY <5>1, <5>3, <6>1 DEF Separate
          <6>3. stripe[s] = "expired"
              BY <1>1, <6>2 DEF IInv, ReplacedIsExpired
          <6> QED
              BY <3>1, <6>3
        <5> QED
            BY <5>2, <5>3
      <4> QED
          BY <4>1, <4>2
    <3> QED
        BY <1>1, <3>1 DEF PayableRowIsAttached
  <2>20. ReplacedIsExpired' /\ CommitsOpen'
      BY <1>1, <2>7, <2>9 DEF IInv, ReplacedIsExpired, CommitsOpen
  <2> QED
      BY <2>12, <2>13, <2>14, <2>15, <2>16, <2>17, <2>18, <2>19, <2>20 DEF IInv
<1> QED
    BY <1>3, <1>4

\* Fulfilment waits for the account's lock, so nobody who holds it becomes an
\* owner behind his own back.
LEMMA FulfilInv ==
    ASSUME Separate, IInv, NEW s \in Requests, Fulfil(s) PROVE IInv'
<1>1. /\ intent[s].session = s /\ s # None /\ intent[s].state = "open"
      /\ AccountFree(intent[s].account)
      /\ licensed' = licensed \cup {intent[s].account}
      /\ intent' = [x \in Requests |-> IF x \in Requests /\ intent[x].session = s
                                       THEN [intent[x] EXCEPT !.state = "completed"] ELSE intent[x]]
      /\ UNCHANGED <<worker, stripe, late>>
    BY DEF Fulfil, Separate
<1>2. /\ intent \in [Requests -> IntentRows] /\ activation \in [Activations -> ActivationRows]
      /\ intent[s].account \in Accounts
    BY <1>1 DEF IInv, TypeOK, StagesMatch
<1>3. \A x \in Requests :
        /\ intent'[x] \in IntentRows
        /\ intent'[x].account = intent[x].account /\ intent'[x].activation = intent[x].activation
        /\ intent'[x].session = intent[x].session /\ intent'[x].attempt = intent[x].attempt
        /\ intent'[x].state = IF intent[x].session = s THEN "completed" ELSE intent[x].state
  <2>1. ASSUME NEW x \in Requests
        PROVE  /\ intent'[x] \in IntentRows
               /\ intent'[x].account = intent[x].account
               /\ intent'[x].activation = intent[x].activation
               /\ intent'[x].session = intent[x].session /\ intent'[x].attempt = intent[x].attempt
               /\ intent'[x].state = IF intent[x].session = s THEN "completed" ELSE intent[x].state
    <3>1. intent[x] \in IntentRows
        BY <1>2
    <3>2. CASE intent[x].session = s
      <4>1. intent'[x] = [intent[x] EXCEPT !.state = "completed"]
          BY <1>1, <3>2
      <4> QED
          BY <3>1, <3>2, <4>1 DEF IntentRows
    <3>3. CASE intent[x].session # s
      <4>1. intent'[x] = intent[x]
          BY <1>1, <3>3
      <4> QED
          BY <3>1, <3>3, <4>1
    <3> QED
        BY <3>2, <3>3
  <2> QED
      BY <2>1
<1>4. /\ activation' \in [Activations -> ActivationRows]
      /\ \A b \in Activations : activation'[b].session = activation[b].session
  <2>1. CASE Bindable(s)
    <3>1. intent[s].activation \in Activations
        BY <1>2, <2>1 DEF Bindable, IntentRows
    <3>2. activation' = [activation EXCEPT ![intent[s].activation].account = intent[s].account]
        BY <2>1 DEF Fulfil
    <3> QED
        BY <1>2, <3>1, <3>2 DEF ActivationRows
  <2>2. CASE ~Bindable(s)
      BY <1>2, <2>2 DEF Fulfil
  <2> QED
      BY <2>1, <2>2
<1>5. TypeOK'
  <2>1. intent' \in [Requests -> IntentRows]
      BY <1>1, <1>3
  <2> QED
      BY <1>1, <1>2, <1>4, <2>1 DEF IInv, TypeOK
<1>6. RowsHaveSessions'
    BY <1>1, <1>3 DEF IInv, RowsHaveSessions
<1>7. StagesMatch'
  <2>1. \A x \in Requests : intent[x].session = s => intent[x].state \in {"open", "completed"}
      BY <1>1 DEF IInv, RowsHaveSessions
  <2>2. \A x \in Requests : intent'[x].state # "absent" => intent[x].state # "absent"
      BY <1>3, <2>1
  <2>3. \A x \in Requests : intent[x].state = "pending" => intent'[x].state = "pending"
      BY <1>3, <2>1
  <2> QED
      BY <1>1, <1>3, <2>2, <2>3 DEF IInv, StagesMatch
<1>8. OwnersOutside'
    BY <1>1, <1>3 DEF IInv, OwnersOutside, Locked, AccountFree, Holding
<1>9. SessionsHaveRows' /\ NamedHaveRows'
    BY <1>1, <1>3 DEF IInv, SessionsHaveRows, NamedHaveRows, TypeOK, IntentRows, WorkerRows
<1>10. AttachedHasRow' /\ PayableRowIsAttached'
    BY <1>1, <1>2, <1>3, <1>4
       DEF IInv, AttachedHasRow, PayableRowIsAttached, ActivationRows
<1>11. ReplacedIsExpired' /\ CommitsOpen'
    BY <1>1 DEF IInv, ReplacedIsExpired, CommitsOpen
<1> QED
    BY <1>5, <1>6, <1>7, <1>8, <1>9, <1>10, <1>11 DEF IInv

-----------------------------------------------------------------------------
LEMMA NextInv == ASSUME Separate, IInv, [Next]_vars PROVE IInv'
<1>1. CASE UNCHANGED vars
    BY <1>1 DEF vars, IInv, TypeOK, RowsHaveSessions, StagesMatch, OwnersOutside,
                SessionsHaveRows, NamedHaveRows, AttachedHasRow, PayableRowIsAttached,
                ReplacedIsExpired, CommitsOpen
<1>2. CASE \E r \in Requests, acc \in Accounts, a \in Activations \cup {None}, o \in Offers :
             CreateIntent(r, acc, a, o)
    BY <1>2, CreateIntentInv
<1>3. ASSUME NEW r \in Requests,
             \/ LockAccount(r) \/ LockActivation(r) \/ Decide(r) \/ ExpireOld(r)
             \/ CreateSession(r) \/ Commit(r) \/ Die(r)
             \/ Pay(r) \/ Fulfil(r) \/ Lapse(r)
      PROVE  IInv'
    BY <1>3, LockAccountInv, LockActivationInv, DecideInv, ExpireOldInv, CreateSessionInv,
       CommitInv, DieInv, PayInv, FulfilInv, LapseInv
<1>4. CASE \E a \in Activations : Age(a)
    BY <1>4, AgeInv
<1> QED
    BY <1>1, <1>2, <1>3, <1>4 DEF Next

LEMMA Invariance == ASSUME Separate PROVE Spec => []IInv
<1>1. Init => IInv
    BY InitInv
<1>2. IInv /\ [Next]_vars => IInv'
    BY NextInv
<1> QED
    BY <1>1, <1>2, PTL DEF Spec
-----------------------------------------------------------------------------
(* What the runs check *)

\* Every state of the component has its types.
THEOREM TypeCorrect == ASSUME Separate PROVE Spec => []TypeOK
<1>1. IInv => TypeOK
    BY DEF IInv
<1> QED
    BY <1>1, Invariance, PTL

\* A row is open or completed exactly when it has a Session, and Stripe knows
\* that Session (attachCheckoutSessionToActivation, fulfillCheckoutSession).
THEOREM SessionsKnown == ASSUME Separate PROVE Spec => []RowsHaveSessions
<1>1. IInv => RowsHaveSessions
    BY DEF IInv
<1> QED
    BY <1>1, Invariance, PTL

\* Of the Sessions of an activation that a browser was sent to, only the one
\* attached can be paid (createOrReuseCheckoutSession).
THEOREM PayableAttached == ASSUME Separate PROVE Spec => []PayableIsAttached
<1>1. IInv => PayableIsAttached
  <2> SUFFICES ASSUME Separate, IInv, NEW s \in Requests, Handed(s),
                      stripe[s] \in {"open", "complete"}, intent[s].activation # None
               PROVE  activation[intent[s].activation].session = s
      BY DEF PayableIsAttached
  <2>1. intent[s].session = s
      BY DEF Handed, IInv, NamedHaveRows, Separate
  <2>2. intent[s].activation \in Activations
      BY DEF IInv, TypeOK, IntentRows
  <2> QED
      BY <2>1, <2>2 DEF IInv, PayableRowIsAttached
<1> QED
    BY <1>1, Invariance, PTL

-----------------------------------------------------------------------------
(* Who opens a Session, and who is sent to one *)

\* Every operation but CreateSession leaves a Session without a payment page
\* as it is.
LEMMA OpenedByItsRequest ==
    ASSUME Separate, IInv, [Next]_vars, NEW s \in Requests,
           stripe[s] = "none", stripe'[s] = "open"
    PROVE  CreateSession(s)
<1>1. stripe \in [Requests -> {"none", "open", "complete", "expired"}] /\ stripe' # stripe
    BY DEF IInv, TypeOK
<1>2. ASSUME NEW r \in Requests, ExpireOld(r) PROVE FALSE
  <2>1. PICK x : x = worker[r].replaces
      OBVIOUS
  <2> QED
      BY <1>1, <1>2, <2>1 DEF ExpireOld
<1>3. ASSUME NEW r \in Requests, Pay(r) PROVE FALSE
    BY <1>1, <1>3 DEF Pay
<1>4. ASSUME NEW r \in Requests, Lapse(r) PROVE FALSE
    BY <1>1, <1>4 DEF Lapse
<1>5. ASSUME NEW r \in Requests, CreateSession(r) PROVE CreateSession(s)
    BY <1>1, <1>5 DEF CreateSession
<1>6. ASSUME NEW r \in Requests,
             \/ LockAccount(r) \/ LockActivation(r) \/ Decide(r) \/ Commit(r)
             \/ Die(r) \/ Fulfil(r)
      PROVE  FALSE
    BY <1>1, <1>6 DEF LockAccount, LockActivation, Decide, Commit, Die, Fulfil
<1>7. ASSUME NEW r \in Requests, NEW acc \in Accounts, NEW a \in Activations \cup {None},
             NEW o \in Offers, CreateIntent(r, acc, a, o)
      PROVE  FALSE
    BY <1>1, <1>7 DEF CreateIntent
<1>8. ASSUME NEW a \in Activations, Age(a) PROVE FALSE
    BY <1>1, <1>8 DEF Age
<1>9. CASE UNCHANGED vars
    BY <1>1, <1>9 DEF vars
<1> QED
    BY <1>2, <1>3, <1>4, <1>5, <1>6, <1>7, <1>8, <1>9 DEF Next

\* No Session is opened for an account that owns a licence: the eligibility
\* lock is held from the check to the creation, and fulfilment waits for it.
THEOREM OwnersNotCharged == ASSUME Separate PROVE Spec => OwnersAreNotCharged
<1>1. IInv /\ [Next]_vars
        => [\A s \in Requests : stripe[s] = "none" /\ stripe'[s] = "open"
              => intent[s].account \notin licensed]_vars
  <2> SUFFICES ASSUME IInv, [Next]_vars, NEW s \in Requests,
                      stripe[s] = "none", stripe'[s] = "open"
               PROVE  intent[s].account \notin licensed
      OBVIOUS
  <2>1. CreateSession(s)
      BY OpenedByItsRequest
  <2> QED
      BY <2>1 DEF CreateSession, IInv, OwnersOutside, Locked
<1> QED
    BY <1>1, Invariance, PTL DEF Spec, OwnersAreNotCharged

\* A browser is sent by a request that keeps the open Session, or by the one
\* that committed its own.
LEMMA SentByReuseOrCommit ==
    ASSUME Separate, IInv, [Next]_vars, NEW r \in Requests, NEW s \in Requests,
           worker[r].sent = None, worker'[r].sent = s
    PROVE  \/ stripe[s] = "open"
           \/ s = r /\ worker[r].stage = "commit"
<1>1. worker \in [Requests -> WorkerRows] /\ worker'[r].sent # worker[r].sent
    BY DEF IInv, TypeOK, Separate
<1>2. ASSUME NEW t \in Requests, NEW stage, Goto(t, stage) PROVE FALSE
    BY <1>1, <1>2 DEF Goto, WorkerRows
<1>3. ASSUME NEW t \in Requests, NEW x, Hand(t, x) PROVE t = r /\ x = s
    BY <1>1, <1>3 DEF Hand, WorkerRows
<1>4. ASSUME NEW t \in Requests, Decide(t) PROVE stripe[s] = "open"
  <2>1. PICK x : x = activation[intent[t].activation].session
      OBVIOUS
  <2>2. ASSUME NEW stage, Replace(t, x, stage) PROVE FALSE
      BY <1>1, <2>2 DEF Replace, WorkerRows
  <2>3. CASE x = None
      BY <1>2, <1>4, <2>1, <2>3 DEF Decide
  <2>4. CASE x # None /\ (intent[Attached(x)].state = "completed" \/ stripe[x] = "complete")
      BY <1>2, <1>4, <2>1, <2>4 DEF Decide, SendToCompletion, Over
  <2>5. CASE /\ x # None /\ ~(intent[Attached(x)].state = "completed" \/ stripe[x] = "complete")
             /\ Keepable(t, x) /\ stripe[x] = "open"
    <3>1. Hand(t, x)
        BY <1>4, <2>1, <2>5 DEF Decide, Reuse
    <3> QED
        BY <1>3, <2>5, <3>1
  <2>6. CASE /\ x # None /\ ~(intent[Attached(x)].state = "completed" \/ stripe[x] = "complete")
             /\ ~(Keepable(t, x) /\ stripe[x] = "open")
      BY <1>4, <2>1, <2>2, <2>6 DEF Decide
  <2> QED
      BY <2>3, <2>4, <2>5, <2>6
<1>5. ASSUME NEW t \in Requests, Commit(t) PROVE s = r /\ worker[r].stage = "commit"
  <2>1. Over(t) \/ Hand(t, t)
      BY <1>5 DEF Commit
  <2> QED
      BY <1>2, <1>3, <1>5, <2>1 DEF Commit, Over
<1>6. ASSUME NEW t \in Requests,
             LockAccount(t) \/ LockActivation(t) \/ ExpireOld(t) \/ CreateSession(t) \/ Die(t)
      PROVE  FALSE
    BY <1>2, <1>6 DEF LockAccount, LockActivation, ExpireOld, CreateSession, Die, Over
<1>7. ASSUME NEW t \in Requests, Pay(t) \/ Fulfil(t) \/ Lapse(t) PROVE FALSE
    BY <1>1, <1>7 DEF Pay, Fulfil, Lapse
<1>8. ASSUME NEW t \in Requests, NEW acc \in Accounts, NEW a \in Activations \cup {None},
             NEW o \in Offers, CreateIntent(t, acc, a, o)
      PROVE  FALSE
    BY <1>2, <1>8 DEF CreateIntent
<1>9. ASSUME NEW a \in Activations, Age(a) PROVE FALSE
    BY <1>1, <1>9 DEF Age
<1>10. CASE UNCHANGED vars
    BY <1>1, <1>10 DEF vars
<1> QED
    BY <1>4, <1>5, <1>6, <1>7, <1>8, <1>9, <1>10 DEF Next

\* A browser is sent to a Session only while Stripe takes its payment, if its
\* time has not run out meanwhile.
THEOREM HandedOpen == ASSUME Separate PROVE Spec => HandedIsOpen
<1>1. IInv /\ [Next]_vars
        => [\A r, s \in Requests :
              worker[r].sent = None /\ worker'[r].sent = s
                => stripe[s] \in {"open", "complete"} \/ s \in late]_vars
  <2> SUFFICES ASSUME IInv, [Next]_vars, NEW r \in Requests, NEW s \in Requests,
                      worker[r].sent = None, worker'[r].sent = s
               PROVE  stripe[s] \in {"open", "complete"} \/ s \in late
      OBVIOUS
  <2>1. stripe[s] = "open" \/ (s = r /\ worker[r].stage = "commit")
      BY SentByReuseOrCommit
  <2> QED
      BY <2>1 DEF IInv, CommitsOpen
<1> QED
    BY <1>1, Invariance, PTL DEF Spec, HandedIsOpen

-----------------------------------------------------------------------------
(* The offer of an intent (UpgradePricing), for the same requests and        *)
(* accounts, any connections, buckets and rollouts.                          *)

CONSTANTS Connections, Bucket, Rollouts, Historical
VARIABLES conn, row, request, expired

Pricing == INSTANCE UpgradePricing

USE DEF Pricing!ConnectionRows, Pricing!RequestRows

Inside == {"locked", "decided", "proved"}
Began == Inside \cup {"begun"}
Arms == {"control_one_time", "annual_same_price"}
Buyer(r) == request[r].input.account

\* A connection in use has one user, who is under way; a user that has locked
\* its account has it among the locks of its connection.
ConnectionsMatch ==
    /\ \A r \in Requests : request[r].at # "idle" => request[r].input \in Pricing!Inputs
    /\ \A c \in Connections : conn[c].by # None => request[conn[c].by].at \in Began
    /\ \A c, d \in Connections : conn[c].by # None /\ conn[c].by = conn[d].by => c = d
    /\ \A r \in Requests : request[r].at \in Inside =>
         \E c \in Connections : conn[c].by = r /\ Buyer(r) \in conn[c].locks

LocksAreExclusive ==
    \A c, d \in Connections : \A a \in Accounts :
        a \in conn[c].locks /\ a \in conn[d].locks => c = d

NoneIsLicensed == \A r \in Requests : request[r].at \in Inside => Buyer(r) \notin licensed

\* The assignment that a decision rests on is the account's.
Permanent(r) ==
    request[r].decision.assigned =>
        IF Buyer(r) \in Historical
        THEN request[r].decision.experiment = "v1" /\ request[r].decision.variant = "monthly_half"
        ELSE row[Buyer(r)] # None /\ row[Buyer(r)].variant = request[r].decision.variant

\* What is going to be assigned is an arm, to an account that has none.
PersistsOnce(r) ==
    request[r].at \in {"decided", "proved"} /\ request[r].decision.persists =>
        /\ request[r].decision.experiment = "v2" /\ request[r].decision.variant \in Arms
        /\ row[Buyer(r)] = None /\ Buyer(r) \notin Historical

\* What a request has decided can be read back, and is offered as it is billed.
DecisionHolds(r) ==
    /\ request[r].at \in {"idle", "begun", "locked", "decided"} => request[r].offer = "one_time"
    /\ request[r].at = "idle" => ~request[r].decision.assigned
    /\ request[r].at \in {"decided", "proved", "committed"} => Pricing!Readable(request[r].decision)
    /\ request[r].at \in {"proved", "committed"} =>
         request[r].offer = Pricing!OfferOf(request[r].decision.variant)
    /\ Permanent(r) /\ PersistsOnce(r)

DecisionsHold == \A r \in Requests : DecisionHolds(r)

RowsAreArms == \A a \in Accounts : row[a] # None => row[a].variant \in Arms

ConnInv == ConnectionsMatch /\ LocksAreExclusive /\ Pricing!StrayLocks /\ NoneIsLicensed
ArmInv == DecisionsHold /\ RowsAreArms /\ Pricing!BalanceIsClean
PricingInv == Pricing!TypeOK /\ ConnInv /\ ArmInv

LEMMA PricingInit == ASSUME Pricing!PricingAssumption, Pricing!Init PROVE PricingInv
<1> USE DEF Pricing!Init, Pricing!PricingAssumption
<1>1. Pricing!TypeOK
    BY DEF Pricing!TypeOK, Pricing!NoDecision, Pricing!Decisions, Pricing!Experiments,
           Pricing!Variants, Pricing!Choices, Pricing!Reasons
<1>2. ConnInv
    BY DEF ConnInv, ConnectionsMatch, LocksAreExclusive, Pricing!StrayLocks, NoneIsLicensed, Inside
<1>3. ArmInv
    BY DEF ArmInv, DecisionsHold, DecisionHolds, Permanent, PersistsOnce, RowsAreArms, Pricing!BalanceIsClean,
           Pricing!NoDecision
<1> QED
    BY <1>1, <1>2, <1>3 DEF PricingInv

\* What a step of a request leaves alone: the other requests, and its input.
OnlyAt(r) ==
    /\ \A s \in Requests : s # r => request'[s] = request[s]
    /\ request'[r].input = request[r].input

\* Two requests behind their locks are of different accounts.
LEMMA AloneInside ==
    ASSUME Pricing!TypeOK, ConnInv, NEW r \in Requests, NEW s \in Requests, r # s,
           request[r].at \in Inside, request[s].at \in Inside, None \notin Requests
    PROVE  Buyer(r) # Buyer(s)
<1>1. PICK c \in Connections : conn[c].by = r /\ Buyer(r) \in conn[c].locks
    BY DEF ConnInv, ConnectionsMatch
<1>2. PICK d \in Connections : conn[d].by = s /\ Buyer(s) \in conn[d].locks
    BY DEF ConnInv, ConnectionsMatch
<1>3. Buyer(r) \in Accounts
    BY <1>1 DEF Pricing!TypeOK
<1> QED
    BY <1>1, <1>2, <1>3 DEF ConnInv, LocksAreExclusive

\* A request gives its connection back with its transaction ended.
LEMMA EndsConn ==
    ASSUME Pricing!PricingAssumption, Pricing!TypeOK, ConnInv,
           NEW r \in Requests, NEW c \in Connections, Pricing!Using(r, c), Pricing!Ends(c),
           OnlyAt(r), request'[r].at \in {"null", "error", "committed"},
           UNCHANGED licensed, expired => expired'
    PROVE  ConnInv'
<1>1. /\ conn'[c] = [by |-> None, open |-> FALSE, locks |-> {}]
      /\ \A d \in Connections : d # c => conn'[d] = conn[d]
    BY DEF Pricing!Ends, Pricing!Idle, Pricing!TypeOK
<1>2. request[r].at \in Began /\ conn[c].by = r
    BY DEF ConnInv, ConnectionsMatch, Pricing!Using, Pricing!PricingAssumption
<1>3. ConnectionsMatch'
  <2>1. \A d \in Connections : d # c => conn[d].by # r
      BY <1>2 DEF ConnInv, ConnectionsMatch, Pricing!PricingAssumption
  <2>2. \A d \in Connections : conn'[d].by # None => request'[conn'[d].by].at \in Began
    <3> SUFFICES ASSUME NEW d \in Connections, conn'[d].by # None
                 PROVE  request'[conn'[d].by].at \in Began
        OBVIOUS
    <3>1. d # c /\ conn'[d] = conn[d]
        BY <1>1
    <3>2. conn[d].by \in Requests
        BY <3>1 DEF Pricing!TypeOK
    <3> QED
        BY <3>1, <3>2, <2>1 DEF OnlyAt, ConnInv, ConnectionsMatch
  <2>3. \A s \in Requests : request'[s].at \in Inside =>
          \E d \in Connections : conn'[d].by = s /\ Buyer(s)' \in conn'[d].locks
    <3> SUFFICES ASSUME NEW s \in Requests, request'[s].at \in Inside
                 PROVE  \E d \in Connections : conn'[d].by = s /\ Buyer(s)' \in conn'[d].locks
        OBVIOUS
    <3>1. s # r /\ request'[s] = request[s]
        BY DEF OnlyAt, Inside
    <3>2. PICK d \in Connections : conn[d].by = s /\ Buyer(s) \in conn[d].locks
        BY <3>1 DEF ConnInv, ConnectionsMatch
    <3>3. conn'[d] = conn[d]
        BY <1>1, <1>2, <3>1, <3>2
    <3> QED
        BY <3>1, <3>2, <3>3 DEF Buyer
  <2>4. \A s \in Requests : request'[s].at # "idle" => request'[s].input \in Pricing!Inputs
    <3>1. request[r].at # "idle"
        BY <1>2 DEF Began, Inside
    <3> QED
        BY <3>1 DEF OnlyAt, ConnInv, ConnectionsMatch
  <2>5. \A d, e \in Connections : conn'[d].by # None /\ conn'[d].by = conn'[e].by => d = e
      BY <1>1 DEF ConnInv, ConnectionsMatch
  <2> QED
      BY <2>2, <2>3, <2>4, <2>5 DEF ConnectionsMatch
<1>4. LocksAreExclusive'
    BY <1>1 DEF ConnInv, LocksAreExclusive
<1>5. Pricing!StrayLocks'
  <2> SUFFICES ASSUME NEW d \in Connections, NEW a \in Accounts, a \in conn'[d].locks,
                      conn'[d].by = None \/ request'[conn'[d].by].input.account # a
               PROVE  \E s \in Requests : /\ request'[s].at = "null" /\ expired'
                                          /\ request'[s].input.panel /\ Pricing!Of(s)' = a
      BY DEF Pricing!StrayLocks, Pricing!Of
  <2>1. d # c /\ conn'[d] = conn[d]
      BY <1>1
  <2>2. conn[d].by = None \/ Pricing!Of(conn[d].by) # a
    <3>1. conn[d].by # r
        BY <1>2, <2>1 DEF ConnInv, ConnectionsMatch, Pricing!PricingAssumption
    <3>2. conn[d].by \in Requests \cup {None}
        BY DEF Pricing!TypeOK
    <3> QED
        BY <2>1, <3>1, <3>2 DEF OnlyAt, Pricing!Of
  <2>3. PICK s \in Requests : /\ request[s].at = "null" /\ expired
                              /\ request[s].input.panel /\ Pricing!Of(s) = a
      BY <2>1, <2>2 DEF ConnInv, Pricing!StrayLocks
  <2>4. s # r
      BY <1>2, <2>3 DEF Began, Inside
  <2> QED
      BY <2>3, <2>4 DEF OnlyAt, Pricing!Of
<1>6. NoneIsLicensed'
  <2> SUFFICES ASSUME NEW s \in Requests, request'[s].at \in Inside PROVE Buyer(s)' \notin licensed'
      BY DEF NoneIsLicensed
  <2>1. s # r
      BY DEF Inside
  <2> QED
      BY <2>1 DEF OnlyAt, ConnInv, NoneIsLicensed, Buyer
<1> QED
    BY <1>3, <1>4, <1>5, <1>6 DEF ConnInv

\* A request behind its lock stays there.
LEMMA StaysConn ==
    ASSUME Pricing!TypeOK, ConnInv, NEW r \in Requests, request[r].at \in Inside,
           OnlyAt(r), request'[r].at \in Inside, UNCHANGED <<conn, licensed, expired>>
    PROVE  ConnInv'
<1>1. \A s \in Requests : /\ request'[s].input = request[s].input
                          /\ request'[s].at \in Inside <=> request[s].at \in Inside
                          /\ request'[s].at \in Began <=> request[s].at \in Began
                          /\ request'[s].at = "null" <=> request[s].at = "null"
                          /\ request'[s].at = "idle" <=> request[s].at = "idle"
    BY DEF OnlyAt, Inside, Began
<1>2. ConnectionsMatch'
  <2>1. \A d \in Connections : conn[d].by # None => request'[conn[d].by].at \in Began
      BY <1>1 DEF ConnInv, ConnectionsMatch, Pricing!TypeOK
  <2> QED
      BY <1>1, <2>1 DEF ConnInv, ConnectionsMatch, Buyer
<1>3. LocksAreExclusive' /\ NoneIsLicensed'
    BY <1>1 DEF ConnInv, LocksAreExclusive, NoneIsLicensed, Buyer
<1>4. Pricing!StrayLocks'
  <2> SUFFICES ASSUME NEW d \in Connections, NEW a \in Accounts, a \in conn[d].locks,
                      conn[d].by = None \/ request'[conn[d].by].input.account # a
               PROVE  \E s \in Requests : /\ request'[s].at = "null" /\ expired
                                          /\ request'[s].input.panel /\ Pricing!Of(s)' = a
      BY DEF Pricing!StrayLocks, Pricing!Of
  <2>1. conn[d].by = None \/ Pricing!Of(conn[d].by) # a
      BY <1>1 DEF Pricing!Of, Pricing!TypeOK
  <2>2. PICK s \in Requests : /\ request[s].at = "null" /\ expired
                              /\ request[s].input.panel /\ Pricing!Of(s) = a
      BY <2>1 DEF ConnInv, Pricing!StrayLocks
  <2> QED
      BY <1>1, <2>2 DEF Pricing!Of
<1> QED
    BY <1>2, <1>3, <1>4 DEF ConnInv

\* A step that neither decides nor writes leaves the arms alone.
LEMMA ArmKeeps ==
    ASSUME ArmInv, NEW r \in Requests, request[r].at \in Began \cup {"idle"},
           \A s \in Requests : s # r => request'[s] = request[s],
           request[r].at = "idle" \/ request'[r].input = request[r].input,
           request'[r].decision = request[r].decision, request'[r].offer = request[r].offer,
           request'[r].at \in {"begun", "locked", "null", "error"},
           request'[r].at \in {"begun", "locked"} => request[r].at \in {"idle", "begun"},
           UNCHANGED row
    PROVE  ArmInv'
<1>1. DecisionsHold'
  <2> SUFFICES ASSUME NEW s \in Requests PROVE DecisionHolds(s)'
      BY DEF DecisionsHold
  <2>1. CASE s # r
      BY <2>1 DEF ArmInv, DecisionsHold, DecisionHolds, Permanent, PersistsOnce, Buyer
  <2>2. CASE s = r
    <3>1. Permanent(r)'
        BY DEF ArmInv, DecisionsHold, DecisionHolds, Permanent, Buyer
    <3>2. PersistsOnce(r)'
        BY DEF PersistsOnce
    <3> QED
        BY <2>2, <3>1, <3>2 DEF ArmInv, DecisionsHold, DecisionHolds
  <2> QED
      BY <2>1, <2>2
<1>2. Pricing!BalanceIsClean'
  <2> SUFFICES ASSUME NEW a \in Accounts, row[a] # None, row[a].variant = "annual_same_price"
               PROVE  \E s \in Requests : /\ request'[s].at = "committed" /\ Pricing!Of(s)' = a
                                          /\ request'[s].offer = "annual"
      BY DEF Pricing!BalanceIsClean
  <2>1. PICK s \in Requests : /\ request[s].at = "committed" /\ Pricing!Of(s) = a
                              /\ request[s].offer = "annual"
      BY DEF ArmInv, Pricing!BalanceIsClean
  <2> QED
      BY <2>1 DEF Pricing!Of, Began, Inside
<1> QED
    BY <1>1, <1>2 DEF ArmInv, RowsAreArms

\* The row a request of the map has; what changes when one of them moves.
LEMMA GotoRow ==
    ASSUME Pricing!TypeOK, NEW r \in Requests, NEW at, Pricing!Goto(r, at),
           at \in {"locked", "null", "error"}
    PROVE  /\ OnlyAt(r) /\ request'[r].at = at
           /\ request'[r].decision = request[r].decision /\ request'[r].offer = request[r].offer
           /\ request' \in [Requests -> Pricing!RequestRows]
<1>1. request' = [request EXCEPT ![r] = [request[r] EXCEPT !.at = at]]
    BY DEF Pricing!Goto, Pricing!TypeOK
<1>2. request[r] \in Pricing!RequestRows
    BY DEF Pricing!TypeOK
<1>3. request' \in [Requests -> Pricing!RequestRows]
  <2>1. [request[r] EXCEPT !.at = at] \in Pricing!RequestRows
      BY <1>2
  <2> HIDE DEF Pricing!RequestRows
  <2> QED
      BY <1>1, <2>1 DEF Pricing!TypeOK
<1> QED
    BY <1>1, <1>2, <1>3 DEF Pricing!TypeOK, OnlyAt

LEMMA BeginInv ==
    ASSUME Pricing!PricingAssumption, PricingInv, NEW r \in Requests, NEW c \in Connections,
           NEW input \in Pricing!Inputs, Pricing!Begin(r, c, input)
    PROVE  PricingInv'
<1> USE DEF Pricing!PricingAssumption
<1>1. /\ request[r].at = "idle" /\ conn[c].by = None
      /\ conn' = [conn EXCEPT ![c] = [conn[c] EXCEPT !.by = r, !.open = TRUE]]
      /\ request' = [request EXCEPT ![r] = [request[r] EXCEPT !.input = input, !.at = "begun"]]
      /\ UNCHANGED <<row, expired, licensed>>
    BY DEF Pricing!Begin, PricingInv, Pricing!TypeOK
<1>2. /\ request'[r].at = "begun" /\ request'[r].input = input
      /\ request'[r].decision = request[r].decision /\ request'[r].offer = request[r].offer
      /\ \A s \in Requests : s # r => request'[s] = request[s]
    BY <1>1 DEF PricingInv, Pricing!TypeOK
<1>3. /\ conn'[c].by = r /\ conn'[c].locks = conn[c].locks
      /\ \A d \in Connections : d # c => conn'[d] = conn[d]
    BY <1>1 DEF PricingInv, Pricing!TypeOK
<1>4. Pricing!TypeOK'
  <2>1. conn' \in [Connections -> Pricing!ConnectionRows]
    <3>1. conn[c] \in Pricing!ConnectionRows
        BY DEF PricingInv, Pricing!TypeOK
    <3>2. [conn[c] EXCEPT !.by = r, !.open = TRUE] \in Pricing!ConnectionRows
        BY <3>1
    <3> HIDE DEF Pricing!ConnectionRows
    <3> QED
        BY <1>1, <3>2 DEF PricingInv, Pricing!TypeOK
  <2>2. request' \in [Requests -> Pricing!RequestRows]
    <3>1. request[r] \in Pricing!RequestRows
        BY DEF PricingInv, Pricing!TypeOK
    <3>2. [request[r] EXCEPT !.input = input, !.at = "begun"] \in Pricing!RequestRows
        BY <3>1
    <3> HIDE DEF Pricing!RequestRows
    <3> QED
        BY <1>1, <3>2 DEF PricingInv, Pricing!TypeOK
  <2> QED
      BY <1>1, <2>1, <2>2 DEF PricingInv, Pricing!TypeOK
<1>5. ArmInv'
    BY <1>1, <1>2, ArmKeeps DEF PricingInv
<1>6. \A d \in Connections : conn[d].by # r
    BY <1>1 DEF PricingInv, ConnInv, ConnectionsMatch, Began, Inside
<1>7. ConnectionsMatch'
  <2>1. \A d \in Connections : conn'[d].by # None => request'[conn'[d].by].at \in Began
    <3> SUFFICES ASSUME NEW d \in Connections, conn'[d].by # None
                 PROVE  request'[conn'[d].by].at \in Began
        OBVIOUS
    <3>1. CASE d = c
        BY <1>2, <1>3, <3>1 DEF Began
    <3>2. CASE d # c
        BY <1>2, <1>3, <1>6, <3>2 DEF PricingInv, Pricing!TypeOK, ConnInv, ConnectionsMatch
    <3> QED
        BY <3>1, <3>2
  <2>2. \A s \in Requests : request'[s].at \in Inside =>
          \E d \in Connections : conn'[d].by = s /\ Buyer(s)' \in conn'[d].locks
    <3> SUFFICES ASSUME NEW s \in Requests, request'[s].at \in Inside
                 PROVE  \E d \in Connections : conn'[d].by = s /\ Buyer(s)' \in conn'[d].locks
        OBVIOUS
    <3>1. s # r
        BY <1>2 DEF Inside
    <3>2. PICK d \in Connections : conn[d].by = s /\ Buyer(s) \in conn[d].locks
        BY <1>2, <3>1 DEF PricingInv, ConnInv, ConnectionsMatch
    <3>3. d # c
        BY <1>1, <3>2
    <3> QED
        BY <1>2, <1>3, <3>1, <3>2, <3>3 DEF Buyer
  <2>3. \A s \in Requests : request'[s].at # "idle" => request'[s].input \in Pricing!Inputs
      BY <1>2 DEF PricingInv, ConnInv, ConnectionsMatch
  <2>4. \A d, e \in Connections : conn'[d].by # None /\ conn'[d].by = conn'[e].by => d = e
      BY <1>3, <1>6 DEF PricingInv, ConnInv, ConnectionsMatch
  <2> QED
      BY <2>1, <2>2, <2>3, <2>4 DEF ConnectionsMatch
<1>8. LocksAreExclusive'
    BY <1>3 DEF PricingInv, ConnInv, LocksAreExclusive
<1>9. Pricing!StrayLocks'
  <2> SUFFICES ASSUME NEW d \in Connections, NEW a \in Accounts, a \in conn'[d].locks,
                      conn'[d].by = None \/ request'[conn'[d].by].input.account # a
               PROVE  \E s \in Requests : /\ request'[s].at = "null" /\ expired'
                                          /\ request'[s].input.panel /\ Pricing!Of(s)' = a
      BY DEF Pricing!StrayLocks, Pricing!Of
  <2>1. a \in conn[d].locks /\ (conn[d].by = None \/ Pricing!Of(conn[d].by) # a)
    <3>1. CASE d = c
        BY <1>1, <1>3, <3>1
    <3>2. CASE d # c
        BY <1>2, <1>3, <1>6, <3>2 DEF Pricing!Of, PricingInv, Pricing!TypeOK
    <3> QED
        BY <3>1, <3>2
  <2>2. PICK s \in Requests : /\ request[s].at = "null" /\ expired
                              /\ request[s].input.panel /\ Pricing!Of(s) = a
      BY <2>1 DEF PricingInv, ConnInv, Pricing!StrayLocks
  <2> QED
      BY <1>1, <1>2, <2>2 DEF Pricing!Of
<1>10. NoneIsLicensed'
    BY <1>1, <1>2 DEF PricingInv, ConnInv, NoneIsLicensed, Buyer, Inside
<1> QED
    BY <1>4, <1>5, <1>7, <1>8, <1>9, <1>10 DEF PricingInv, ConnInv

\* A request takes the lock of its account, and goes on or leaves it behind.
LEMMA LockedConn ==
    ASSUME Pricing!PricingAssumption, Pricing!TypeOK, ConnInv, NEW r \in Requests, NEW c \in Connections,
           Pricing!Using(r, c), request[r].at = "begun", Pricing!LockFree(c, Pricing!Of(r)),
           Buyer(r) \notin licensed, OnlyAt(r), UNCHANGED <<licensed, expired>>,
           conn'[c].locks = conn[c].locks \cup {Buyer(r)},
           \A d \in Connections : d # c => conn'[d] = conn[d],
           \/ request'[r].at = "locked" /\ conn'[c].by = r
           \/ request'[r].at = "null" /\ conn'[c].by = None /\ expired /\ request[r].input.panel
    PROVE  ConnInv'
<1> USE DEF Pricing!PricingAssumption
<1>1. conn[c].by = r /\ Buyer(r) = Pricing!Of(r)
    BY DEF Pricing!Using, Buyer, Pricing!Of
<1>2. \A d \in Connections : d # c => conn[d].by # r
    BY <1>1 DEF ConnInv, ConnectionsMatch
<1>3. \A s \in Requests : s # r => request'[s] = request[s] /\ Buyer(s)' = Buyer(s)
    BY DEF OnlyAt, Buyer
<1>4. Buyer(r)' = Buyer(r) /\ Pricing!Of(r)' = Pricing!Of(r)
    BY DEF OnlyAt, Buyer, Pricing!Of
<1>5. ConnectionsMatch'
  <2>1. \A d \in Connections : conn'[d].by # None => request'[conn'[d].by].at \in Began
    <3> SUFFICES ASSUME NEW d \in Connections, conn'[d].by # None
                 PROVE  request'[conn'[d].by].at \in Began
        OBVIOUS
    <3>1. CASE d = c
        BY <3>1 DEF Began, Inside
    <3>2. CASE d # c
        BY <1>2, <1>3, <3>2 DEF Pricing!TypeOK, ConnInv, ConnectionsMatch
    <3> QED
        BY <3>1, <3>2
  <2>2. \A s \in Requests : request'[s].at \in Inside =>
          \E d \in Connections : conn'[d].by = s /\ Buyer(s)' \in conn'[d].locks
    <3> SUFFICES ASSUME NEW s \in Requests, request'[s].at \in Inside
                 PROVE  \E d \in Connections : conn'[d].by = s /\ Buyer(s)' \in conn'[d].locks
        OBVIOUS
    <3>1. CASE s = r
        BY <1>4, <3>1 DEF Inside
    <3>2. CASE s # r
      <4>1. PICK d \in Connections : conn[d].by = s /\ Buyer(s) \in conn[d].locks
          BY <1>3, <3>2 DEF ConnInv, ConnectionsMatch
      <4>2. d # c
          BY <1>1, <3>2, <4>1
      <4> QED
          BY <1>3, <3>2, <4>1, <4>2
    <3> QED
        BY <3>1, <3>2
  <2>3. \A s \in Requests : request'[s].at # "idle" => request'[s].input \in Pricing!Inputs
    <3>1. request[r].input \in Pricing!Inputs
        BY DEF ConnInv, ConnectionsMatch
    <3> QED
        BY <1>3, <3>1 DEF OnlyAt, ConnInv, ConnectionsMatch
  <2>4. \A d, e \in Connections : conn'[d].by # None /\ conn'[d].by = conn'[e].by => d = e
      BY <1>2 DEF ConnInv, ConnectionsMatch
  <2> QED
      BY <2>1, <2>2, <2>3, <2>4 DEF ConnectionsMatch
<1>6. LocksAreExclusive'
  <2> SUFFICES ASSUME NEW d \in Connections, NEW e \in Connections, NEW a \in Accounts,
                      a \in conn'[d].locks, a \in conn'[e].locks
               PROVE  d = e
      BY DEF LocksAreExclusive
  <2>1. CASE a = Buyer(r)
      BY <1>1, <2>1 DEF Pricing!LockFree
  <2>2. CASE a # Buyer(r)
      BY <2>2 DEF ConnInv, LocksAreExclusive
  <2> QED
      BY <2>1, <2>2
<1>7. Pricing!StrayLocks'
  <2> SUFFICES ASSUME NEW d \in Connections, NEW a \in Accounts, a \in conn'[d].locks,
                      conn'[d].by = None \/ request'[conn'[d].by].input.account # a
               PROVE  \E s \in Requests : /\ request'[s].at = "null" /\ expired'
                                          /\ request'[s].input.panel /\ Pricing!Of(s)' = a
      BY DEF Pricing!StrayLocks, Pricing!Of
  <2>1. CASE d = c /\ a = Buyer(r)
      BY <1>1, <1>4, <2>1 DEF OnlyAt, Buyer, Pricing!Of
  <2>2. CASE ~(d = c /\ a = Buyer(r))
    <3>1. a \in conn[d].locks /\ (conn[d].by = None \/ Pricing!Of(conn[d].by) # a)
      <4>1. CASE d = c
          BY <1>1, <2>2, <4>1
      <4>2. CASE d # c
          BY <1>2, <1>3, <4>2 DEF Pricing!Of, Pricing!TypeOK
      <4> QED
          BY <4>1, <4>2
    <3>2. PICK s \in Requests : /\ request[s].at = "null" /\ expired
                                /\ request[s].input.panel /\ Pricing!Of(s) = a
        BY <3>1 DEF ConnInv, Pricing!StrayLocks
    <3> QED
        BY <1>3, <3>2 DEF Pricing!Of
  <2> QED
      BY <2>1, <2>2
<1>8. NoneIsLicensed'
    BY <1>3, <1>4 DEF ConnInv, NoneIsLicensed
<1> QED
    BY <1>5, <1>6, <1>7, <1>8 DEF ConnInv

LEMMA LockInv ==
    ASSUME Pricing!PricingAssumption, PricingInv, NEW r \in Requests, NEW c \in Connections,
           Pricing!Lock(r, c)
    PROVE  PricingInv'
<1> DEFINE a == Pricing!Of(r)
<1>1. /\ Pricing!Using(r, c) /\ request[r].at = "begun" /\ Pricing!LockFree(c, a)
      /\ UNCHANGED <<row, expired, licensed>> /\ Buyer(r) = a
    BY DEF Pricing!Lock, Buyer, Pricing!Of
<1>2. ASSUME NEW at, Pricing!Goto(r, at), at \in {"locked", "null"} PROVE ArmInv'
  <2>1. /\ OnlyAt(r) /\ request'[r].at = at
        /\ request'[r].decision = request[r].decision /\ request'[r].offer = request[r].offer
      BY <1>2, GotoRow DEF PricingInv
  <2> QED
      BY <1>1, <1>2, <2>1, ArmKeeps DEF PricingInv, OnlyAt, Began
<1>3. CASE a \in licensed /\ Pricing!Goto(r, "null") /\ Pricing!Ends(c)
  <2>1. OnlyAt(r) /\ request'[r].at = "null"
      BY <1>3, GotoRow DEF PricingInv
  <2>2. ConnInv'
      BY <1>1, <1>3, <2>1, EndsConn DEF PricingInv
  <2>3. Pricing!TypeOK'
      BY <1>1, <1>3, GotoRow DEF PricingInv, Pricing!TypeOK, Pricing!Ends, Pricing!Idle
  <2> QED
      BY <1>2, <1>3, <2>2, <2>3 DEF PricingInv
<1>4. CASE /\ a \notin licensed /\ request[r].input.panel /\ expired
           /\ Pricing!Goto(r, "null")
           /\ conn' = [conn EXCEPT ![c].by = None, ![c].locks = @ \cup {a}]
  <2>1. OnlyAt(r) /\ request'[r].at = "null"
      BY <1>4, GotoRow DEF PricingInv
  <2>2. conn' = [conn EXCEPT ![c] = [conn[c] EXCEPT !.by = None, !.locks = conn[c].locks \cup {a}]]
      BY <1>4 DEF PricingInv, Pricing!TypeOK
  <2>3. a \in Accounts
      BY <1>1 DEF PricingInv, ConnInv, ConnectionsMatch, Pricing!Of, Pricing!Inputs
  <2>4. Pricing!TypeOK'
    <3>1. conn[c] \in Pricing!ConnectionRows
        BY DEF PricingInv, Pricing!TypeOK
    <3>2. [conn[c] EXCEPT !.by = None, !.locks = conn[c].locks \cup {a}] \in Pricing!ConnectionRows
        BY <2>3, <3>1
    <3> HIDE DEF Pricing!ConnectionRows, Pricing!RequestRows
    <3> QED
        BY <1>1, <1>4, <2>2, <3>2, GotoRow DEF PricingInv, Pricing!TypeOK
  <2>5. /\ conn'[c].by = None /\ conn'[c].locks = conn[c].locks \cup {a}
        /\ \A d \in Connections : d # c => conn'[d] = conn[d]
      BY <2>2 DEF PricingInv, Pricing!TypeOK
  <2>6. ConnInv'
      BY <1>1, <1>4, <2>1, <2>5, LockedConn DEF PricingInv
  <2> QED
      BY <1>2, <1>4, <2>4, <2>6 DEF PricingInv
<1>5. CASE /\ a \notin licensed /\ Pricing!Goto(r, "locked")
           /\ conn' = [conn EXCEPT ![c].locks = @ \cup {a}]
  <2>1. OnlyAt(r) /\ request'[r].at = "locked"
      BY <1>5, GotoRow DEF PricingInv
  <2>2. conn' = [conn EXCEPT ![c] = [conn[c] EXCEPT !.locks = conn[c].locks \cup {a}]]
      BY <1>5 DEF PricingInv, Pricing!TypeOK
  <2>3. a \in Accounts
      BY <1>1 DEF PricingInv, ConnInv, ConnectionsMatch, Pricing!Of, Pricing!Inputs
  <2>4. Pricing!TypeOK'
    <3>1. conn[c] \in Pricing!ConnectionRows
        BY DEF PricingInv, Pricing!TypeOK
    <3>2. [conn[c] EXCEPT !.locks = conn[c].locks \cup {a}] \in Pricing!ConnectionRows
        BY <2>3, <3>1
    <3> HIDE DEF Pricing!ConnectionRows, Pricing!RequestRows
    <3> QED
        BY <1>1, <1>5, <2>2, <3>2, GotoRow DEF PricingInv, Pricing!TypeOK
  <2>5. /\ conn'[c].by = r /\ conn'[c].locks = conn[c].locks \cup {a}
        /\ \A d \in Connections : d # c => conn'[d] = conn[d]
      BY <1>1, <2>2 DEF PricingInv, Pricing!TypeOK, Pricing!Using
  <2>6. ConnInv'
      BY <1>1, <1>5, <2>1, <2>5, LockedConn DEF PricingInv
  <2> QED
      BY <1>2, <1>5, <2>4, <2>6 DEF PricingInv
<1> QED
    BY <1>3, <1>4, <1>5 DEF Pricing!Lock

\* Every decision can be read back; it rests on the account's assignment, or may
\* become it.
LEMMA DecisionFits ==
    ASSUME Pricing!PricingAssumption, Pricing!TypeOK, RowsAreArms,
           NEW a \in Accounts, NEW region, NEW cfg, NEW d, d = Pricing!Decide(a, region, cfg)
    PROVE  /\ d \in Pricing!Decisions /\ Pricing!Readable(d)
           /\ d.assigned => IF a \in Historical THEN d.experiment = "v1" /\ d.variant = "monthly_half"
                            ELSE row[a] # None /\ row[a].variant = d.variant
           /\ d.persists => /\ d.experiment = "v2" /\ d.variant \in Arms
                            /\ row[a] = None /\ a \notin Historical
<1> USE DEF Pricing!Decisions, Pricing!Experiments, Pricing!Variants, Pricing!Choices, Pricing!Reasons,
            Pricing!Readable, Arms
<1>1. ASSUME NEW reason \in {"kill_switch", "assignment_unavailable"},
             d = Pricing!Fallback("v2", reason)
      PROVE  d \in Pricing!Decisions /\ Pricing!Readable(d) /\ ~d.assigned /\ ~d.persists
    BY <1>1 DEF Pricing!Fallback
<1>2. CASE d = Pricing!Assigned("v1", "monthly_half") /\ a \in Historical
    BY <1>2 DEF Pricing!Assigned
<1>3. CASE d = Pricing!Assigned("v2", row[a].variant) /\ a \notin Historical /\ row[a] # None
    BY <1>3 DEF Pricing!Assigned, RowsAreArms
<1>4. CASE /\ a \notin Historical /\ row[a] = None
           /\ \E reason \in {"rollout_zero", "rollout_control"} :
                d = Pricing!New("control_one_time", reason)
    BY <1>4 DEF Pricing!New
<1>5. CASE a \notin Historical /\ row[a] = None /\ d = Pricing!New("annual_same_price", "rollout_annual")
    BY <1>5 DEF Pricing!New
<1>6. CASE a \notin Historical /\ row[a] = None /\ d = Pricing!DecideNew(a, region, cfg)
    BY <1>1, <1>4, <1>5, <1>6 DEF Pricing!DecideNew
<1> QED
    BY <1>1, <1>2, <1>3, <1>6 DEF Pricing!Decide

LEMMA ChosenFits ==
    ASSUME NEW plan \in Pricing!Choices
    PROVE  /\ Pricing!Chosen(plan) \in Pricing!Decisions /\ Pricing!Readable(Pricing!Chosen(plan))
           /\ ~Pricing!Chosen(plan).assigned /\ ~Pricing!Chosen(plan).persists
    BY DEF Pricing!Chosen, Pricing!Decisions, Pricing!Experiments, Pricing!Choices, Pricing!Reasons,
           Pricing!Readable

\* A request decides, or its decision is proved.
LEMMA DecidedArm ==
    ASSUME Pricing!TypeOK, ArmInv, NEW r \in Requests, request[r].at \in Inside, OnlyAt(r),
           request'[r].at \in {"decided", "proved"}, UNCHANGED row,
           Pricing!Readable(request'[r].decision),
           request'[r].at = "decided" => request'[r].offer = "one_time",
           request'[r].at = "proved" => request'[r].offer = Pricing!OfferOf(request'[r].decision.variant),
           Permanent(r)', PersistsOnce(r)'
    PROVE  ArmInv'
<1>1. DecisionsHold'
  <2> SUFFICES ASSUME NEW s \in Requests PROVE DecisionHolds(s)'
      BY DEF DecisionsHold
  <2>1. CASE s # r
      BY <2>1 DEF OnlyAt, ArmInv, DecisionsHold, DecisionHolds, Permanent, PersistsOnce, Buyer
  <2>2. CASE s = r
      BY <2>2 DEF DecisionHolds
  <2> QED
      BY <2>1, <2>2
<1>2. Pricing!BalanceIsClean'
  <2> SUFFICES ASSUME NEW a \in Accounts, row[a] # None, row[a].variant = "annual_same_price"
               PROVE  \E s \in Requests : /\ request'[s].at = "committed" /\ Pricing!Of(s)' = a
                                          /\ request'[s].offer = "annual"
      BY DEF Pricing!BalanceIsClean
  <2>1. PICK s \in Requests : /\ request[s].at = "committed" /\ Pricing!Of(s) = a
                              /\ request[s].offer = "annual"
      BY DEF ArmInv, Pricing!BalanceIsClean
  <2> QED
      BY <2>1 DEF OnlyAt, Pricing!Of, Inside
<1> QED
    BY <1>1, <1>2 DEF ArmInv, RowsAreArms

LEMMA ResolveInv ==
    ASSUME Pricing!PricingAssumption, PricingInv, NEW r \in Requests, NEW cfg \in Rollouts,
           Pricing!Resolve(r, cfg)
    PROVE  PricingInv'
<1> DEFINE input == request[r].input
           d == IF input.plan # None THEN Pricing!Chosen(input.plan)
                ELSE Pricing!Decide(input.account, input.region, cfg)
<1>1. /\ request[r].at = "locked" /\ UNCHANGED <<conn, row, expired, licensed>>
      /\ request' = [request EXCEPT ![r] = [request[r] EXCEPT !.at = "decided", !.decision = d]]
    BY DEF Pricing!Resolve, PricingInv, Pricing!TypeOK
<1>2. /\ OnlyAt(r) /\ request'[r].at = "decided" /\ request'[r].decision = d
      /\ request'[r].offer = request[r].offer
    BY <1>1 DEF PricingInv, Pricing!TypeOK, OnlyAt
<1>3. input \in Pricing!Inputs
    BY <1>1 DEF PricingInv, ConnInv, ConnectionsMatch
<1>4. /\ d \in Pricing!Decisions /\ Pricing!Readable(d)
      /\ d.assigned => IF input.account \in Historical
                       THEN d.experiment = "v1" /\ d.variant = "monthly_half"
                       ELSE row[input.account] # None /\ row[input.account].variant = d.variant
      /\ d.persists => /\ d.experiment = "v2" /\ d.variant \in Arms
                       /\ row[input.account] = None /\ input.account \notin Historical
  <2>1. CASE input.plan # None
    <3>1. input.plan \in Pricing!Choices
        BY <1>3, <2>1 DEF Pricing!Inputs
    <3> QED
        BY <2>1, <3>1, ChosenFits
  <2>2. CASE input.plan = None
    <3>1. input.account \in Accounts /\ d = Pricing!Decide(input.account, input.region, cfg)
        BY <1>3, <2>2 DEF Pricing!Inputs
    <3> HIDE DEF d
    <3> QED
        BY <3>1, DecisionFits DEF PricingInv, ArmInv
  <2> QED
      BY <2>1, <2>2
<1> HIDE DEF d
<1>5. Pricing!TypeOK'
  <2>1. request[r] \in Pricing!RequestRows
      BY DEF PricingInv, Pricing!TypeOK
  <2>2. [request[r] EXCEPT !.at = "decided", !.decision = d] \in Pricing!RequestRows
      BY <1>4, <2>1
  <2> HIDE DEF Pricing!RequestRows
  <2> QED
      BY <1>1, <2>2 DEF PricingInv, Pricing!TypeOK
<1>6. ConnInv'
    BY <1>1, <1>2, StaysConn DEF PricingInv, Inside
<1>7. ArmInv'
  <2>1. Permanent(r)' /\ PersistsOnce(r)'
      BY <1>1, <1>2, <1>4 DEF Permanent, PersistsOnce, Buyer, OnlyAt
  <2>2. request[r].offer = "one_time"
      BY <1>1 DEF PricingInv, ArmInv, DecisionsHold, DecisionHolds
  <2> QED
      BY <1>1, <1>2, <1>4, <2>1, <2>2, DecidedArm DEF PricingInv, Inside
<1> QED
    BY <1>5, <1>6, <1>7 DEF PricingInv

LEMMA ProveInv ==
    ASSUME Pricing!PricingAssumption, PricingInv, NEW r \in Requests, NEW c \in Connections,
           NEW found \in BOOLEAN, Pricing!Prove(r, c, found)
    PROVE  PricingInv'
<1> DEFINE d == request[r].decision
<1>1. /\ Pricing!Using(r, c) /\ request[r].at = "decided" /\ UNCHANGED <<row, expired, licensed>>
    BY DEF Pricing!Prove
<1>2. /\ d \in Pricing!Decisions /\ Pricing!Readable(d) /\ Permanent(r) /\ PersistsOnce(r)
      /\ request[r].offer = "one_time"
    BY <1>1 DEF PricingInv, Pricing!TypeOK, ArmInv, DecisionsHold, DecisionHolds
<1>3. CASE /\ request' = [request EXCEPT ![r].at = "proved", ![r].offer = Pricing!OfferOf(d.variant)]
           /\ UNCHANGED conn
  <2>1. request' = [request EXCEPT ![r] =
                      [request[r] EXCEPT !.at = "proved", !.offer = Pricing!OfferOf(d.variant)]]
      BY <1>3 DEF PricingInv, Pricing!TypeOK
  <2>2. /\ OnlyAt(r) /\ request'[r].at = "proved" /\ request'[r].decision = d
        /\ request'[r].offer = Pricing!OfferOf(d.variant)
      BY <2>1 DEF PricingInv, Pricing!TypeOK, OnlyAt
  <2>3. Pricing!OfferOf(d.variant) \in {"one_time", "monthly", "annual"}
      BY DEF Pricing!OfferOf
  <2>4. Pricing!TypeOK'
      BY <1>1, <1>3, <2>1, <2>3 DEF PricingInv, Pricing!TypeOK
  <2>5. Permanent(r)' /\ PersistsOnce(r)'
      BY <1>1, <1>2, <2>2 DEF Permanent, PersistsOnce, Buyer, OnlyAt
  <2>6. ArmInv'
      BY <1>1, <1>2, <2>2, <2>5, DecidedArm DEF PricingInv, Inside
  <2>7. ConnInv'
      BY <1>1, <1>3, <2>2, StaysConn DEF PricingInv, Inside
  <2> QED
      BY <2>4, <2>6, <2>7 DEF PricingInv
<1>4. CASE Pricing!Goto(r, "error") /\ Pricing!Ends(c)
  <2>1. /\ OnlyAt(r) /\ request'[r].at = "error"
        /\ request'[r].decision = request[r].decision /\ request'[r].offer = request[r].offer
      BY <1>4, GotoRow DEF PricingInv
  <2>2. ConnInv'
      BY <1>1, <1>4, <2>1, EndsConn DEF PricingInv
  <2>3. Pricing!TypeOK'
      BY <1>1, <1>4, GotoRow DEF PricingInv, Pricing!TypeOK, Pricing!Ends, Pricing!Idle
  <2>4. ArmInv'
      BY <1>1, <2>1, ArmKeeps DEF PricingInv, OnlyAt, Began, Inside
  <2> QED
      BY <2>2, <2>3, <2>4 DEF PricingInv
<1>5. CASE /\ d.experiment # "selected" /\ UNCHANGED conn
           /\ request' = [request EXCEPT ![r].at = "proved",
                            ![r].decision = Pricing!Fallback(d.experiment, "assignment_unavailable")]
  <2> DEFINE f == Pricing!Fallback(d.experiment, "assignment_unavailable")
  <2>1. request' = [request EXCEPT ![r] = [request[r] EXCEPT !.at = "proved", !.decision = f]]
      BY <1>5 DEF PricingInv, Pricing!TypeOK
  <2>2. /\ f \in Pricing!Decisions /\ Pricing!Readable(f) /\ ~f.assigned /\ ~f.persists
        /\ Pricing!OfferOf(f.variant) = "one_time"
      BY <1>2, <1>5 DEF Pricing!Fallback, Pricing!Decisions, Pricing!Experiments, Pricing!Variants,
         Pricing!Choices, Pricing!Reasons, Pricing!Readable, Pricing!OfferOf
  <2> HIDE DEF f
  <2>3. /\ OnlyAt(r) /\ request'[r].at = "proved" /\ request'[r].decision = f
        /\ request'[r].offer = "one_time"
      BY <1>2, <2>1 DEF PricingInv, Pricing!TypeOK, OnlyAt
  <2>4. Pricing!TypeOK'
    <3>1. request[r] \in Pricing!RequestRows
        BY DEF PricingInv, Pricing!TypeOK
    <3>2. [request[r] EXCEPT !.at = "proved", !.decision = f] \in Pricing!RequestRows
        BY <2>2, <3>1
    <3> HIDE DEF Pricing!RequestRows
    <3> QED
        BY <1>1, <1>5, <2>1, <3>2 DEF PricingInv, Pricing!TypeOK
  <2>5. Permanent(r)' /\ PersistsOnce(r)'
      BY <2>2, <2>3 DEF Permanent, PersistsOnce
  <2>6. ArmInv'
      BY <1>1, <2>2, <2>3, <2>5, DecidedArm DEF PricingInv, Inside
  <2>7. ConnInv'
      BY <1>1, <1>5, <2>3, StaysConn DEF PricingInv, Inside
  <2> QED
      BY <2>4, <2>6, <2>7 DEF PricingInv
<1> QED
    BY <1>3, <1>4, <1>5 DEF Pricing!Prove

LEMMA CommitOfferInv ==
    ASSUME Pricing!PricingAssumption, PricingInv, NEW r \in Requests, NEW c \in Connections,
           Pricing!Commit(r, c)
    PROVE  PricingInv'
<1> DEFINE d == request[r].decision
           a == Pricing!Of(r)
<1>1. /\ Pricing!Using(r, c) /\ request[r].at = "proved" /\ Pricing!Ends(c)
      /\ UNCHANGED <<expired, licensed>> /\ Buyer(r) = a
    BY DEF Pricing!Commit, Buyer, Pricing!Of
<1>2. conn' \in [Connections -> Pricing!ConnectionRows]
    BY <1>1 DEF PricingInv, Pricing!TypeOK, Pricing!Ends, Pricing!Idle
<1>3. CASE Pricing!Goto(r, "null") /\ UNCHANGED row
  <2>1. /\ OnlyAt(r) /\ request'[r].at = "null"
        /\ request'[r].decision = request[r].decision /\ request'[r].offer = request[r].offer
      BY <1>3, GotoRow DEF PricingInv
  <2>2. ConnInv'
      BY <1>1, <2>1, EndsConn DEF PricingInv
  <2>3. Pricing!TypeOK'
      BY <1>1, <1>2, <1>3, GotoRow DEF PricingInv, Pricing!TypeOK
  <2>4. ArmInv'
      BY <1>1, <1>3, <2>1, ArmKeeps DEF PricingInv, OnlyAt, Began, Inside
  <2> QED
      BY <2>2, <2>3, <2>4 DEF PricingInv
<1>4. CASE /\ request' = [request EXCEPT ![r].at = "committed",
                            ![r].decision = IF d.persists
                                            THEN [d EXCEPT !.assigned = TRUE, !.persists = FALSE] ELSE d]
           /\ row' = IF d.persists THEN Pricing!Persisted(a, d) ELSE row
  <2> DEFINE e == IF d.persists THEN [d EXCEPT !.assigned = TRUE, !.persists = FALSE] ELSE d
  <2>1. request' = [request EXCEPT ![r] = [request[r] EXCEPT !.at = "committed", !.decision = e]]
      BY <1>4 DEF PricingInv, Pricing!TypeOK
  <2>2. /\ d \in Pricing!Decisions /\ Pricing!Readable(d) /\ Permanent(r) /\ PersistsOnce(r)
        /\ request[r].offer = Pricing!OfferOf(d.variant)
      BY <1>1 DEF PricingInv, Pricing!TypeOK, ArmInv, DecisionsHold, DecisionHolds
  <2>3. d.persists => /\ d.experiment = "v2" /\ d.variant \in Arms /\ row[a] = None /\ a \notin Historical
      BY <1>1, <2>2 DEF PersistsOnce
  <2>4. /\ e \in Pricing!Decisions /\ e.variant = d.variant /\ e.experiment = d.experiment
        /\ e.reason = d.reason /\ e.assigned = (d.persists \/ d.assigned)
      BY <2>2 DEF Pricing!Decisions
  <2>5. Pricing!Readable(e)
      BY <2>2, <2>3, <2>4 DEF Pricing!Readable
  <2> HIDE DEF e
  <2>6. /\ OnlyAt(r) /\ request'[r].at = "committed" /\ request'[r].decision = e
        /\ request'[r].offer = Pricing!OfferOf(e.variant)
      BY <2>1, <2>2, <2>4 DEF PricingInv, Pricing!TypeOK, OnlyAt
  <2>7. a \in Accounts
      BY <1>1 DEF PricingInv, ConnInv, ConnectionsMatch, Pricing!Of, Pricing!Inputs
  <2>8. /\ \A b \in Accounts : b # a => row'[b] = row[b]
        /\ ~d.persists => row' = row
        /\ d.persists => row'[a].variant = d.variant /\ row'[a] # None
        /\ row' \in [Accounts -> Pricing!Rows \cup {None}]
    <3>1. CASE d.persists
      <4>1. row' = [row EXCEPT ![a] = [variant |-> d.variant, bucket |-> Bucket[a]]]
          BY <1>4, <3>1 DEF Pricing!Persisted
      <4>2. [variant |-> d.variant, bucket |-> Bucket[a]] \in Pricing!Rows
          BY <2>3, <2>7, <3>1 DEF Arms, Pricing!Rows, Pricing!Variants, Pricing!PricingAssumption
      <4> QED
          BY <2>7, <3>1, <4>1, <4>2 DEF PricingInv, Pricing!TypeOK, Pricing!PricingAssumption
    <3>2. CASE ~d.persists
        BY <1>4, <3>2 DEF PricingInv, Pricing!TypeOK
    <3> QED
        BY <3>1, <3>2
  <2>9. Pricing!TypeOK'
    <3>1. request[r] \in Pricing!RequestRows
        BY DEF PricingInv, Pricing!TypeOK
    <3>2. [request[r] EXCEPT !.at = "committed", !.decision = e] \in Pricing!RequestRows
        BY <2>4, <3>1
    <3> HIDE DEF Pricing!RequestRows
    <3> QED
        BY <1>1, <1>2, <2>1, <2>8, <3>2 DEF PricingInv, Pricing!TypeOK
  <2>10. ConnInv'
      BY <1>1, <2>6, EndsConn DEF PricingInv
  <2>11. DecisionsHold'
    <3> SUFFICES ASSUME NEW s \in Requests PROVE DecisionHolds(s)'
        BY DEF DecisionsHold
    <3>1. CASE s = r
      <4>1. Permanent(r)'
        <5>1. Buyer(r)' = a
            BY <1>1, <2>6 DEF Buyer, OnlyAt
        <5>2. CASE d.persists
            BY <2>3, <2>4, <2>6, <2>8, <5>1, <5>2 DEF Permanent
        <5>3. CASE ~d.persists
            BY <1>1, <2>2, <2>4, <2>6, <2>8, <5>1, <5>3 DEF Permanent
        <5> QED
            BY <5>2, <5>3
      <4>2. PersistsOnce(r)'
          BY <2>6 DEF PersistsOnce
      <4> QED
          BY <2>5, <2>6, <3>1, <4>1, <4>2 DEF DecisionHolds
    <3>2. CASE s # r
      <4>1. request'[s] = request[s] /\ Buyer(s)' = Buyer(s)
          BY <2>6, <3>2 DEF OnlyAt, Buyer
      <4>2. Permanent(s)'
        <5>1. Permanent(s)
            BY DEF PricingInv, ArmInv, DecisionsHold, DecisionHolds
        <5>2. request[s].decision.assigned => Buyer(s) # a \/ ~d.persists
            BY <2>3, <5>1 DEF Permanent
        <5>3. request[s].decision.assigned => request[s].at # "idle"
            BY DEF PricingInv, ArmInv, DecisionsHold, DecisionHolds
        <5>4. request[s].decision.assigned => Buyer(s) \in Accounts
            BY <5>3 DEF PricingInv, ConnInv, ConnectionsMatch, Buyer, Pricing!Inputs
        <5> QED
            BY <2>8, <4>1, <5>1, <5>2, <5>4 DEF Permanent
      <4>3. PersistsOnce(s)'
        <5>1. request[s].at \in {"decided", "proved"} => Buyer(s) # a /\ Buyer(s) \in Accounts
          <6>1. request[s].at \in {"decided", "proved"} => Buyer(s) # a
              BY <1>1, <3>2, AloneInside DEF PricingInv, Pricing!PricingAssumption, Inside
          <6>2. request[s].at \in {"decided", "proved"} => Buyer(s) \in Accounts
              BY DEF PricingInv, ConnInv, ConnectionsMatch, Buyer, Pricing!Inputs
          <6> QED
              BY <6>1, <6>2
        <5> QED
            BY <2>8, <4>1, <5>1 DEF PricingInv, ArmInv, DecisionsHold, DecisionHolds, PersistsOnce
      <4> QED
          BY <4>1, <4>2, <4>3 DEF PricingInv, ArmInv, DecisionsHold, DecisionHolds
    <3> QED
        BY <3>1, <3>2
  <2>12. RowsAreArms'
    <3> SUFFICES ASSUME NEW b \in Accounts, row'[b] # None PROVE row'[b].variant \in Arms
        BY DEF RowsAreArms
    <3> QED
        BY <2>3, <2>8 DEF PricingInv, ArmInv, RowsAreArms
  <2>13. Pricing!BalanceIsClean'
    <3> SUFFICES ASSUME NEW b \in Accounts, row'[b] # None, row'[b].variant = "annual_same_price"
                 PROVE  \E s \in Requests : /\ request'[s].at = "committed" /\ Pricing!Of(s)' = b
                                            /\ request'[s].offer = "annual"
        BY DEF Pricing!BalanceIsClean
    <3>1. CASE b = a /\ d.persists
      <4>1. Pricing!OfferOf(e.variant) = "annual"
          BY <2>4, <2>8, <3>1 DEF Pricing!OfferOf
      <4> QED
          BY <2>6, <3>1, <4>1 DEF OnlyAt, Pricing!Of
    <3>2. CASE ~(b = a /\ d.persists)
      <4>1. row'[b] = row[b]
          BY <2>8, <3>2
      <4>2. PICK s \in Requests : /\ request[s].at = "committed" /\ Pricing!Of(s) = b
                                  /\ request[s].offer = "annual"
          BY <4>1 DEF PricingInv, ArmInv, Pricing!BalanceIsClean
      <4>3. s # r
          BY <1>1, <4>2
      <4> QED
          BY <2>6, <4>2, <4>3 DEF OnlyAt, Pricing!Of
    <3> QED
        BY <3>1, <3>2
  <2> QED
      BY <2>9, <2>10, <2>11, <2>12, <2>13 DEF PricingInv, ArmInv
<1> QED
    BY <1>3, <1>4 DEF Pricing!Commit

LEMMA FailInv ==
    ASSUME Pricing!PricingAssumption, PricingInv, NEW r \in Requests, NEW c \in Connections,
           Pricing!Fail(r, c)
    PROVE  PricingInv'
<1>1. /\ Pricing!Using(r, c) /\ request[r].at \in Began /\ Pricing!Ends(c)
      /\ Pricing!Goto(r, "error") /\ UNCHANGED <<row, expired, licensed>>
    BY DEF Pricing!Fail, Began, Inside
<1>2. /\ OnlyAt(r) /\ request'[r].at = "error"
      /\ request'[r].decision = request[r].decision /\ request'[r].offer = request[r].offer
    BY <1>1, GotoRow DEF PricingInv
<1>3. ConnInv'
    BY <1>1, <1>2, EndsConn DEF PricingInv
<1>4. Pricing!TypeOK'
    BY <1>1, GotoRow DEF PricingInv, Pricing!TypeOK, Pricing!Ends, Pricing!Idle
<1>5. ArmInv'
    BY <1>1, <1>2, ArmKeeps DEF PricingInv, OnlyAt
<1> QED
    BY <1>3, <1>4, <1>5 DEF PricingInv

\* Time and payments, which change no request.
LEMMA ElsewhereInv ==
    ASSUME Pricing!PricingAssumption, PricingInv,
           Pricing!Expire \/ (\E a \in Accounts : Pricing!Grant(a)) \/ UNCHANGED Pricing!vars
    PROVE  PricingInv'
<1>1. UNCHANGED <<conn, row, request>> /\ (expired => expired') /\ expired' \in BOOLEAN
    BY DEF Pricing!Expire, Pricing!Grant, Pricing!vars, PricingInv, Pricing!TypeOK
<1>2. licensed' \subseteq Accounts
    BY DEF Pricing!Expire, Pricing!Grant, Pricing!vars, PricingInv, Pricing!TypeOK
<1>3. Pricing!TypeOK'
    BY <1>1, <1>2 DEF PricingInv, Pricing!TypeOK
<1>4. ConnectionsMatch' /\ LocksAreExclusive'
    BY <1>1 DEF PricingInv, ConnInv, ConnectionsMatch, LocksAreExclusive, Buyer
<1>5. Pricing!StrayLocks'
    BY <1>1 DEF PricingInv, ConnInv, Pricing!StrayLocks, Pricing!Of
<1>6. NoneIsLicensed'
  <2> SUFFICES ASSUME NEW s \in Requests, request[s].at \in Inside PROVE Buyer(s) \notin licensed'
      BY <1>1 DEF NoneIsLicensed, Buyer
  <2>1. PICK c \in Connections : Buyer(s) \in conn[c].locks
      BY DEF PricingInv, ConnInv, ConnectionsMatch
  <2>2. Buyer(s) \notin licensed
      BY DEF PricingInv, ConnInv, NoneIsLicensed
  <2> QED
      BY <2>1, <2>2 DEF Pricing!Expire, Pricing!Grant, Pricing!vars
<1>7. ArmInv'
    BY <1>1 DEF PricingInv, ArmInv, DecisionsHold, DecisionHolds, Permanent, PersistsOnce, Buyer, RowsAreArms,
       Pricing!BalanceIsClean, Pricing!Of
<1> QED
    BY <1>3, <1>4, <1>5, <1>6, <1>7 DEF PricingInv, ConnInv

LEMMA PricingNext ==
    ASSUME Pricing!PricingAssumption, PricingInv, [Pricing!Next]_(Pricing!vars) PROVE PricingInv'
    BY BeginInv, LockInv, ResolveInv, ProveInv, CommitOfferInv, FailInv, ElsewhereInv DEF Pricing!Next

LEMMA PricingInvariance == ASSUME Pricing!PricingAssumption PROVE Pricing!Spec => []PricingInv
    BY PricingInit, PricingNext, PTL DEF Pricing!Spec

\* createCheckoutIntent decides the offer of an account under its lock: two
\* requests of one account are never behind it at once, nor is one with a
\* licence granted meanwhile, although an expired panel's connection keeps its
\* lock; and such a panel is the only way a lock outlives its request.
THEOREM OneBuyerAtATime ==
    ASSUME Pricing!PricingAssumption
    PROVE  Pricing!Spec => [](Pricing!OneAtATime /\ Pricing!StrayLocks)
<1>1. PricingInv => Pricing!OneAtATime
  <2> SUFFICES ASSUME PricingInv, NEW r \in Requests, request[r].at \in Inside
               PROVE  /\ Pricing!Of(r) \notin licensed
                      /\ \A s \in Requests \ {r} :
                           request[s].at \in Inside => Pricing!Of(s) # Pricing!Of(r)
      BY DEF Pricing!OneAtATime, Inside
  <2>1. Pricing!Of(r) \notin licensed
      BY DEF PricingInv, ConnInv, NoneIsLicensed, Buyer, Pricing!Of
  <2> QED
      BY <2>1, AloneInside DEF PricingInv, Pricing!PricingAssumption, Buyer, Pricing!Of
<1>2. PricingInv => Pricing!StrayLocks
    BY DEF PricingInv, ConnInv
<1> QED
    BY <1>1, <1>2, PricingInvariance, PTL

\* The arm of an account is permanent: whatever the configurations of the
\* deployments its requests meet, every intent that rests on an assignment
\* shows the row's arm, can be read back, is sold as its arm is billed, and
\* leaves no row of the annual arm without an intent on the annual Price.
THEOREM ArmsArePermanent ==
    ASSUME Pricing!PricingAssumption
    PROVE  Pricing!Spec => []( /\ Pricing!AssignmentIsPermanent /\ Pricing!SnapshotsRead
                               /\ Pricing!BalanceIsClean )
<1>1. PricingInv => Pricing!AssignmentIsPermanent
    BY DEF PricingInv, ArmInv, DecisionsHold, DecisionHolds, Permanent, Buyer,
       Pricing!AssignmentIsPermanent, Pricing!Of
<1>2. PricingInv => Pricing!SnapshotsRead
    BY DEF PricingInv, ArmInv, DecisionsHold, DecisionHolds, Pricing!SnapshotsRead
<1>3. PricingInv => Pricing!BalanceIsClean
    BY DEF PricingInv, ArmInv
<1> QED
    BY <1>1, <1>2, <1>3, PricingInvariance, PTL

-----------------------------------------------------------------------------
(* The Stripe Price of an offer (StripePrices), for any catalogue, any bound *)
(* on Prices and any number of edits and failed calls.                       *)

CONSTANTS Plans, Catalogues, MaxPrices, MaxMishaps
VARIABLES prices, product, config, answered, search, script, mishaps

Prices == INSTANCE StripePrices WITH request <- search

Climbs == {"configured", "default", "legacy", "product", "lookup", "any", "create", "converge"}

\* A search is on a rung of its plan's ladder.  What an undisturbed one looks for
\* is not obstructed, what it found can be sold, and where its creation was
\* refused there is a Price; a Price that was sold stays on its terms.
Fits(q) ==
    /\ q.at \in Climbs => q.plan \in Prices!Creatable
    /\ q.at \in {"default", "legacy", "any"} => q.plan = "one_time"
    /\ q.at = "idle" => ~q.disturbed
    /\ q.at # "idle" /\ ~q.disturbed =>
         /\ ~Prices!Obstructed(q.plan) /\ q.at # "error"
         /\ q.at = "verify" => Prices!Sellable(q.plan, q.found)
         /\ q.at = "converge" => Prices!KeyTaken(q.plan)
    /\ q.at = "sold" =>
         /\ q.found \in DOMAIN prices /\ prices[q.found].terms = q.plan
         /\ ~q.disturbed => prices[q.found].active

EachFits == \A r \in Requests, q \in Prices!RequestRows : search[r] = q => Fits(q)
PricesInv == Prices!TypeOK /\ EachFits

LEMMA PricesInit == ASSUME Prices!PricesAssumption, Prices!Init PROVE PricesInv
<1>1. \A r \in Requests : /\ search[r] \in Prices!RequestRows /\ search[r].at = "idle"
                          /\ ~search[r].disturbed
  <2>1. search \in [Requests -> {[plan |-> p, at |-> "idle", found |-> 0, disturbed |-> FALSE] : p \in Plans}]
      BY DEF Prices!Init
  <2>2. 0 \in Prices!Ids
      BY DEF Prices!Ids, Prices!PricesAssumption
  <2>3. \A r \in Requests : \E p \in Plans :
          search[r] = [plan |-> p, at |-> "idle", found |-> 0, disturbed |-> FALSE]
      BY <2>1
  <2>4. ASSUME NEW p \in Plans
        PROVE  [plan |-> p, at |-> "idle", found |-> 0, disturbed |-> FALSE] \in Prices!RequestRows
      BY <2>2 DEF Prices!RequestRows, Prices!Rungs
  <2> SUFFICES ASSUME NEW r \in Requests
               PROVE  search[r] \in Prices!RequestRows /\ search[r].at = "idle" /\ ~search[r].disturbed
      OBVIOUS
  <2>5. PICK p \in Plans : search[r] = [plan |-> p, at |-> "idle", found |-> 0, disturbed |-> FALSE]
      BY <2>3
  <2> QED
      BY <2>4, <2>5
<1>2. Prices!TypeOK
    BY <1>1 DEF Prices!Init, Prices!TypeOK, Prices!PricesAssumption, Prices!Ids
<1> QED
    BY <1>1, <1>2 DEF PricesInv, EachFits, Fits, Climbs

\* A search that is disturbed still fits.
LEMMA DisturbedFits ==
    ASSUME NEW q \in Prices!RequestRows, Fits(q), q.at # "idle"
    PROVE  /\ [q EXCEPT !.disturbed = TRUE] \in Prices!RequestRows
           /\ Fits([q EXCEPT !.disturbed = TRUE])
    BY DEF Fits, Prices!RequestRows

\* A creation leaves every other Price alone, and takes a key that was free.
LEMMA MadeGrows ==
    ASSUME Prices!PricesAssumption, Prices!TypeOK, NEW w \in Prices!Writers,
           NEW plan \in Prices!Creatable, Prices!Made(w, plan)
    PROVE  /\ prices' \in Seq(Prices!PriceRows) /\ Len(prices') = Len(prices) + 1
           /\ Len(prices') <= MaxPrices
           /\ \A p \in DOMAIN prices : p \in DOMAIN prices' /\ prices'[p] = prices[p]
           /\ \A p \in DOMAIN prices' : p \in DOMAIN prices \/ p = Len(prices) + 1
           /\ Len(prices) + 1 \in DOMAIN prices'
           /\ prices'[Len(prices) + 1] = [terms |-> plan, key |-> plan, active |-> TRUE]
           /\ answered' = [answered EXCEPT ![<<w, plan>>] = Len(prices) + 1]
           /\ answered' \in [Prices!Writers \X Prices!Creatable -> 0..Len(prices')]
<1> DEFINE new == [terms |-> plan, key |-> plan, active |-> TRUE]
<1>1. /\ prices' = Append(prices, new) /\ Len(prices) < MaxPrices
      /\ answered' = [answered EXCEPT ![<<w, plan>>] = Len(prices) + 1]
    BY DEF Prices!Made
<1>2. new \in Prices!PriceRows
    BY DEF Prices!PriceRows, Prices!PricesAssumption
<1>3. prices \in Seq(Prices!PriceRows) /\ Len(prices) \in Nat
    BY DEF Prices!TypeOK
<1> HIDE DEF new
<1>4. /\ prices' \in Seq(Prices!PriceRows) /\ Len(prices') = Len(prices) + 1
      /\ \A p \in 1 .. Len(prices) : prices'[p] = prices[p]
      /\ prices'[Len(prices) + 1] = new
    BY <1>1, <1>2, <1>3
<1>5. DOMAIN prices = 1 .. Len(prices) /\ DOMAIN prices' = 1 .. (Len(prices) + 1)
    BY <1>3, <1>4
<1>6. Len(prices) + 1 \in 0..Len(prices') /\ 0..Len(prices) \subseteq 0..Len(prices')
    BY <1>3, <1>4
<1>7. answered' \in [Prices!Writers \X Prices!Creatable -> 0..Len(prices')]
    BY <1>1, <1>6 DEF Prices!TypeOK
<1> QED
    BY <1>1, <1>3, <1>4, <1>5, <1>7 DEF new, Prices!PricesAssumption

\* What others do to what a search reads: nothing, or a creation.
World ==
    /\ UNCHANGED <<product, config>>
    /\ \/ UNCHANGED <<prices, answered>>
       \/ \E w \in Prices!Writers, plan \in Prices!Creatable : Prices!Made(w, plan)

LEMMA WorldKeeps ==
    ASSUME Prices!PricesAssumption, Prices!TypeOK, World, NEW q \in Prices!RequestRows, Fits(q)
    PROVE  Fits(q)'
<1>1. CASE UNCHANGED <<prices, answered>>
    BY <1>1 DEF World, Fits, Prices!Obstructed, Prices!Sellable, Prices!KeyTaken, Prices!Holders,
       Prices!Known, Prices!Shaped, Prices!IsUpgradePrice, Prices!IsSidestreamProPrice
<1>2. ASSUME NEW w \in Prices!Writers, NEW plan \in Prices!Creatable, Prices!Made(w, plan)
      PROVE  Fits(q)'
  <2>n. PICK n : n = Len(prices) + 1
      OBVIOUS
  <2>1. /\ \A p \in DOMAIN prices : p \in DOMAIN prices' /\ prices'[p] = prices[p]
        /\ \A p \in DOMAIN prices' : p \in DOMAIN prices \/ p = n
        /\ n \in DOMAIN prices'
        /\ prices'[n] = [terms |-> plan, key |-> plan, active |-> TRUE]
        /\ answered' = [answered EXCEPT ![<<w, plan>>] = n]
        /\ UNCHANGED <<product, config>>
      BY <1>2, <2>n, MadeGrows DEF World
  <2>2. \A p : Prices!Known(p) => Prices!Known(p)' /\ prices'[p] = prices[p]
      BY <2>1 DEF Prices!Known
  <2>3. \A p, a : Prices!Sellable(a, p) => Prices!Sellable(a, p)'
      BY <2>1, <2>2 DEF Prices!Sellable
  <2>4. \A a : Prices!KeyTaken(a) => Prices!KeyTaken(a)'
      BY <2>1 DEF Prices!KeyTaken, Prices!Holders
  <2>5. ASSUME NEW a, ~Prices!Obstructed(a) PROVE ~Prices!Obstructed(a)'
    <3>1. Prices!Shaped(n, plan)'
        BY <2>1 DEF Prices!Shaped, Prices!IsUpgradePrice, Prices!IsSidestreamProPrice, Prices!Creatable
    <3>2. ASSUME a \in Prices!Creatable, NEW p, p \in Prices!Holders(a)'
          PROVE  Prices!Shaped(p, a)'
      <4>1. CASE p \in DOMAIN prices
        <5>1. p \in Prices!Holders(a) /\ prices'[p] = prices[p]
            BY <2>1, <3>2, <4>1 DEF Prices!Holders
        <5>2. Prices!Shaped(p, a)
            BY <2>5, <3>2, <5>1 DEF Prices!Obstructed
        <5> QED
            BY <5>1, <5>2 DEF Prices!Shaped, Prices!IsUpgradePrice, Prices!IsSidestreamProPrice
      <4>2. CASE p = n
        <5>1. a = plan
            BY <2>1, <3>2, <4>2 DEF Prices!Holders
        <5> QED
            BY <3>1, <4>2, <5>1
      <4> QED
          BY <2>1, <3>2, <4>1, <4>2 DEF Prices!Holders
    <3>3. ASSUME a \in Prices!Creatable, NEW v, v = answered'[<<"site", a>>], v # 0
          PROVE  Prices!Shaped(v, a)'
      <4>1. answered \in [Prices!Writers \X Prices!Creatable -> 0..Len(prices)]
          BY DEF Prices!TypeOK
      <4>2. CASE <<"site", a>> = <<w, plan>>
        <5>1. v = n /\ a = plan
            BY <2>1, <3>3, <4>1, <4>2
        <5> QED
            BY <3>1, <5>1
      <4>3. CASE <<"site", a>> # <<w, plan>>
        <5>1. v = answered[<<"site", a>>] /\ v \in 0..Len(prices)
            BY <2>1, <3>3, <4>1, <4>3 DEF Prices!Writers
        <5>2. Prices!Shaped(v, a)
            BY <2>5, <3>3, <5>1 DEF Prices!Obstructed
        <5>3. v \in DOMAIN prices
            BY <3>3, <5>1 DEF Prices!TypeOK
        <5> QED
            BY <2>1, <5>2, <5>3 DEF Prices!Shaped, Prices!IsUpgradePrice, Prices!IsSidestreamProPrice
      <4> QED
          BY <4>2, <4>3
    <3> QED
        BY <2>1, <2>2, <2>3, <2>5, <3>2, <3>3 DEF Prices!Obstructed
  <2> QED
      BY <2>1, <2>3, <2>4, <2>5 DEF Fits
<1> QED
    BY <1>1, <1>2 DEF World

\* One search moves, while the world stands or a Price is created.
LEMMA MoveKeeps ==
    ASSUME Prices!PricesAssumption, PricesInv, World, NEW r \in Requests,
           NEW q \in Prices!RequestRows, search' = [search EXCEPT ![r] = q], Fits(q)',
           script' \in [at: {"idle", "create", "over"}, missing: SUBSET {"monthly", "one_time"}],
           mishaps' \in 0..MaxMishaps
    PROVE  PricesInv'
<1>1. prices' \in Seq(Prices!PriceRows) /\ Len(prices') <= MaxPrices
    BY MadeGrows DEF World, PricesInv, Prices!TypeOK
<1>2. answered' \in [Prices!Writers \X Prices!Creatable -> 0..Len(prices')]
    BY MadeGrows DEF World, PricesInv, Prices!TypeOK
<1>3. search \in [Requests -> Prices!RequestRows] /\ search' \in [Requests -> Prices!RequestRows]
    BY DEF PricesInv, Prices!TypeOK
<1>4. Prices!TypeOK'
    BY <1>1, <1>2, <1>3 DEF World, PricesInv, Prices!TypeOK
<1>5. EachFits'
  <2> SUFFICES ASSUME NEW s \in Requests, NEW x \in Prices!RequestRows, search'[s] = x PROVE Fits(x)'
      BY DEF EachFits
  <2>1. CASE s = r
      BY <1>3, <2>1
  <2>2. CASE s # r
    <3>1. search[s] = x
        BY <1>3, <2>2
    <3> QED
        BY <3>1, WorldKeeps DEF PricesInv, EachFits
  <2> QED
      BY <2>1, <2>2
<1> QED
    BY <1>4, <1>5 DEF PricesInv

\* Reading changes nothing but the search.
LEMMA ReadKeeps ==
    ASSUME Prices!PricesAssumption, PricesInv, Prices!Read, NEW r \in Requests,
           NEW q \in Prices!RequestRows, search' = [search EXCEPT ![r] = q], Fits(q)
    PROVE  PricesInv'
<1>1. World
    BY DEF Prices!Read, World
<1>2. Fits(q)'
    BY <1>1, WorldKeeps DEF PricesInv
<1> QED
    BY <1>1, <1>2, MoveKeeps DEF Prices!Read, PricesInv, Prices!TypeOK

\* The row of a search after At.
LEMMA AtRow ==
    ASSUME Prices!TypeOK, NEW r \in Requests, NEW q, q = search[r],
           NEW rung \in Prices!Rungs, Prices!At(r, rung)
    PROVE  /\ search' = [search EXCEPT ![r] = [q EXCEPT !.at = rung]]
           /\ [q EXCEPT !.at = rung] \in Prices!RequestRows /\ q \in Prices!RequestRows
<1>1. q \in Prices!RequestRows
    BY DEF Prices!TypeOK
<1> QED
    BY <1>1 DEF Prices!At, Prices!RequestRows, Prices!TypeOK

\* A search that found a Price of its shape may be sold it.
LEMMA FoundKeeps ==
    ASSUME Prices!PricesAssumption, PricesInv, Prices!Read, NEW r \in Requests, NEW p \in DOMAIN prices,
           search[r].at \in Climbs, Prices!Found(r, p),
           ~search[r].disturbed => Prices!Shaped(p, search[r].plan)
    PROVE  PricesInv'
<1>1. PICK q : q = search[r]
    OBVIOUS
<1>2. p \in Prices!Ids
    BY DEF PricesInv, Prices!TypeOK, Prices!Ids, Prices!PricesAssumption
<1>3. /\ search' = [search EXCEPT ![r] = [q EXCEPT !.at = "verify", !.found = p]]
      /\ [q EXCEPT !.at = "verify", !.found = p] \in Prices!RequestRows /\ q \in Prices!RequestRows
  <2>1. q \in Prices!RequestRows
      BY <1>1 DEF PricesInv, Prices!TypeOK
  <2> QED
      BY <1>1, <1>2, <2>1 DEF PricesInv, Prices!Found, Prices!RequestRows, Prices!TypeOK, Prices!Rungs
<1>4. Fits(q) /\ q.at \in Climbs
    BY <1>1, <1>3 DEF PricesInv, EachFits
<1>5. ~q.disturbed => Prices!Sellable(q.plan, p)
    BY <1>1, <1>4 DEF Fits, Climbs, Prices!Obstructed, Prices!Sellable, Prices!Shaped, Prices!Known,
       Prices!IsUpgradePrice, Prices!IsSidestreamProPrice, Prices!Creatable
<1>6. Fits([q EXCEPT !.at = "verify", !.found = p])
    BY <1>3, <1>4, <1>5 DEF Fits, Climbs, Prices!RequestRows
<1> QED
    BY <1>3, <1>6, ReadKeeps

\* A search that found none goes down, or fails for a reason.
LEMMA AtKeeps ==
    ASSUME Prices!PricesAssumption, PricesInv, Prices!Read, NEW r \in Requests, NEW rung \in Prices!Rungs,
           search[r].at \in Climbs, Prices!At(r, rung), rung \notin {"idle", "verify", "sold"},
           rung \in {"default", "legacy", "any"} => search[r].plan = "one_time",
           rung = "error" => search[r].disturbed,
           rung = "converge" => search[r].disturbed
    PROVE  PricesInv'
<1>1. PICK q : q = search[r]
    OBVIOUS
<1>2. /\ search' = [search EXCEPT ![r] = [q EXCEPT !.at = rung]]
      /\ [q EXCEPT !.at = rung] \in Prices!RequestRows /\ q \in Prices!RequestRows
    BY <1>1, AtRow DEF PricesInv
<1>3. Fits(q)
    BY <1>1, <1>2 DEF PricesInv, EachFits
<1>4. Fits([q EXCEPT !.at = rung])
    BY <1>1, <1>2, <1>3 DEF Fits, Climbs, Prices!RequestRows, Prices!Rungs
<1> QED
    BY <1>2, <1>4, ReadKeeps

\* The rungs of the two ladders.
LEMMA BelowRungs ==
    ASSUME NEW r \in Requests
    PROVE  /\ search[r].plan \in Prices!Recurring /\ search[r].at = "configured" => Prices!Below(r) = "product"
           /\ search[r].plan \in Prices!Recurring /\ search[r].at = "lookup" => Prices!Below(r) = "create"
           /\ search[r].plan = "one_time" =>
                /\ search[r].at = "configured" => Prices!Below(r) = "default"
                /\ search[r].at = "default" => Prices!Below(r) = "legacy"
                /\ search[r].at = "legacy" => Prices!Below(r) = "product"
                /\ search[r].at = "lookup" => Prices!Below(r) = "any"
<1> DEFINE l == Prices!Ladder(search[r].plan)
<1>1. ASSUME search[r].plan \in Prices!Recurring
      PROVE  /\ search[r].at = "configured" => Prices!Below(r) = "product"
             /\ search[r].at = "lookup" => Prices!Below(r) = "create"
  <2>1. l = <<"configured", "product", "lookup", "create">>
      BY <1>1 DEF Prices!Ladder
  <2>2. /\ DOMAIN l = 1..4
        /\ l[1] = "configured" /\ l[2] = "product" /\ l[3] = "lookup" /\ l[4] = "create"
      BY <2>1
  <2> HIDE DEF l
  <2>3. ASSUME search[r].at = "configured" PROVE (CHOOSE i \in DOMAIN l : l[i] = search[r].at) = 1
      BY <2>2, <2>3
  <2>4. ASSUME search[r].at = "lookup" PROVE (CHOOSE i \in DOMAIN l : l[i] = search[r].at) = 3
      BY <2>2, <2>4
  <2>5. Prices!Below(r) = l[1 + CHOOSE i \in DOMAIN l : l[i] = search[r].at]
      BY DEF l, Prices!Below
  <2> QED
      BY <2>2, <2>3, <2>4, <2>5
<1>2. ASSUME search[r].plan = "one_time"
      PROVE  /\ search[r].at = "configured" => Prices!Below(r) = "default"
             /\ search[r].at = "default" => Prices!Below(r) = "legacy"
             /\ search[r].at = "legacy" => Prices!Below(r) = "product"
             /\ search[r].at = "lookup" => Prices!Below(r) = "any"
  <2>1. l = <<"configured", "default", "legacy", "product", "lookup", "any", "create">>
      BY <1>2 DEF Prices!Ladder, Prices!Recurring
  <2>2. /\ DOMAIN l = 1..7
        /\ l[1] = "configured" /\ l[2] = "default" /\ l[3] = "legacy" /\ l[4] = "product"
        /\ l[5] = "lookup" /\ l[6] = "any" /\ l[7] = "create"
      BY <2>1
  <2> HIDE DEF l
  <2>3. ASSUME NEW k \in {1, 2, 3, 5}, l[k] = search[r].at
        PROVE  (CHOOSE i \in DOMAIN l : l[i] = search[r].at) = k
      BY <2>2, <2>3
  <2>5. Prices!Below(r) = l[1 + CHOOSE i \in DOMAIN l : l[i] = search[r].at]
      BY DEF l, Prices!Below
  <2> QED
      BY <2>2, <2>3, <2>5
<1> QED
    BY <1>1, <1>2

LEMMA StartKeeps ==
    ASSUME Prices!PricesAssumption, PricesInv, NEW r \in Requests, Prices!Start(r) PROVE PricesInv'
<1>1. PICK q : q = search[r]
    OBVIOUS
<1>2. PICK plan : plan = Prices!Selected(q.plan)
    OBVIOUS
<1> DEFINE n == [q EXCEPT !.plan = plan,
                          !.at = IF plan \in Prices!Creatable THEN "configured" ELSE "verify",
                          !.found = IF plan \in Prices!Creatable THEN 0 ELSE config.regional,
                          !.disturbed = Prices!Obstructed(plan)]
<1>3. q \in Prices!RequestRows /\ plan \in Plans
    BY <1>1, <1>2 DEF PricesInv, Prices!TypeOK, Prices!RequestRows, Prices!Selected,
       Prices!PricesAssumption, Prices!Creatable
<1>4. config.regional \in Prices!Ids /\ 0 \in Prices!Ids /\ Prices!Obstructed(plan) \in BOOLEAN
    BY DEF PricesInv, Prices!TypeOK, Prices!Ids, Prices!PricesAssumption, Prices!Obstructed
<1>5. n \in Prices!RequestRows
    BY <1>3, <1>4 DEF Prices!RequestRows, Prices!Rungs
<1>6. search' = [search EXCEPT ![r] = n]
    BY <1>1, <1>2 DEF Prices!Start
<1>7. n.at \in {"configured", "verify"} /\ n.plan = plan /\ n.disturbed = Prices!Obstructed(plan)
    BY <1>3 DEF Prices!RequestRows
<1>8. n.at = "configured" => plan \in Prices!Creatable
    BY <1>3 DEF Prices!RequestRows
<1>9. n.at = "verify" /\ ~Prices!Obstructed(plan) => Prices!Sellable(plan, n.found)
    BY <1>3 DEF Prices!RequestRows, Prices!Obstructed
<1> HIDE DEF n
<1>10. Fits(n)
    BY <1>7, <1>8, <1>9 DEF Fits, Climbs
<1> QED
    BY <1>5, <1>6, <1>10, ReadKeeps DEF Prices!Start

\* What an undisturbed climbing search knows of its plan.
LEMMA Unobstructed ==
    ASSUME PricesInv, NEW r \in Requests, search[r].at \in Climbs
    PROVE  /\ search[r] \in Prices!RequestRows /\ search[r].plan \in Prices!Creatable
           /\ search[r].at \in {"default", "legacy", "any"} => search[r].plan = "one_time"
           /\ ~search[r].disturbed => ~Prices!Obstructed(search[r].plan)
           /\ ~search[r].disturbed /\ search[r].at = "converge" => Prices!KeyTaken(search[r].plan)
<1>1. PICK q : q = search[r]
    OBVIOUS
<1>2. q \in Prices!RequestRows /\ Fits(q)
    BY <1>1 DEF PricesInv, Prices!TypeOK, EachFits
<1> QED
    BY <1>1, <1>2 DEF Fits, Climbs

LEMMA RetrieveConfiguredKeeps ==
    ASSUME Prices!PricesAssumption, PricesInv, NEW r \in Requests, Prices!RetrieveConfigured(r) PROVE PricesInv'
<1>1. PICK id : id = Prices!ConfiguredId(search[r].plan, search[r].at)
    OBVIOUS
<1>2. search[r].at \in {"configured", "default", "legacy"} /\ search[r].at \in Climbs /\ Prices!Read
    BY DEF Prices!RetrieveConfigured, Climbs
<1>3. CASE Prices!Known(id) /\ Prices!Shaped(id, search[r].plan)
  <2>1. Prices!Found(r, id)
      BY <1>1, <1>3 DEF Prices!RetrieveConfigured
  <2> QED
      BY <1>2, <1>3, <2>1, FoundKeeps DEF Prices!Known
<1>4. CASE ~(Prices!Known(id) /\ Prices!Shaped(id, search[r].plan))
  <2>1. Prices!At(r, IF search[r].at = "default" /\ config.live /\ ~Prices!Known(id) THEN "error" ELSE Prices!Below(r))
      BY <1>1, <1>4 DEF Prices!RetrieveConfigured
  <2>2. CASE search[r].at = "default" /\ config.live /\ ~Prices!Known(id)
    <3>1. search[r].plan = "one_time" /\ id = config.default
        BY <1>1, <1>2, <2>2, Unobstructed DEF Prices!ConfiguredId, Prices!Recurring
    <3>2. search[r].disturbed
        BY <1>2, <2>2, <3>1, Unobstructed DEF Prices!Obstructed
    <3> QED
        BY <1>2, <2>1, <2>2, <3>2, AtKeeps DEF Prices!Rungs
  <2>3. CASE ~(search[r].at = "default" /\ config.live /\ ~Prices!Known(id))
    <3>1. search[r].plan \in Prices!Recurring \/ search[r].plan = "one_time"
        BY <1>2, Unobstructed DEF Prices!Creatable
    <3>2. PICK b : b = Prices!Below(r)
        OBVIOUS
    <3>3. b \in {"product", "default", "legacy"} /\ (b # "product" => search[r].plan = "one_time")
        BY <1>2, <3>1, <3>2, Unobstructed, BelowRungs DEF Prices!Recurring
    <3>4. Prices!At(r, b)
        BY <2>1, <2>3, <3>2
    <3> QED
        BY <1>2, <3>3, <3>4, AtKeeps DEF Prices!Rungs
  <2> QED
      BY <2>2, <2>3
<1> QED
    BY <1>3, <1>4

LEMMA RetrieveProductKeeps ==
    ASSUME Prices!PricesAssumption, PricesInv, NEW r \in Requests, Prices!RetrieveProduct(r) PROVE PricesInv'
<1>1. search[r].at \in Climbs /\ Prices!Read
    BY DEF Prices!RetrieveProduct, Climbs
<1>2. CASE ~product.active /\ Prices!At(r, "error")
  <2>1. search[r].disturbed
      BY <1>1, <1>2, Unobstructed DEF Prices!Obstructed
  <2> QED
      BY <1>1, <1>2, <2>1, AtKeeps DEF Prices!Rungs
<1>3. CASE /\ search[r].plan = "one_time" /\ Prices!Known(product.default)
           /\ Prices!IsSidestreamProPrice(product.default) /\ Prices!Found(r, product.default)
    BY <1>1, <1>3, FoundKeeps DEF Prices!Shaped, Prices!Known, Prices!Recurring
<1>4. CASE Prices!At(r, "lookup")
    BY <1>1, <1>4, AtKeeps DEF Prices!Rungs
<1> QED
    BY <1>2, <1>3, <1>4 DEF Prices!RetrieveProduct

\* A set of numbers up to n has a greatest.
LEMMA Greatest ==
    ASSUME NEW n \in Nat, NEW S \in SUBSET (1..n), S # {}
    PROVE  \E m \in S : \A q \in S : q <= m
<1>1. PICK R : /\ IsWellFoundedOn(R, Nat)
               /\ \A x, y \in Nat : y < x => <<y, x>> \in R
  <2> DEFINE less == OpToRel(<, Nat)
  <2>1. IsWellFoundedOn(less, Nat)
      BY NatLessThanWellFounded
  <2>2. \A x, y \in Nat : y < x => <<y, x>> \in less
      BY DEF OpToRel
  <2> HIDE DEF less
  <2> QED
      BY <2>1, <2>2
<1>2. PICK T : T = {n - m : m \in S}
    OBVIOUS
<1>3. \A m \in S : n - m \in Nat
    OBVIOUS
<1>4. T \subseteq Nat /\ T # {}
  <2>1. \A t \in T : t \in Nat
      BY <1>2, <1>3
  <2>2. PICK m : m \in S
      OBVIOUS
  <2>3. n - m \in T
      BY <1>2, <2>2
  <2> QED
      BY <2>1, <2>3
<1>5. PICK x \in T : \A y \in T : ~(<<y, x>> \in R)
    BY <1>1, <1>4, WFMin
<1>6. PICK m \in S : x = n - m
    BY <1>2
<1>7. ASSUME NEW q \in S PROVE q <= m
  <2>1. n - q \in T /\ n - q \in Nat /\ n - m \in Nat
      BY <1>2, <1>3
  <2>2. ~(n - q < n - m)
      BY <1>1, <1>5, <1>6, <2>1
  <2>3. q \in 1..n /\ m \in 1..n
      OBVIOUS
  <2> QED
      BY <2>2, <2>3
<1> QED
    BY <1>7

LEMMA LookUpKeeps ==
    ASSUME Prices!PricesAssumption, PricesInv, NEW r \in Requests, NEW otherwise \in {"any", "create", "error"},
           search[r].at \in Climbs, Prices!LookUp(r, otherwise),
           otherwise = "any" => search[r].plan = "one_time",
           otherwise = "error" => search[r].at = "converge"
    PROVE  PricesInv'
<1> DEFINE plan == search[r].plan
           matches == {p \in Prices!ActiveHolders(plan) : Prices!Shaped(p, plan)}
<1>1. /\ Prices!Read
      /\ IF matches # {} THEN \E p \in matches : Prices!Found(r, p)
         ELSE Prices!At(r, IF Prices!ActiveHolders(plan) # {} THEN "error" ELSE otherwise)
    BY DEF Prices!LookUp
<1>2. \A p \in matches : p \in DOMAIN prices /\ Prices!Shaped(p, plan)
    BY DEF Prices!ActiveHolders, Prices!Holders
<1>3. ~search[r].disturbed => /\ plan \in Prices!Creatable
                              /\ \A p \in Prices!Holders(plan) : Prices!Shaped(p, plan)
                              /\ search[r].at = "converge" => Prices!Holders(plan) # {}
    BY Unobstructed DEF Prices!Obstructed, Prices!KeyTaken
<1>4. ~search[r].disturbed => \A p \in Prices!Holders(plan) : p \in matches
    BY <1>3 DEF Prices!ActiveHolders, Prices!Shaped, Prices!IsUpgradePrice, Prices!IsSidestreamProPrice
<1>5. Prices!ActiveHolders(plan) \subseteq Prices!Holders(plan)
    BY DEF Prices!ActiveHolders
<1> HIDE DEF matches
<1>6. CASE matches # {}
    BY <1>1, <1>2, <1>6, FoundKeeps
<1>7. CASE matches = {}
  <2>1. CASE Prices!ActiveHolders(plan) # {}
    <3>1. search[r].disturbed /\ Prices!At(r, "error")
        BY <1>1, <1>4, <1>5, <1>7, <2>1
    <3> QED
        BY <1>1, <3>1, AtKeeps DEF Prices!Rungs
  <2>2. CASE Prices!ActiveHolders(plan) = {}
    <3>1. Prices!At(r, otherwise)
        BY <1>1, <1>7, <2>2
    <3>2. otherwise = "error" => search[r].disturbed
        BY <1>3, <1>4, <1>7
    <3> QED
        BY <1>1, <3>1, <3>2, AtKeeps DEF Prices!Rungs
  <2> QED
      BY <2>1, <2>2
<1> QED
    BY <1>6, <1>7

LEMMA FindLookupKeeps ==
    ASSUME Prices!PricesAssumption, PricesInv, NEW r \in Requests, Prices!FindLookup(r) PROVE PricesInv'
<1>1. PICK b : b = Prices!Below(r)
    OBVIOUS
<1>2. search[r].at = "lookup" /\ Prices!LookUp(r, b) /\ search[r].at \in Climbs
    BY <1>1 DEF Prices!FindLookup, Climbs
<1>3. search[r].plan \in Prices!Recurring \/ search[r].plan = "one_time"
    BY <1>2, Unobstructed DEF Prices!Creatable
<1>4. b \in {"any", "create"} /\ (b = "any" => search[r].plan = "one_time")
    BY <1>1, <1>2, <1>3, BelowRungs DEF Prices!Recurring
<1> QED
    BY <1>2, <1>4, LookUpKeeps

LEMMA ConvergeKeeps ==
    ASSUME Prices!PricesAssumption, PricesInv, NEW r \in Requests, Prices!Converge(r) PROVE PricesInv'
    BY LookUpKeeps DEF Prices!Converge, Climbs

\* Of the Prices that fit the newest is found: there is one if any fits.
LEMMA FindAnyKeeps ==
    ASSUME Prices!PricesAssumption, PricesInv, NEW r \in Requests, Prices!FindAny(r) PROVE PricesInv'
<1> DEFINE fitting == {p \in DOMAIN prices : Prices!IsSidestreamProPrice(p)}
<1>1. search[r].at \in Climbs /\ Prices!Read /\ search[r].at = "any"
    BY DEF Prices!FindAny, Climbs
<1>2. IF fitting = {} THEN Prices!At(r, "create")
      ELSE Prices!Found(r, CHOOSE p \in fitting : \A q \in fitting : q <= p)
    BY DEF Prices!FindAny
<1>3. fitting \in SUBSET (1..Len(prices)) /\ Len(prices) \in Nat
    BY DEF PricesInv, Prices!TypeOK
<1>4. \A p \in fitting : p \in DOMAIN prices /\ Prices!IsSidestreamProPrice(p)
    OBVIOUS
<1> HIDE DEF fitting
<1>5. CASE fitting = {}
    BY <1>1, <1>2, <1>5, AtKeeps DEF Prices!Rungs
<1>6. CASE fitting # {}
  <2>1. PICK p : p = CHOOSE m \in fitting : \A q \in fitting : q <= m
      OBVIOUS
  <2>2. \E m \in fitting : \A q \in fitting : q <= m
      BY <1>3, <1>6, Greatest
  <2>3. p \in fitting
      BY <2>1, <2>2
  <2>4. Prices!Found(r, p)
      BY <1>2, <1>6, <2>1
  <2>5. Prices!Shaped(p, search[r].plan)
      BY <1>1, <1>4, <2>3, Unobstructed DEF Prices!Shaped, Prices!Recurring
  <2> QED
      BY <1>1, <1>4, <2>3, <2>4, <2>5, FoundKeeps
<1> QED
    BY <1>5, <1>6

\* What a search has when its creation went through.
LEMMA CreatedKeeps ==
    ASSUME Prices!PricesAssumption, PricesInv, NEW r \in Requests, NEW plan, plan = search[r].plan,
           search[r].at = "create", Prices!Made("site", plan), Prices!Found(r, Len(prices) + 1),
           UNCHANGED <<product, config, script, mishaps>>
    PROVE  PricesInv'
<1>1. PICK q : q = search[r]
    OBVIOUS
<1>2. PICK n : n = Len(prices) + 1
    OBVIOUS
<1>3. /\ search[r].at \in Climbs /\ q \in Prices!RequestRows /\ plan \in Prices!Creatable
      /\ ~q.disturbed => ~Prices!Obstructed(plan)
    BY <1>1, Unobstructed DEF Climbs
<1>4. World /\ "site" \in Prices!Writers
    BY <1>3 DEF World, Prices!Writers
<1>5. /\ n \in DOMAIN prices' /\ n \in Prices!Ids
      /\ prices'[n] = [terms |-> plan, key |-> plan, active |-> TRUE]
  <2>1. Prices!TypeOK /\ MaxPrices \in Nat
      BY DEF PricesInv, Prices!PricesAssumption
  <2>2. /\ Len(prices) + 1 \in DOMAIN prices' /\ Len(prices') = Len(prices) + 1 /\ Len(prices') <= MaxPrices
        /\ prices'[Len(prices) + 1] = [terms |-> plan, key |-> plan, active |-> TRUE]
      BY <1>3, <1>4, <2>1, MadeGrows
  <2>3. Len(prices) \in Nat
      BY <2>1 DEF Prices!TypeOK
  <2> QED
      BY <1>2, <2>1, <2>2, <2>3 DEF Prices!Ids
<1> DEFINE x == [q EXCEPT !.at = "verify", !.found = n]
<1>6. search' = [search EXCEPT ![r] = x]
    BY <1>1, <1>2, <1>3 DEF Prices!Found, PricesInv, Prices!TypeOK, Prices!RequestRows
<1>7. x \in Prices!RequestRows
    BY <1>3, <1>5 DEF Prices!RequestRows, Prices!Rungs
<1>8. x.at = "verify" /\ x.plan = plan /\ x.found = n /\ x.disturbed = q.disturbed
    BY <1>1, <1>3 DEF Prices!RequestRows
<1>9. Fits(q)'
    BY <1>1, <1>3, <1>4, WorldKeeps DEF PricesInv, EachFits
<1>10. ~q.disturbed => ~Prices!Obstructed(plan)'
    BY <1>1, <1>9 DEF Fits
<1>11. ~q.disturbed => Prices!Sellable(plan, n)'
    BY <1>4, <1>5, <1>10 DEF Prices!Sellable, Prices!Known, Prices!Obstructed
<1> HIDE DEF x
<1>12. Fits(x)'
    BY <1>8, <1>10, <1>11 DEF Fits, Climbs
<1>13. /\ script' \in [at: {"idle", "create", "over"}, missing: SUBSET {"monthly", "one_time"}]
       /\ mishaps' \in 0..MaxMishaps
    BY DEF PricesInv, Prices!TypeOK
<1> QED
    BY <1>4, <1>6, <1>7, <1>12, <1>13, MoveKeeps

LEMMA CreateKeeps ==
    ASSUME Prices!PricesAssumption, PricesInv, NEW r \in Requests, Prices!Create(r) PROVE PricesInv'
<1>1. PICK before : before = answered[<<"site", search[r].plan>>]
    OBVIOUS
<1>2. search[r].at = "create" /\ search[r].at \in Climbs
    BY DEF Prices!Create, Climbs
<1>3. search[r].plan \in Prices!Creatable /\ before \in 0..Len(prices)
    BY <1>1, <1>2, Unobstructed DEF PricesInv, Prices!TypeOK, Prices!Writers
<1>4. CASE before # 0 /\ Prices!Found(r, before) /\ UNCHANGED <<prices, answered>>
  <2>1. Prices!Read
      BY <1>4 DEF Prices!Create, Prices!Read
  <2>2. before \in DOMAIN prices
      BY <1>3, <1>4 DEF PricesInv, Prices!TypeOK
  <2>3. ~search[r].disturbed => Prices!Shaped(before, search[r].plan)
      BY <1>1, <1>2, <1>3, <1>4, Unobstructed DEF Prices!Obstructed
  <2> QED
      BY <1>2, <1>4, <2>1, <2>2, <2>3, FoundKeeps
<1>5. CASE Prices!KeyTaken(search[r].plan) /\ Prices!At(r, "converge") /\ UNCHANGED <<prices, answered>>
  <2>1. Prices!Read
      BY <1>5 DEF Prices!Create, Prices!Read
  <2>2. PICK q : q = search[r]
      OBVIOUS
  <2>3. /\ search' = [search EXCEPT ![r] = [q EXCEPT !.at = "converge"]]
        /\ [q EXCEPT !.at = "converge"] \in Prices!RequestRows /\ q \in Prices!RequestRows
      BY <1>5, <2>2, AtRow DEF PricesInv, Prices!Rungs
  <2>4. Fits(q) /\ q.plan \in Prices!Creatable /\ q.at = "create" /\ Prices!KeyTaken(q.plan)
      BY <1>2, <1>3, <1>5, <2>2, <2>3 DEF PricesInv, EachFits
  <2>5. Fits([q EXCEPT !.at = "converge"])
      BY <2>3, <2>4 DEF Fits, Climbs, Prices!RequestRows
  <2> QED
      BY <2>1, <2>3, <2>5, ReadKeeps
<1>6. CASE Prices!Made("site", search[r].plan) /\ Prices!Found(r, Len(prices) + 1)
    BY <1>2, <1>6, CreatedKeeps DEF Prices!Create
<1> QED
    BY <1>1, <1>4, <1>5, <1>6 DEF Prices!Create

LEMMA VerifyKeeps ==
    ASSUME Prices!PricesAssumption, PricesInv, NEW r \in Requests, Prices!Verify(r) PROVE PricesInv'
<1>1. PICK q : q = search[r]
    OBVIOUS
<1>2. PICK rung : rung = IF Prices!Sellable(q.plan, q.found) THEN "sold" ELSE "error"
    OBVIOUS
<1>3. q.at = "verify" /\ Prices!At(r, rung) /\ Prices!Read
    BY <1>1, <1>2 DEF Prices!Verify
<1>4. /\ search' = [search EXCEPT ![r] = [q EXCEPT !.at = rung]]
      /\ [q EXCEPT !.at = rung] \in Prices!RequestRows /\ q \in Prices!RequestRows
  <2>1. rung \in Prices!Rungs
      BY <1>2 DEF Prices!Rungs
  <2>2. Prices!TypeOK
      BY DEF PricesInv
  <2> QED
      BY <1>1, <1>3, <2>1, <2>2, AtRow
<1>5. Fits(q)
    BY <1>1, <1>4 DEF PricesInv, EachFits
<1> DEFINE x == [q EXCEPT !.at = rung]
<1>6. x.at = rung /\ x.plan = q.plan /\ x.found = q.found /\ x.disturbed = q.disturbed
    BY <1>4 DEF Prices!RequestRows
<1> HIDE DEF x
<1>7. Fits(x)
  <2>1. ~q.disturbed => ~Prices!Obstructed(q.plan) /\ rung # "error"
      BY <1>2, <1>3, <1>5 DEF Fits
  <2>2. rung = "sold" => q.found \in DOMAIN prices /\ prices[q.found].terms = q.plan /\ prices[q.found].active
      BY <1>2 DEF Prices!Sellable, Prices!Known
  <2> QED
      BY <1>2, <1>6, <2>1, <2>2 DEF Fits, Climbs
<1> QED
    BY <1>3, <1>4, <1>7, ReadKeeps DEF x

\* A failed call ends the search, or sends it to look whether its creation
\* reached Stripe: it is disturbed either way.
LEMMA FaultKeeps ==
    ASSUME Prices!PricesAssumption, PricesInv, NEW r \in Requests, Prices!Fault(r) PROVE PricesInv'
<1>1. PICK q : q = search[r]
    OBVIOUS
<1> DEFINE x == [q EXCEPT !.disturbed = TRUE, !.at = IF q.at = "create" THEN "converge" ELSE "error"]
<1>2. q \in Prices!RequestRows
    BY <1>1 DEF PricesInv, Prices!TypeOK
<1>3. search' = [search EXCEPT ![r] = x]
    BY <1>1 DEF Prices!Fault
<1>4. x \in Prices!RequestRows
    BY <1>2 DEF Prices!RequestRows, Prices!Rungs
<1>5. x.at = (IF q.at = "create" THEN "converge" ELSE "error") /\ x.disturbed /\ x.plan = q.plan
    BY <1>2 DEF Prices!RequestRows
<1>6. q.at = "create" => q.plan \in Prices!Creatable
    BY <1>1, Unobstructed DEF Climbs
<1> HIDE DEF x
<1>7. Fits(x)'
    BY <1>5, <1>6 DEF Fits, Climbs
<1>8. World
    BY <1>1, <1>6 DEF Prices!Fault, World, Prices!Writers
<1>9. mishaps' \in 0..MaxMishaps
    BY DEF Prices!Fault, PricesInv, Prices!TypeOK, Prices!PricesAssumption
<1>10. script' \in [at: {"idle", "create", "over"}, missing: SUBSET {"monthly", "one_time"}]
    BY DEF Prices!Fault, PricesInv, Prices!TypeOK
<1> QED
    BY <1>3, <1>4, <1>7, <1>8, <1>9, <1>10, MoveKeeps

\* The searches that the operator disturbs.
LEMMA DisturbedKeeps ==
    ASSUME Prices!PricesAssumption, PricesInv, World, NEW rs, search' = Prices!DisturbedBy(rs),
           script' \in [at: {"idle", "create", "over"}, missing: SUBSET {"monthly", "one_time"}],
           mishaps' \in 0..MaxMishaps
    PROVE  PricesInv'
<1>1. prices' \in Seq(Prices!PriceRows) /\ Len(prices') <= MaxPrices
    BY MadeGrows DEF World, PricesInv, Prices!TypeOK
<1>2. answered' \in [Prices!Writers \X Prices!Creatable -> 0..Len(prices')]
    BY MadeGrows DEF World, PricesInv, Prices!TypeOK
<1>3. ASSUME NEW s \in Requests, NEW x, search'[s] = x
      PROVE  x \in Prices!RequestRows /\ Fits(x)'
  <2>1. PICK q : q = search[s]
      OBVIOUS
  <2>2. q \in Prices!RequestRows /\ Fits(q)
      BY <2>1 DEF PricesInv, Prices!TypeOK, EachFits
  <2>3. x = q \/ (q.at # "idle" /\ x = [q EXCEPT !.disturbed = TRUE])
      BY <1>3, <2>1 DEF Prices!DisturbedBy
  <2>4. x \in Prices!RequestRows /\ Fits(x)
      BY <2>2, <2>3, DisturbedFits
  <2> QED
      BY <2>4, WorldKeeps DEF PricesInv
<1>4. DOMAIN search' = Requests /\ search' = [s \in Requests |-> search'[s]]
    BY DEF Prices!DisturbedBy
<1>5. search' \in [Requests -> Prices!RequestRows]
    BY <1>3, <1>4
<1>6. Prices!TypeOK'
    BY <1>1, <1>2, <1>5 DEF World, PricesInv, Prices!TypeOK
<1>7. EachFits'
    BY <1>3 DEF EachFits
<1> QED
    BY <1>6, <1>7 DEF PricesInv

LEMMA ProvisionKeeps ==
    ASSUME Prices!PricesAssumption, PricesInv, Prices!Provision PROVE PricesInv'
<1>1. script' \in [at: {"idle", "create", "over"}, missing: SUBSET {"monthly", "one_time"}]
  <2>1. {Prices!Provisioned[i] : i \in DOMAIN Prices!Provisioned} \subseteq {"monthly", "one_time"}
      BY DEF Prices!Provisioned
  <2> DEFINE all == {Prices!Provisioned[i] : i \in DOMAIN Prices!Provisioned}
  <2> HIDE DEF all
  <2>2. script' = [script EXCEPT !.at = "over"]
        \/ script' = [at |-> "create", missing |-> all \ {prices[p].key : p \in DOMAIN prices}]
      BY DEF Prices!Provision, all
  <2>3. script \in [at: {"idle", "create", "over"}, missing: SUBSET {"monthly", "one_time"}]
      BY DEF PricesInv, Prices!TypeOK
  <2>4. all \subseteq {"monthly", "one_time"}
      BY <2>1 DEF all
  <2> QED
      BY <2>2, <2>3, <2>4
<1>2. World /\ UNCHANGED <<search, mishaps>>
    BY DEF Prices!Provision, World
<1>3. Prices!TypeOK'
    BY <1>1, <1>2 DEF Prices!Provision, PricesInv, Prices!TypeOK
<1>4. EachFits'
    BY <1>2, WorldKeeps DEF PricesInv, EachFits
<1> QED
    BY <1>3, <1>4 DEF PricesInv

\* The script's next Price is one it is missing.
LEMMA NextIsMissing ==
    ASSUME Prices!TypeOK, script.missing # {}
    PROVE  Prices!NextMissing \in script.missing
<1>1. DOMAIN Prices!Provisioned = 1..2 /\ Prices!Provisioned[1] = "monthly" /\ Prices!Provisioned[2] = "one_time"
    BY DEF Prices!Provisioned
<1> script.missing \subseteq {"monthly", "one_time"}
    BY DEF Prices!TypeOK
<1>2. \E i \in DOMAIN Prices!Provisioned :
        /\ Prices!Provisioned[i] \in script.missing
        /\ \A j \in 1..(i - 1) : Prices!Provisioned[j] \notin script.missing
  <2>1. CASE "monthly" \in script.missing
      BY <1>1, <2>1
  <2>2. CASE "monthly" \notin script.missing
    <3>1. "one_time" \in script.missing
        BY <2>2
    <3>2. \A j \in 1..(2 - 1) : j = 1
        OBVIOUS
    <3> QED
        BY <1>1, <2>2, <3>1, <3>2
  <2> QED
      BY <2>1, <2>2
<1> QED
    BY <1>2 DEF Prices!NextMissing

LEMMA ProvisionOneKeeps ==
    ASSUME Prices!PricesAssumption, PricesInv, Prices!ProvisionOne PROVE PricesInv'
<1>1. Prices!TypeOK
    BY DEF PricesInv
<1>2. CASE /\ script' = [script EXCEPT !.at = "over"] /\ UNCHANGED <<prices, answered, search>>
           /\ UNCHANGED mishaps \/ (mishaps < MaxMishaps /\ mishaps' = mishaps + 1)
  <2>1. World
      BY <1>2 DEF Prices!ProvisionOne, World
  <2>2. script' \in [at: {"idle", "create", "over"}, missing: SUBSET {"monthly", "one_time"}]
      BY <1>1, <1>2 DEF Prices!TypeOK
  <2>3. mishaps' \in 0..MaxMishaps
      BY <1>1, <1>2 DEF Prices!TypeOK, Prices!PricesAssumption
  <2>4. Prices!TypeOK'
      BY <1>1, <1>2, <2>1, <2>2, <2>3 DEF World, Prices!TypeOK
  <2>5. EachFits'
      BY <1>2, <2>1, WorldKeeps DEF PricesInv, EachFits
  <2> QED
      BY <2>4, <2>5 DEF PricesInv
<1>3. CASE /\ script.missing # {} /\ Prices!Made("script", Prices!NextMissing)
           /\ script' = [script EXCEPT !.missing = @ \ {Prices!NextMissing}]
           /\ search' = Prices!DisturbedBy({r \in Requests : search[r].at \in {"sold", "verify"}})
           /\ UNCHANGED mishaps
  <2>1. Prices!NextMissing \in Prices!Creatable
      BY <1>1, <1>3, NextIsMissing DEF Prices!TypeOK, Prices!Creatable, Prices!Recurring
  <2>2. World
      BY <1>3, <2>1 DEF Prices!ProvisionOne, World, Prices!Writers
  <2>3. script' \in [at: {"idle", "create", "over"}, missing: SUBSET {"monthly", "one_time"}]
      BY <1>1, <1>3 DEF Prices!TypeOK
  <2>4. mishaps' \in 0..MaxMishaps
      BY <1>1, <1>3 DEF Prices!TypeOK
  <2> QED
      BY <1>3, <2>2, <2>3, <2>4, DisturbedKeeps
<1> QED
    BY <1>2, <1>3 DEF Prices!ProvisionOne

\* An edit at the dashboard disturbs whoever searches, and a disturbed search
\* expects nothing but the terms of what it was sold.
LEMMA EditKeeps ==
    ASSUME Prices!PricesAssumption, PricesInv, Prices!Edit PROVE PricesInv'
<1>1. Prices!TypeOK
    BY DEF PricesInv
<1>2. UNCHANGED <<config, script>> /\ mishaps' \in 0..MaxMishaps /\ search' = Prices!DisturbedBy(Requests)
    BY <1>1 DEF Prices!Edit, Prices!TypeOK, Prices!PricesAssumption
<1>3. /\ prices' \in Seq(Prices!PriceRows) /\ Len(prices') = Len(prices)
      /\ DOMAIN prices' = DOMAIN prices
      /\ \A p \in DOMAIN prices : prices'[p].terms = prices[p].terms
  <2>1. CASE UNCHANGED prices
      BY <1>1, <2>1 DEF Prices!TypeOK
  <2>2. ASSUME NEW p \in DOMAIN prices, NEW edited \in Prices!PriceRows, prices' = [prices EXCEPT ![p] = edited],
               edited.terms = prices[p].terms
        PROVE  <1>3
    <3>1. prices \in Seq(Prices!PriceRows)
        BY <1>1 DEF Prices!TypeOK
    <3> QED
        BY <2>2, <3>1
  <2>3. ASSUME NEW p \in DOMAIN prices, prices' = [prices EXCEPT ![p].active = ~@] PROVE <1>3
    <3>1. prices[p] \in Prices!PriceRows
        BY <1>1 DEF Prices!TypeOK
    <3>2. PICK edited : edited = [prices[p] EXCEPT !.active = ~@]
        OBVIOUS
    <3>3. edited \in Prices!PriceRows /\ edited.terms = prices[p].terms
        BY <3>1, <3>2 DEF Prices!PriceRows
    <3>4. prices' = [prices EXCEPT ![p] = edited]
        BY <2>3, <3>2
    <3> QED
        BY <2>2, <3>3, <3>4
  <2>4. ASSUME NEW p \in DOMAIN prices, prices' = [prices EXCEPT ![p].key = "none"] PROVE <1>3
    <3>1. prices[p] \in Prices!PriceRows
        BY <1>1 DEF Prices!TypeOK
    <3>2. PICK edited : edited = [prices[p] EXCEPT !.key = "none"]
        OBVIOUS
    <3>3. edited \in Prices!PriceRows /\ edited.terms = prices[p].terms
        BY <3>1, <3>2 DEF Prices!PriceRows
    <3>4. prices' = [prices EXCEPT ![p] = edited]
        BY <2>4, <3>2
    <3> QED
        BY <2>2, <3>3, <3>4
  <2> QED
      BY <2>1, <2>3, <2>4 DEF Prices!Edit
<1>4. answered' \in [Prices!Writers \X Prices!Creatable -> 0..Len(prices')]
  <2>1. CASE UNCHANGED answered
      BY <1>1, <1>3, <2>1 DEF Prices!TypeOK
  <2>2. CASE answered' = [k \in DOMAIN answered |-> 0]
    <3>1. 0 \in 0..Len(prices')
        BY <1>1, <1>3 DEF Prices!TypeOK
    <3> QED
        BY <1>1, <2>2, <3>1 DEF Prices!TypeOK
  <2> QED
      BY <2>1, <2>2 DEF Prices!Edit
<1>5. product' \in [active: BOOLEAN, default: Prices!Ids]
    BY <1>1 DEF Prices!Edit, Prices!TypeOK
<1>6. ASSUME NEW s \in Requests, NEW x, search'[s] = x
      PROVE  x \in Prices!RequestRows /\ Fits(x)'
  <2>1. PICK q : q = search[s]
      OBVIOUS
  <2>2. q \in Prices!RequestRows /\ Fits(q)
      BY <1>1, <2>1 DEF PricesInv, Prices!TypeOK, EachFits
  <2>3. IF q.at = "idle" THEN x = q ELSE x = [q EXCEPT !.disturbed = TRUE]
      BY <1>2, <1>6, <2>1 DEF Prices!DisturbedBy
  <2>4. x \in Prices!RequestRows /\ Fits(x) /\ (x.at # "idle" => x.disturbed)
      BY <2>2, <2>3, DisturbedFits DEF Prices!RequestRows
  <2>5. Fits(x)'
      BY <1>3, <2>4 DEF Fits
  <2> QED
      BY <2>4, <2>5
<1>7. DOMAIN search' = Requests /\ search' = [s \in Requests |-> search'[s]]
    BY <1>2 DEF Prices!DisturbedBy
<1>8. search' \in [Requests -> Prices!RequestRows]
    BY <1>6, <1>7
<1>9. Prices!TypeOK'
    BY <1>1, <1>2, <1>3, <1>4, <1>5, <1>8 DEF Prices!TypeOK
<1>10. EachFits'
    BY <1>6 DEF EachFits
<1> QED
    BY <1>9, <1>10 DEF PricesInv

LEMMA PricesNext == ASSUME Prices!PricesAssumption, PricesInv, [Prices!Next]_Prices!vars PROVE PricesInv'
<1>1. ASSUME NEW r \in Requests, Prices!Start(r) PROVE PricesInv'
    BY <1>1, StartKeeps
<1>2. ASSUME NEW r \in Requests, Prices!ProPrice(r) \/ Prices!MonthlyPrice(r) \/ Prices!AnnualPrice(r)
      PROVE  PricesInv'
  <2>1. \/ Prices!RetrieveConfigured(r) \/ Prices!RetrieveProduct(r) \/ Prices!FindLookup(r)
        \/ Prices!FindAny(r) \/ Prices!Create(r) \/ Prices!Converge(r)
      BY <1>2 DEF Prices!ProPrice, Prices!MonthlyPrice, Prices!AnnualPrice
  <2> QED
      BY <2>1, RetrieveConfiguredKeeps, RetrieveProductKeeps, FindLookupKeeps, FindAnyKeeps, CreateKeeps,
         ConvergeKeeps
<1>3. ASSUME NEW r \in Requests, Prices!Verify(r) PROVE PricesInv'
    BY <1>3, VerifyKeeps
<1>4. ASSUME NEW r \in Requests, Prices!Fault(r) PROVE PricesInv'
    BY <1>4, FaultKeeps
<1>5. CASE UNCHANGED Prices!vars
  <2>1. World /\ UNCHANGED search
      BY <1>5 DEF Prices!vars, World
  <2>2. Prices!TypeOK'
      BY <1>5 DEF Prices!vars, PricesInv, Prices!TypeOK
  <2>3. EachFits'
      BY <2>1, WorldKeeps DEF PricesInv, EachFits
  <2> QED
      BY <2>2, <2>3 DEF PricesInv
<1> QED
    BY <1>1, <1>2, <1>3, <1>4, <1>5, ProvisionKeeps, ProvisionOneKeeps, EditKeeps DEF Prices!Next

LEMMA PricesInvariance == ASSUME Prices!PricesAssumption PROVE Prices!Spec => []PricesInv
<1>1. Prices!Init => PricesInv
    BY PricesInit
<1>2. PricesInv /\ [Prices!Next]_Prices!vars => PricesInv'
    BY PricesNext
<1> QED
    BY <1>1, <1>2, PTL DEF Prices!Spec

\* However many requests climb their ladders together, with the operator's script
\* and edits at Stripe between any two rungs: a Price is sold on the terms that
\* were asked for or not at all, it was active unless somebody interfered, and
\* only a request that was obstructed or interfered with ends without its offer.
THEOREM OffersAsApproved ==
    ASSUME Prices!PricesAssumption
    PROVE  Prices!Spec => [](Prices!SoldAsApproved /\ Prices!FailsForReason)
<1>1. PricesInv => Prices!SoldAsApproved /\ Prices!FailsForReason
  <2> SUFFICES ASSUME PricesInv, NEW r \in Requests
               PROVE  /\ search[r].at = "sold" =>
                           /\ prices[search[r].found].terms = search[r].plan
                           /\ ~search[r].disturbed => prices[search[r].found].active
                      /\ search[r].at = "error" => search[r].disturbed
      BY DEF Prices!SoldAsApproved, Prices!FailsForReason
  <2>1. PICK q : q = search[r]
      OBVIOUS
  <2>2. Fits(q)
      BY <2>1 DEF PricesInv, Prices!TypeOK, EachFits
  <2> QED
      BY <2>1, <2>2 DEF Fits
<1> QED
    BY <1>1, PricesInvariance, PTL
=============================================================================

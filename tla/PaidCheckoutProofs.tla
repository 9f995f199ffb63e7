------------------------- MODULE PaidCheckoutProofs -------------------------
(***************************************************************************)
(* Proofs about PaidCheckout, for any number of requests, landing pages,    *)
(* keys and browsers.  A row is made once, by the request whose intent it   *)
(* names, with that request's key and entry; every Session and every answer *)
(* leads back to a row, and rows of one key or one entry are one.           *)
(* The second half is about WebSessions, the sign-ins of the buyers.        *)
(***************************************************************************)
EXTENDS PaidCheckout, Sequences, WellFoundedInduction, TLAPS

\* The unique constraints of the checkout table, and that an intent has one row.
RowsAreUnique ==
    \A w, x \in rows :
        w.key = x.key \/ w.entry = x.entry \/ w.intent = x.intent => w = x

\* Who made a row, and when.
RowsAreTheRequests ==
    \A w \in rows :
        /\ w.key = request[w.intent].key /\ w.entry = request[w.intent].entry
        /\ request[w.intent].stage \in {"session", "attach", "over"}

\* What a request has done before its stage.
StagesAreEarned ==
    \A r \in Requests :
        /\ request[r].stage = "idle" => request[r].answer = None
        /\ request[r].stage # "idle" => request[r].entry \in Entries /\ request[r].key \in Keys
        /\ request[r].stage \in {"session", "attach"} => \E w \in rows : w.intent = r
        /\ request[r].stage = "attach" => core[r] = "session"
        /\ core[r] = "session" => request[r].stage \in {"attach", "over"}

\* An answer is the Session of a row of the request's own key and entry.
AnswersHaveRows ==
    \A r \in Requests : request[r].answer # None =>
        \E w \in rows : /\ w.intent = request[r].answer
                        /\ w.key = request[r].key /\ w.entry = request[r].entry

IInv ==
    /\ TypeOK
    /\ RowsAreUnique
    /\ RowsAreTheRequests
    /\ StagesAreEarned
    /\ AnswersHaveRows
    /\ SessionsAreRecorded

-----------------------------------------------------------------------------
LEMMA InitInv == Init => IInv
    BY DEF Init, IInv, TypeOK, Stages, RowsAreUnique, RowsAreTheRequests,
           StagesAreEarned, AnswersHaveRows, SessionsAreRecorded

\* Landing pages and cookies are not in what follows.
LEMMA LandInv == ASSUME IInv, NEW e \in Entries, NEW c \in Cookies, Land(e, c) PROVE IInv'
<1>1. entry' \in [Entries -> [cookie : Paid \cup {None}, expired : BOOLEAN]]
    BY DEF Land, IInv, TypeOK
<1> QED
    BY <1>1 DEF Land, IInv, TypeOK, RowsAreUnique, RowsAreTheRequests,
           StagesAreEarned, AnswersHaveRows, SessionsAreRecorded

LEMMA ExpireInv == ASSUME IInv, NEW x, Expire(x) PROVE IInv'
<1>1. cookie' \in [Cookies -> {"valid", "expired"}]
    BY DEF Expire, IInv, TypeOK
<1>2. entry' \in [Entries -> [cookie : Paid \cup {None}, expired : BOOLEAN]]
  <2>1. entry \in [Entries -> [cookie : Paid \cup {None}, expired : BOOLEAN]]
      BY DEF IInv, TypeOK
  <2>2. ASSUME x \in Entries, entry' = [entry EXCEPT ![x].expired = TRUE]
        PROVE  entry' \in [Entries -> [cookie : Paid \cup {None}, expired : BOOLEAN]]
      BY <2>1, <2>2
  <2> QED
      BY <2>1, <2>2 DEF Expire
<1> QED
    BY <1>1, <1>2 DEF Expire, IInv, TypeOK, RowsAreUnique, RowsAreTheRequests,
           StagesAreEarned, AnswersHaveRows, SessionsAreRecorded

\* A request moves to a stage that asks for nothing, or is refused.
LEMMA GotoInv ==
    ASSUME IInv, NEW r \in Requests, NEW stage \in {"intent", "again", "over"}, Goto(r, stage),
           request[r].stage \in Stages \ {"idle"},
           stage # "over" => request[r].stage \notin {"session", "attach", "over"},
           UNCHANGED <<entry, cookie, core, rows>>
    PROVE  IInv'
<1>1. request' = [request EXCEPT ![r] = [request[r] EXCEPT !.stage = stage]]
    BY DEF Goto, IInv, TypeOK
<1>2. /\ request'[r].stage = stage /\ request'[r].answer = request[r].answer
      /\ request'[r].key = request[r].key /\ request'[r].entry = request[r].entry
      /\ \A x \in Requests : x # r => request'[x] = request[x]
    BY <1>1 DEF IInv, TypeOK
<1>3. request' \in [Requests -> [stage : Stages, entry : Entries \cup {None},
                                 key : Keys \cup {None}, answer : Requests \cup {None}]]
    BY <1>1 DEF IInv, TypeOK, Stages
<1>4. TypeOK'
    BY <1>2, <1>3 DEF IInv, TypeOK
<1>5. RowsAreTheRequests'
    BY <1>2 DEF IInv, TypeOK, RowsAreTheRequests
<1>6. StagesAreEarned'
    BY <1>2 DEF IInv, StagesAreEarned
<1>7. AnswersHaveRows'
    BY <1>2 DEF IInv, AnswersHaveRows
<1> QED
    BY <1>4, <1>5, <1>6, <1>7 DEF IInv, RowsAreUnique, SessionsAreRecorded

\* A request is answered with the Session of a row of its own.
LEMMA AnswerInv ==
    ASSUME IInv, NEW r \in Requests, NEW w \in rows, Answer(r, w.intent),
           request[r].stage # "idle", core[w.intent] = "session",
           w.key = request[r].key, w.entry = request[r].entry,
           UNCHANGED <<entry, cookie, core, rows>>
    PROVE  IInv'
<1>1. request' = [request EXCEPT ![r] =
                    [request[r] EXCEPT !.stage = "over", !.answer = w.intent]]
    BY DEF Answer, IInv, TypeOK
<1>2. /\ request'[r].stage = "over" /\ request'[r].answer = w.intent
      /\ request'[r].key = request[r].key /\ request'[r].entry = request[r].entry
      /\ \A x \in Requests : x # r => request'[x] = request[x]
    BY <1>1 DEF IInv, TypeOK
<1>3. request' \in [Requests -> [stage : Stages, entry : Entries \cup {None},
                                 key : Keys \cup {None}, answer : Requests \cup {None}]]
  <2>1. /\ w.intent \in Requests
        /\ request[r] \in [stage : Stages, entry : Entries \cup {None},
                           key : Keys \cup {None}, answer : Requests \cup {None}]
      BY DEF IInv, TypeOK
  <2>2. [request[r] EXCEPT !.stage = "over", !.answer = w.intent]
          \in [stage : Stages, entry : Entries \cup {None},
               key : Keys \cup {None}, answer : Requests \cup {None}]
      BY <2>1 DEF Stages
  <2> QED
      BY <1>1, <2>2 DEF IInv, TypeOK
<1>4. TypeOK'
    BY <1>2, <1>3 DEF IInv, TypeOK
<1>5. RowsAreTheRequests'
    BY <1>2 DEF IInv, TypeOK, RowsAreTheRequests
<1>6. StagesAreEarned'
    BY <1>2 DEF IInv, StagesAreEarned
<1>7. AnswersHaveRows'
    BY <1>2 DEF IInv, AnswersHaveRows
<1> QED
    BY <1>4, <1>5, <1>6, <1>7 DEF IInv, RowsAreUnique, SessionsAreRecorded

LEMMA FindReplayInv ==
    ASSUME IInv, NEW r \in Requests, NEW otherwise \in {"intent", "over"},
           request[r].stage \in {"replay", "again"}, FindReplay(r, otherwise),
           UNCHANGED <<entry, cookie, core, rows>>
    PROVE  IInv'
<1> DEFINE mine == CHOOSE w \in rows : w.key = request[r].key
<1>1. CASE \E w \in rows : w.key = request[r].key
  <2>1. mine \in rows /\ mine.key = request[r].key
      BY <1>1
  <2>2. IF SameIntent(mine, r) /\ core[mine.intent] = "session"
        THEN Answer(r, mine.intent) ELSE Refuse(r)
      BY <1>1 DEF FindReplay
  <2> HIDE DEF mine
  <2>3. CASE SameIntent(mine, r) /\ core[mine.intent] = "session"
      BY <2>1, <2>2, <2>3, AnswerInv DEF SameIntent
  <2>4. CASE ~(SameIntent(mine, r) /\ core[mine.intent] = "session")
      BY <2>2, <2>4, GotoInv DEF Refuse, Stages
  <2> QED
      BY <2>3, <2>4
<1>2. CASE ~\E w \in rows : w.key = request[r].key
    BY <1>2, GotoInv DEF FindReplay, Stages
<1> QED
    BY <1>1, <1>2

LEMMA BeginInv ==
    ASSUME IInv, NEW r \in Requests, NEW e \in Entries, NEW k \in Keys, NEW c \in Cookies,
           Begin(r, e, k, c)
    PROVE  IInv'
<1>1. /\ request'[r] = [stage |-> "replay", entry |-> e, key |-> k, answer |-> None]
      /\ \A x \in Requests : x # r => request'[x] = request[x]
      /\ request[r].stage = "idle" /\ UNCHANGED <<entry, cookie, core, rows>>
    BY DEF Begin, IInv, TypeOK
<1>2. request' \in [Requests -> [stage : Stages, entry : Entries \cup {None},
                                 key : Keys \cup {None}, answer : Requests \cup {None}]]
    BY DEF Begin, IInv, TypeOK, Stages
<1>3. TypeOK'
    BY <1>1, <1>2 DEF IInv, TypeOK
<1>4. RowsAreTheRequests'
    BY <1>1 DEF IInv, TypeOK, RowsAreTheRequests
<1>5. StagesAreEarned'
    BY <1>1 DEF IInv, StagesAreEarned
<1>6. AnswersHaveRows'
    BY <1>1 DEF IInv, AnswersHaveRows
<1> QED
    BY <1>1, <1>3, <1>4, <1>5, <1>6 DEF IInv, RowsAreUnique, SessionsAreRecorded

\* The core intent, and later its Session.
LEMMA CoreInv ==
    ASSUME IInv, NEW r \in Requests, ConfirmIntent(r) \/ MakeSession(r)
    PROVE  IInv'
<1>1. PICK made \in {"intent", "session"}, next \in {"persist", "attach"} :
        /\ core' = [core EXCEPT ![r] = made] /\ Goto(r, next)
        /\ made = "intent" => request[r].stage = "intent" /\ next = "persist"
        /\ made = "session" => request[r].stage = "session" /\ next = "attach"
    BY DEF ConfirmIntent, MakeSession
<1>2. UNCHANGED <<entry, cookie, rows>>
    BY DEF ConfirmIntent, MakeSession
<1>3. request' = [request EXCEPT ![r] = [request[r] EXCEPT !.stage = next]]
    BY <1>1 DEF Goto, IInv, TypeOK
<1>4. /\ request'[r].stage = next /\ request'[r].answer = request[r].answer
      /\ request'[r].key = request[r].key /\ request'[r].entry = request[r].entry
      /\ \A x \in Requests : x # r => request'[x] = request[x] /\ core'[x] = core[x]
      /\ core'[r] = made
    BY <1>1, <1>3 DEF IInv, TypeOK
<1>5. /\ request' \in [Requests -> [stage : Stages, entry : Entries \cup {None},
                                 key : Keys \cup {None}, answer : Requests \cup {None}]]
      /\ core' \in [Requests -> {"none", "intent", "session"}]
    BY <1>1, <1>3 DEF IInv, TypeOK, Stages
<1>6. core[r] # "session"
    BY <1>1 DEF IInv, StagesAreEarned
<1>7. \A x \in Requests : core[x] = "session" => core'[x] = "session"
    BY <1>4, <1>6
<1>8. \A x \in Requests : request'[x].answer = request[x].answer
    BY <1>4
<1>9. TypeOK'
    BY <1>2, <1>5, <1>7, <1>8 DEF IInv, TypeOK
<1>10. RowsAreTheRequests'
  <2>1. \A w \in rows : w.intent \in Requests
      BY DEF IInv, TypeOK
  <2> QED
      BY <1>1, <1>2, <1>4, <2>1 DEF IInv, RowsAreTheRequests
<1>11. StagesAreEarned'
    BY <1>1, <1>2, <1>4 DEF IInv, StagesAreEarned
<1>12. AnswersHaveRows'
    BY <1>2, <1>4 DEF IInv, AnswersHaveRows
<1>13. SessionsAreRecorded'
    BY <1>1, <1>2, <1>4 DEF IInv, SessionsAreRecorded, StagesAreEarned
<1> QED
    BY <1>2, <1>9, <1>10, <1>11, <1>12, <1>13 DEF IInv, RowsAreUnique

LEMMA PersistInv == ASSUME IInv, NEW r \in Requests, Persist(r) PROVE IInv'
<1>1. CASE Unique(r)
  <2> DEFINE new == [entry |-> request[r].entry, key |-> request[r].key,
                     intent |-> r, session |-> None]
  <2>1. /\ rows' = rows \cup {new} /\ Goto(r, "session") /\ request[r].stage = "persist"
        /\ UNCHANGED <<entry, cookie, core>>
      BY <1>1 DEF Persist
  <2>2. request[r].entry \in Entries /\ request[r].key \in Keys
      BY <2>1 DEF IInv, StagesAreEarned
  <2>3. request' = [request EXCEPT ![r] = [request[r] EXCEPT !.stage = "session"]]
      BY <2>1 DEF Goto, IInv, TypeOK
  <2>4. /\ request'[r].stage = "session" /\ request'[r].answer = request[r].answer
        /\ request'[r].key = request[r].key /\ request'[r].entry = request[r].entry
        /\ \A x \in Requests : x # r => request'[x] = request[x]
      BY <2>3 DEF IInv, TypeOK
  <2>5. request' \in [Requests -> [stage : Stages, entry : Entries \cup {None},
                                 key : Keys \cup {None}, answer : Requests \cup {None}]]
      BY <2>3 DEF IInv, TypeOK, Stages
  <2>6. /\ new \in [entry : Entries, key : Keys, intent : Requests,
                    session : Requests \cup {None}]
        /\ new.key = request[r].key /\ new.entry = request[r].entry
        /\ new.intent = r /\ new.session = None
      BY <2>2
  <2> HIDE DEF new
  <2>7. TypeOK'
      BY <2>1, <2>4, <2>5, <2>6 DEF IInv, TypeOK
  <2>8. \A w \in rows : w.intent \in Requests /\ w.intent # r
                        /\ w.key # new.key /\ w.entry # new.entry
    <3>1. \A w \in rows : w.intent # r
        BY <2>1 DEF IInv, RowsAreTheRequests
    <3> QED
        BY <1>1, <2>6, <3>1 DEF Unique, IInv, TypeOK
  <2>9. RowsAreUnique'
      BY <2>1, <2>6, <2>8 DEF IInv, RowsAreUnique
  <2>10. RowsAreTheRequests'
      BY <2>1, <2>4, <2>6, <2>8 DEF IInv, RowsAreTheRequests
  <2>11. StagesAreEarned'
      BY <2>1, <2>4, <2>6 DEF IInv, StagesAreEarned
  <2>12. AnswersHaveRows'
      BY <2>1, <2>4 DEF IInv, AnswersHaveRows
  <2>13. SessionsAreRecorded'
      BY <2>1 DEF IInv, SessionsAreRecorded
  <2> QED
      BY <2>7, <2>9, <2>10, <2>11, <2>12, <2>13 DEF IInv
<1>2. CASE ~Unique(r)
    BY <1>2, GotoInv DEF Persist, Stages
<1> QED
    BY <1>1, <1>2

LEMMA AttachInv == ASSUME IInv, NEW r \in Requests, Attach(r) PROVE IInv'
<1> DEFINE attached(w) == IF w.intent = r THEN [w EXCEPT !.session = r] ELSE w
<1>1. /\ rows' = {attached(w) : w \in rows} /\ Answer(r, r)
      /\ request[r].stage = "attach" /\ UNCHANGED <<entry, cookie, core>>
    BY DEF Attach
<1>2. PICK own \in rows : own.intent = r
    BY <1>1 DEF IInv, StagesAreEarned
<1>3. own.key = request[r].key /\ own.entry = request[r].entry /\ core[r] = "session"
    BY <1>1, <1>2 DEF IInv, StagesAreEarned, RowsAreTheRequests
<1>4. request' = [request EXCEPT ![r] =
                    [request[r] EXCEPT !.stage = "over", !.answer = r]]
    BY <1>1 DEF Answer, IInv, TypeOK
<1>5. /\ request'[r].stage = "over" /\ request'[r].answer = r
      /\ request'[r].key = request[r].key /\ request'[r].entry = request[r].entry
      /\ \A x \in Requests : x # r => request'[x] = request[x]
    BY <1>4 DEF IInv, TypeOK
<1>6. request' \in [Requests -> [stage : Stages, entry : Entries \cup {None},
                                 key : Keys \cup {None}, answer : Requests \cup {None}]]
  <2>1. request[r] \in [stage : Stages, entry : Entries \cup {None},
                        key : Keys \cup {None}, answer : Requests \cup {None}]
      BY DEF IInv, TypeOK
  <2>2. [request[r] EXCEPT !.stage = "over", !.answer = r]
          \in [stage : Stages, entry : Entries \cup {None},
               key : Keys \cup {None}, answer : Requests \cup {None}]
      BY <2>1 DEF Stages
  <2> QED
      BY <1>4, <2>2 DEF IInv, TypeOK
<1>7. \A w \in rows : /\ attached(w) \in [entry : Entries, key : Keys, intent : Requests,
                                         session : Requests \cup {None}]
                      /\ attached(w).key = w.key /\ attached(w).entry = w.entry
                      /\ attached(w).intent = w.intent
                      /\ attached(w).session = IF w.intent = r THEN r ELSE w.session
    BY DEF IInv, TypeOK
<1> HIDE DEF attached
<1>8. TypeOK'
  <2>1. rows' \subseteq [entry : Entries, key : Keys, intent : Requests,
                         session : Requests \cup {None}]
      BY <1>1, <1>7
  <2>2. \A w \in rows' : w.session # None => w.session = w.intent /\ core'[w.intent] = "session"
      BY <1>1, <1>3, <1>7 DEF IInv, TypeOK
  <2>3. \A x \in Requests : request'[x].answer # None => core'[request'[x].answer] = "session"
      BY <1>1, <1>3, <1>5 DEF IInv, TypeOK
  <2> QED
      BY <1>1, <1>6, <2>1, <2>2, <2>3 DEF IInv, TypeOK
<1>9. RowsAreUnique'
  <2> SUFFICES ASSUME NEW w \in rows, NEW x \in rows,
                      \/ attached(w).key = attached(x).key
                      \/ attached(w).entry = attached(x).entry
                      \/ attached(w).intent = attached(x).intent
               PROVE  attached(w) = attached(x)
      BY <1>1 DEF RowsAreUnique
  <2>1. w = x
      BY <1>7 DEF IInv, RowsAreUnique
  <2> QED
      BY <2>1
<1>10. RowsAreTheRequests'
  <2>1. \A w \in rows : w.intent \in Requests
      BY DEF IInv, TypeOK
  <2> QED
      BY <1>1, <1>5, <1>7, <2>1 DEF IInv, RowsAreTheRequests
<1>11. StagesAreEarned'
    BY <1>1, <1>5, <1>7 DEF IInv, StagesAreEarned
<1>12. AnswersHaveRows'
  <2> SUFFICES ASSUME NEW x \in Requests, request'[x].answer # None
               PROVE  \E w \in rows' : /\ w.intent = request'[x].answer
                                       /\ w.key = request'[x].key
                                       /\ w.entry = request'[x].entry
      BY DEF AnswersHaveRows
  <2>1. PICK w \in rows : /\ w.intent = request'[x].answer
                          /\ w.key = request'[x].key /\ w.entry = request'[x].entry
      BY <1>2, <1>3, <1>5 DEF IInv, AnswersHaveRows
  <2> QED
      BY <1>1, <1>7, <2>1
<1>13. SessionsAreRecorded'
    BY <1>1, <1>7 DEF IInv, SessionsAreRecorded
<1> QED
    BY <1>8, <1>9, <1>10, <1>11, <1>12, <1>13 DEF IInv

LEMMA NextInv == IInv /\ [Next]_vars => IInv'
<1> SUFFICES ASSUME IInv, [Next]_vars PROVE IInv'
    OBVIOUS
<1>1. CASE \E e \in Entries, c \in Cookies : Land(e, c)
    BY <1>1, LandInv
<1>2. CASE \E r \in Requests, e \in Entries, k \in Keys, c \in Cookies : Begin(r, e, k, c)
    BY <1>2, BeginInv
<1>3. ASSUME NEW r \in Requests, Replay(r) PROVE IInv'
    BY <1>3, FindReplayInv DEF Replay
<1>4. ASSUME NEW r \in Requests, ConfirmIntent(r) \/ MakeSession(r) PROVE IInv'
    BY <1>4, CoreInv
<1>5. ASSUME NEW r \in Requests, Persist(r) PROVE IInv'
    BY <1>5, PersistInv
<1>6. ASSUME NEW r \in Requests, ReplayConcurrent(r) PROVE IInv'
    BY <1>6, FindReplayInv DEF ReplayConcurrent
<1>7. ASSUME NEW r \in Requests, Attach(r) PROVE IInv'
    BY <1>7, AttachInv
<1>8. ASSUME NEW r \in Requests, Fail(r) PROVE IInv'
  <2>1. request[r].stage \in Stages \ {"idle"}
      BY <1>8 DEF Fail, IInv, TypeOK
  <2> QED
      BY <1>8, <2>1, GotoInv DEF Fail, Refuse
<1>9. CASE \E x \in Entries \cup Cookies : Expire(x)
    BY <1>9, ExpireInv
<1>10. CASE UNCHANGED vars
    BY <1>10 DEF vars, IInv, TypeOK, RowsAreUnique, RowsAreTheRequests,
                 StagesAreEarned, AnswersHaveRows, SessionsAreRecorded
<1> QED
    BY <1>1, <1>2, <1>3, <1>4, <1>5, <1>6, <1>7, <1>8, <1>9, <1>10 DEF Next

LEMMA Invariance == Spec => []IInv
    BY InitInv, NextInv, PTL DEF Spec

-----------------------------------------------------------------------------
\* Rows, requests and intents have their types, and nobody is answered with a
\* Session that does not exist (checkout.ts, paid-acquisition.ts).
THEOREM TypeCorrect == Spec => []TypeOK
<1>1. IInv => TypeOK
    BY DEF IInv
<1> QED
    BY <1>1, Invariance, PTL

\* Whatever requests of one key or one landing page overlap, fail or come late,
\* they are answered with one Session; it and every other one is attributed
\* (findPaidAcquisitionCheckoutReplay and the two unique constraints).
THEOREM PaidCheckoutCorrect == Spec => []PaidCheckoutHolds
<1>1. IInv => PaidCheckoutHolds
  <2> SUFFICES ASSUME IInv PROVE PaidCheckoutHolds
      OBVIOUS
  <2>1. AnswersAreAttributed
      BY DEF IInv, AnswersHaveRows, AnswersAreAttributed
  <2>2. KeysConverge
    <3> SUFFICES ASSUME NEW r \in Requests, NEW s \in Requests,
                        request[r].answer # None, request[s].answer # None,
                        \/ request[r].key = request[s].key
                        \/ request[r].entry = request[s].entry
                 PROVE  request[r].answer = request[s].answer
        BY DEF KeysConverge
    <3>1. PICK w \in rows : /\ w.intent = request[r].answer
                            /\ w.key = request[r].key /\ w.entry = request[r].entry
        BY DEF IInv, AnswersHaveRows
    <3>2. PICK x \in rows : /\ x.intent = request[s].answer
                            /\ x.key = request[s].key /\ x.entry = request[s].entry
        BY DEF IInv, AnswersHaveRows
    <3>3. w = x
        BY <3>1, <3>2 DEF IInv, RowsAreUnique
    <3> QED
        BY <3>1, <3>2, <3>3
  <2> QED
      BY <2>1, <2>2 DEF IInv, PaidCheckoutHolds
<1> QED
    BY <1>1, Invariance, PTL

-----------------------------------------------------------------------------
(***************************************************************************)
(* Signing in, beside the purchases of the customers who do: WebSessions    *)
(* for any number of sign-ins, deliveries, identities and emails.  A row of *)
(* the accounts never loses its subject, and one that nobody signed in to   *)
(* is the only one of its email, because both of the actors that look for   *)
(* accounts by email hold its lock until they have written.                 *)
(***************************************************************************)
CONSTANTS Attempts, Deliveries, Identities, Customers, Emails, Handoffs, MaxAccounts, MaxMishaps
VARIABLES account, recent, lock, attempt, delivery, jar, session, logout, root, credited, mishaps

Web == INSTANCE WebSessions WITH cookie <- jar

AccountRows == [sub : Web!Subs \cup {None}, email : Emails, customer : Customers \cup {None}, renamed : BOOLEAN]
Signing == [at : Web!AttemptStages, root : Web!Roots \cup {None}, sub : Web!Subs \cup {None},
            email : Emails \cup {None}, account : 0..MaxAccounts]
Delivering == [at : Web!DeliveryStages, customer : Customers \cup {None}, email : Emails \cup {None}]
Jars == [state : Attempts \cup {None}, visit : Web!Roots \cup {None}, session : Attempts \cup {None}]
Holders == Attempts \cup Deliveries \cup {None}

\* The accounts and the order of their updates.
Tables ==
    /\ account \in Seq(AccountRows) /\ Len(account) <= MaxAccounts
    /\ recent \in Seq(Web!Rows) /\ Len(recent) = Len(account)
    /\ \A a \in Web!Rows : \E i \in DOMAIN recent : recent[i] = a
\* Actors and the browser.
Actors ==
    /\ lock \in [Emails \cup Customers -> Holders]
    /\ attempt \in [Attempts -> Signing] /\ delivery \in [Deliveries -> Delivering]
    /\ jar \in Jars
    /\ session \in [Attempts -> {"none", "live", "revoked", "expired"}]
    /\ logout \in [at : {"idle", "answer", "over"}, token : Attempts \cup {None}]
    /\ root \in [Web!Roots -> {"none", "intact", "quarantined"}]
    /\ mishaps \in 0..MaxMishaps

Working == {"lock", "link", "insert", "credit", "open", "answer", "signed"}
Placed == {"credit", "open", "answer", "signed"}
Sealed == {"open", "answer", "signed", "failed", "over"}
\* A sign-in knows whom Google named, and then its account, which has that
\* subject.  Who looks for an account by its email holds the email's lock, and
\* what a search that found nobody relies on stands until it inserts.
Named(t) ==
    /\ attempt[t].at \in Working => attempt[t].sub \in Web!Subs /\ attempt[t].email \in Emails
    /\ attempt[t].at \in Placed => /\ attempt[t].account \in Web!Rows
                                   /\ account[attempt[t].account].sub = attempt[t].sub
Unclaimed(t) ==
    /\ attempt[t].at \in {"link", "insert"} => lock[attempt[t].email] = t
    /\ attempt[t].at = "insert" =>
         \A a \in Web!Rows : account[a].email = attempt[t].email => account[a].renamed \/ account[a].sub # None
\* A sign-in that nothing disturbed failed over an email that changed.
Reasoned(t) ==
    attempt[t].at = "failed" /\ mishaps = 0 =>
        /\ attempt[t].sub \in Web!Subs
        /\ \E a \in Web!Rows : \/ account[a].renamed
                              \/ (account[a].sub = attempt[t].sub /\ account[a].email # attempt[t].email)
Unknown(d) ==
    /\ delivery[d].at \in {"claim", "insert"} \/ (delivery[d].at = "find" /\ delivery[d].email # None)
         => delivery[d].email \in Emails /\ lock[delivery[d].email] = d
    /\ delivery[d].at = "insert" =>
         \A a \in Web!Rows : account[a].email = delivery[d].email => account[a].renamed
Fitting ==
    /\ \A t \in Attempts : Named(t) /\ Unclaimed(t) /\ Reasoned(t)
    /\ \A d \in Deliveries : Unknown(d)
\* Sessions are those of sign-ins that opened one, and a logout ended its own.
SessionsOpened ==
    /\ \A t \in Attempts : session[t] # "none" <=> attempt[t].at \in {"answer", "signed"}
    /\ jar.session # None => session[jar.session] # "none"
    /\ logout.at = "idle" => logout.token = None
    /\ logout.token # None => session[logout.token] \in {"revoked", "expired"}
\* A sign-in that was credited is past it, and keeps its start's acquisition.
CreditsKept ==
    /\ credited \subseteq Web!Roots \X Web!Rows
    /\ \A p \in credited : \E t \in Attempts :
         attempt[t].root = p[1] /\ attempt[t].account = p[2] /\ attempt[t].at \in Sealed

SignInv ==
    /\ Tables /\ Actors /\ Fitting /\ SessionsOpened /\ CreditsKept /\ Web!PurchaseMeetsSigner

LEMMA SignTypes == ASSUME SignInv PROVE Web!TypeOK
<1>1. Tables /\ Actors /\ credited \subseteq Web!Roots \X Web!Rows
    BY DEF SignInv, CreditsKept
<1>2. {recent[i] : i \in DOMAIN recent} = Web!Rows
    BY <1>1 DEF Tables
<1> QED
    BY <1>1, <1>2 DEF Tables, Actors, Jars, Web!TypeOK, AccountRows, Signing, Delivering, Holders

LEMMA SignInit == ASSUME Web!SignInAssumption, Web!Init PROVE SignInv
<1>1. Tables
    BY DEF Web!SignInAssumption, Web!Init, Tables, Web!Rows
<1>2. Actors
    BY DEF Web!SignInAssumption, Web!Init, Actors, Jars, Signing, Delivering, Holders,
       Web!AttemptStages, Web!DeliveryStages
<1>3. Fitting /\ SessionsOpened
    BY DEF Web!Init, Fitting, Named, Unclaimed, Reasoned, Unknown, SessionsOpened, Working, Placed
<1>4. Web!Rows = {} /\ credited = {}
    BY DEF Web!Init, Web!Rows
<1>5. CreditsKept /\ Web!PurchaseMeetsSigner
    BY <1>4 DEF CreditsKept, Web!PurchaseMeetsSigner
<1> QED
    BY <1>1, <1>2, <1>3, <1>5 DEF SignInv

-----------------------------------------------------------------------------
\* A row that was updated last stands at the end, and every row has a place.
LEMMA PlaceIs ==
    ASSUME Tables, NEW a \in Web!Rows
    PROVE  Web!Place(a) \in DOMAIN recent /\ recent[Web!Place(a)] = a
    BY DEF Tables, Web!Place

LEMMA NewestIs ==
    ASSUME Tables, NEW S \in SUBSET Web!Rows, S # {} PROVE Web!Newest(S) \in S
<1>1. PICK R : /\ IsWellFoundedOn(R, Nat)
               /\ \A x, y \in Nat : y < x => <<y, x>> \in R
  <2> DEFINE less == OpToRel(<, Nat)
  <2>1. IsWellFoundedOn(less, Nat)
      BY NatLessThanWellFounded
  <2>2. \A x, y \in Nat : y < x => <<y, x>> \in less
      BY DEF OpToRel
  <2> HIDE DEF less
  <2> QED
      BY <2>1, <2>2
<1>2. PICK n \in Nat : n = Len(recent)
    BY DEF Tables
<1>3. \A b \in S : Web!Place(b) \in 1..n
    BY <1>2, PlaceIs DEF Tables
<1>4. PICK T : T = {n - Web!Place(b) : b \in S}
    OBVIOUS
<1>5. T \subseteq Nat /\ T # {}
    BY <1>2, <1>3, <1>4
<1>6. PICK x \in T : \A y \in T : ~(<<y, x>> \in R)
    BY <1>1, <1>5, WFMin
<1>7. PICK a \in S : x = n - Web!Place(a)
    BY <1>4
<1>8. ASSUME NEW b \in S PROVE Web!Place(b) <= Web!Place(a)
  <2>1. n - Web!Place(b) \in T /\ Web!Place(a) \in 1..n /\ Web!Place(b) \in 1..n
      BY <1>3, <1>4
  <2>2. ~(n - Web!Place(b) < n - Web!Place(a))
      BY <1>1, <1>5, <1>6, <1>7, <2>1
  <2> QED
      BY <1>2, <2>1, <2>2
<1> QED
    BY <1>8 DEF Web!Newest

-----------------------------------------------------------------------------
\* What no write to the accounts undoes: a subject stays, and an account that
\* has another email than before is a renamed one.
RowKept(old, new) ==
    /\ old.sub # None => new.sub = old.sub
    /\ old.renamed => new.renamed
    /\ new.email = old.email \/ new.renamed
Kept == \A a \in Web!Rows : a \in (Web!Rows)' /\ RowKept(account[a], account'[a])

LEMMA UpdateKeeps ==
    ASSUME Tables, NEW a \in Web!Rows, NEW r \in AccountRows, RowKept(account[a], r), Web!Update(a, r)
    PROVE  Tables' /\ Kept /\ (Web!Rows)' = Web!Rows /\ account'[a] = r
<1>1. /\ account' = [account EXCEPT ![a] = r] /\ account' \in Seq(AccountRows) /\ Len(account') = Len(account)
      /\ DOMAIN account' = DOMAIN account
    BY DEF Web!Update, Tables, Web!Rows
<1>2. Kept /\ (Web!Rows)' = Web!Rows /\ account'[a] = r
    BY <1>1 DEF Kept, RowKept, Web!Rows, Tables
<1>3. PICK n, k : n = Len(recent) /\ n \in Nat /\ k = Web!Place(a)
    BY DEF Tables
<1>4. k \in 1..n /\ recent[k] = a
    BY <1>3, PlaceIs DEF Tables
<1>5. recent' = [i \in 1..n |-> IF i < k THEN recent[i] ELSE IF i < n THEN recent[i + 1] ELSE a]
    BY <1>3 DEF Web!Update, Web!Touched, Tables
<1>6. \A i \in 1..n : recent'[i] \in Web!Rows
    BY <1>3, <1>4, <1>5 DEF Tables
<1>7. recent' \in Seq(Web!Rows) /\ Len(recent') = n
    BY <1>3, <1>5, <1>6
<1>8. ASSUME NEW b \in Web!Rows PROVE \E i \in DOMAIN recent' : recent'[i] = b
  <2>1. PICK j \in 1..n : recent[j] = b
      BY <1>3 DEF Tables
  <2>2. CASE j < k
      BY <1>5, <2>1, <2>2
  <2>3. CASE j > k
    <3>1. j - 1 \in 1..n /\ ~(j - 1 < k) /\ j - 1 < n /\ (j - 1) + 1 = j
        BY <1>3, <1>4, <2>3
    <3> QED
        BY <1>5, <2>1, <3>1
  <2>4. CASE j = k
    <3>1. n \in 1..n /\ ~(n < k) /\ ~(n < n)
        BY <1>3, <1>4
    <3> QED
        BY <1>4, <1>5, <2>1, <2>4, <3>1
  <2> QED
      BY <1>4, <2>2, <2>3, <2>4
<1> QED
    BY <1>1, <1>2, <1>3, <1>7, <1>8 DEF Tables

LEMMA AddedKeeps ==
    ASSUME Tables, MaxAccounts \in Nat, NEW r \in AccountRows, r.renamed = FALSE, Web!Added(r)
    PROVE  /\ Tables' /\ Kept
           /\ (Web!Rows)' = Web!Rows \cup {Len(account) + 1}
           /\ account'[Len(account) + 1] = r /\ Len(account) + 1 \in 1..MaxAccounts
           /\ Len(account) + 1 \notin Web!Rows
<1>1. PICK n \in Nat : n = Len(account) /\ n + 1 <= MaxAccounts
    BY DEF Tables, Web!Added
<1>2. [r EXCEPT !.renamed = FALSE] = r
    BY DEF AccountRows
<1>3. account' = Append(account, r) /\ recent' = Append(recent, n + 1)
    BY <1>1, <1>2 DEF Web!Added
<1>4. /\ account' \in Seq(AccountRows) /\ Len(account') = n + 1 /\ DOMAIN account' = DOMAIN account \cup {n + 1}
      /\ account'[n + 1] = r /\ \A a \in DOMAIN account : account'[a] = account[a]
    BY <1>1, <1>3 DEF Tables
<1>5. Kept /\ (Web!Rows)' = Web!Rows \cup {n + 1} /\ n + 1 \notin Web!Rows
    BY <1>1, <1>4 DEF Kept, RowKept, Web!Rows, Tables
<1>6. recent \in Seq((Web!Rows)') /\ n + 1 \in (Web!Rows)' /\ Len(recent) = n
    BY <1>1, <1>5 DEF Tables
<1>7. recent' \in Seq((Web!Rows)') /\ Len(recent') = n + 1
    BY <1>3, <1>6
<1>8. ASSUME NEW b \in (Web!Rows)' PROVE \E i \in DOMAIN recent' : recent'[i] = b
  <2>1. CASE b = n + 1
      BY <1>3, <1>6, <2>1
  <2>2. CASE b \in Web!Rows
    <3>1. PICK i \in 1..n : recent[i] = b
        BY <1>6, <2>2 DEF Tables
    <3> QED
        BY <1>3, <1>6, <3>1
  <2> QED
      BY <1>5, <2>1, <2>2
<1> QED
    BY <1>1, <1>4, <1>5, <1>7, <1>8 DEF Tables

\* A step of one actor: nobody else's state changes, the locks that others hold
\* stay, a new account is made under its email's lock, where nobody without a
\* subject has that email.
Alone(me) ==
    /\ \A t \in Attempts \ {me} : attempt'[t] = attempt[t]
    /\ \A d \in Deliveries \ {me} : delivery'[d] = delivery[d]
    /\ \A k \in Emails : lock'[k] = lock[k] \/ lock[k] \in {None, me}
    /\ mishaps' = 0 => mishaps = 0
Welcome(me) ==
    /\ \A a, b \in (Web!Rows)' \ Web!Rows : a = b
    /\ \A a \in (Web!Rows)' \ Web!Rows :
         /\ account'[a].email \in Emails /\ lock[account'[a].email] = me
         /\ \A b \in Web!Rows : account[b].email = account'[a].email /\ ~account[b].renamed =>
              account'[a].sub # None /\ account[b].sub # None

LEMMA OthersFit ==
    ASSUME Web!SignInAssumption, SignInv, Kept, NEW me, Alone(me), Welcome(me),
           me \in Attempts => (Named(me) /\ Unclaimed(me) /\ Reasoned(me))',
           me \in Deliveries => Unknown(me)'
    PROVE  Fitting' /\ (Web!PurchaseMeetsSigner)'
<1>1. /\ Fitting /\ Web!PurchaseMeetsSigner /\ None \notin Web!Subs /\ None \notin Attempts
      /\ None \notin Deliveries
    BY DEF SignInv, Web!SignInAssumption
<1>2. ASSUME NEW t \in Attempts, t # me PROVE (Named(t) /\ Unclaimed(t) /\ Reasoned(t))'
  <2>1. attempt'[t] = attempt[t] /\ Named(t) /\ Unclaimed(t) /\ Reasoned(t)
      BY <1>1, <1>2 DEF Alone, Fitting
  <2>2. Named(t)'
      BY <1>1, <2>1 DEF Named, Kept, RowKept, Placed, Working
  <2>3. Unclaimed(t)'
    <3>1. attempt[t].at \in {"link", "insert"} =>
            attempt[t].email \in Emails /\ lock[attempt[t].email] = t /\ lock'[attempt[t].email] = t
        BY <1>1, <1>2, <2>1 DEF Named, Unclaimed, Alone, Working
    <3>2. ASSUME attempt[t].at = "insert", NEW a \in (Web!Rows)', account'[a].email = attempt[t].email
          PROVE  account'[a].renamed \/ account'[a].sub # None
      <4>1. a \in Web!Rows
          BY <1>2, <3>1, <3>2 DEF Welcome
      <4> QED
          BY <2>1, <3>2, <4>1 DEF Kept, RowKept, Unclaimed
    <3> QED
        BY <2>1, <3>1, <3>2 DEF Unclaimed
  <2>4. Reasoned(t)'
    <3>1. SUFFICES ASSUME attempt[t].at = "failed", mishaps = 0 PROVE Reasoned(t)'
        BY <2>1 DEF Alone, Reasoned
    <3>2. PICK a \in Web!Rows : \/ account[a].renamed
                                \/ (account[a].sub = attempt[t].sub /\ account[a].email # attempt[t].email)
        BY <2>1, <3>1 DEF Reasoned
    <3>3. /\ a \in (Web!Rows)'
          /\ \/ account'[a].renamed
             \/ (account'[a].sub = attempt[t].sub /\ account'[a].email # attempt[t].email)
        BY <1>1, <2>1, <3>1, <3>2 DEF Kept, RowKept, Reasoned
    <3> QED
        BY <2>1, <3>1, <3>3 DEF Reasoned
  <2> QED
      BY <2>2, <2>3, <2>4
<1>3. ASSUME NEW d \in Deliveries, d # me PROVE Unknown(d)'
  <2>1. delivery'[d] = delivery[d] /\ Unknown(d)
      BY <1>1, <1>3 DEF Alone, Fitting
  <2>2. delivery[d].at \in {"claim", "insert"} \/ (delivery[d].at = "find" /\ delivery[d].email # None)
          => delivery[d].email \in Emails /\ lock[delivery[d].email] = d /\ lock'[delivery[d].email] = d
      BY <1>1, <1>3, <2>1 DEF Unknown, Alone
  <2>3. ASSUME delivery[d].at = "insert", NEW a \in (Web!Rows)', account'[a].email = delivery[d].email
        PROVE  account'[a].renamed
    <3>1. a \in Web!Rows
        BY <1>3, <2>2, <2>3 DEF Welcome
    <3> QED
        BY <2>1, <2>3, <3>1 DEF Kept, RowKept, Unknown
  <2> QED
      BY <2>1, <2>2, <2>3 DEF Unknown
<1>4. ASSUME NEW a \in (Web!Rows)', NEW b \in (Web!Rows)', a # b, account'[a].email = account'[b].email,
             ~account'[a].renamed, ~account'[b].renamed
      PROVE  account'[a].sub # None /\ account'[b].sub # None
  <2>1. CASE a \in Web!Rows /\ b \in Web!Rows
      BY <1>1, <1>4, <2>1 DEF Kept, RowKept, Web!PurchaseMeetsSigner
  <2>2. CASE a \notin Web!Rows /\ b \in Web!Rows
      BY <1>4, <2>2 DEF Kept, RowKept, Welcome
  <2>3. CASE a \in Web!Rows /\ b \notin Web!Rows
      BY <1>4, <2>3 DEF Kept, RowKept, Welcome
  <2>4. ~(a \notin Web!Rows /\ b \notin Web!Rows)
      BY <1>4 DEF Welcome
  <2> QED
      BY <2>1, <2>2, <2>3, <2>4
<1>5. Fitting'
    BY <1>2, <1>3 DEF Fitting
<1> QED
    BY <1>4, <1>5 DEF Web!PurchaseMeetsSigner

LEMMA SameKeeps ==
    ASSUME Tables, account' = account, recent' = recent
    PROVE  Tables' /\ Kept /\ (Web!Rows)' = Web!Rows /\ \A me : Welcome(me)
    BY DEF Tables, Kept, RowKept, Web!Rows, Welcome

\* What is credited stays with its sign-in.
SealedStay ==
    \A t \in Attempts : attempt[t].at \in Sealed =>
        /\ attempt'[t].at \in Sealed /\ attempt'[t].root = attempt[t].root
        /\ attempt'[t].account = attempt[t].account

LEMMA SignStep ==
    ASSUME Web!SignInAssumption, SignInv, Tables', Actors', Kept, NEW me, Alone(me), Welcome(me),
           me \in Attempts => (Named(me) /\ Unclaimed(me) /\ Reasoned(me))',
           me \in Deliveries => Unknown(me)',
           SessionsOpened', credited' = credited, SealedStay
    PROVE  SignInv'
<1>1. Fitting' /\ (Web!PurchaseMeetsSigner)'
    BY OthersFit
<1>2. credited \subseteq Web!Roots \X Web!Rows /\ Web!Rows \subseteq (Web!Rows)'
    BY DEF SignInv, CreditsKept, Kept
<1>3. credited' \subseteq Web!Roots \X (Web!Rows)'
    BY <1>2
<1>4. ASSUME NEW p \in credited
      PROVE  \E t \in Attempts : /\ attempt'[t].root = p[1] /\ attempt'[t].account = p[2]
                           /\ attempt'[t].at \in Sealed
  <2>1. PICK t \in Attempts : attempt[t].root = p[1] /\ attempt[t].account = p[2] /\ attempt[t].at \in Sealed
      BY DEF SignInv, CreditsKept
  <2> QED
      BY <2>1 DEF SealedStay
<1>5. CreditsKept'
    BY <1>3, <1>4 DEF CreditsKept
<1> QED
    BY <1>1, <1>5 DEF SignInv

-----------------------------------------------------------------------------
\* The steps of a sign-in that leave the accounts alone.
LEMMA StartSignInv ==
    ASSUME Web!SignInAssumption, SignInv, NEW t \in Attempts, NEW h \in Handoffs \cup {None}, Web!Start(t, h)
    PROVE  SignInv'
<1>1. /\ Tables /\ Actors /\ SessionsOpened /\ None \notin Attempts /\ None \notin Deliveries
      /\ t \notin Deliveries
    BY DEF SignInv, Web!SignInAssumption
<1>2. Tables' /\ Kept /\ Welcome(t)
    BY <1>1, SameKeeps DEF Web!Start, Web!accountVars
<1>3. PICK at, r : /\ at \in {"over", "starting"} /\ r \in Web!Roots \cup {None}
                   /\ attempt' = [attempt EXCEPT ![t].at = at, ![t].root = r]
                   /\ root' \in [Web!Roots -> {"none", "intact", "quarantined"}]
  <2>1. CASE attempt' = [attempt EXCEPT ![t].at = "over"] /\ root' = root
    <3>1. attempt' = [attempt EXCEPT ![t].at = "over", ![t].root = attempt[t].root]
        BY <1>1, <2>1 DEF Actors, Signing
    <3>2. attempt[t] \in Signing /\ root' \in [Web!Roots -> {"none", "intact", "quarantined"}]
        BY <1>1, <2>1 DEF Actors
    <3>3. attempt[t].root \in Web!Roots \cup {None}
        BY <3>2 DEF Signing
    <3> QED
        BY <3>1, <3>2, <3>3
  <2>2. CASE ~(attempt' = [attempt EXCEPT ![t].at = "over"] /\ root' = root)
    <3>1. PICK v : v = Web!Visit(t, h)
        OBVIOUS
    <3>2. v \in Web!Roots
        BY <1>1, <3>1 DEF Web!Visit, Web!Roots, Actors, Jars
    <3>3. /\ root' = [root EXCEPT ![v] = IF @ = "none" THEN "intact" ELSE @]
          /\ attempt' = [attempt EXCEPT ![t].at = "starting",
                                        ![t].root = IF root[v] = "quarantined" THEN None ELSE v]
        BY <2>2, <3>1 DEF Web!Start, Web!Ensured, Web!Goto
    <3> QED
        BY <1>1, <3>2, <3>3 DEF Actors
  <2> QED
      BY <2>1, <2>2
<1>4. attempt[t].at = "idle" /\ UNCHANGED <<lock, delivery, jar, session, logout, credited, mishaps>>
    BY DEF Web!Start, Web!accountVars
<1>5. /\ attempt' \in [Attempts -> Signing] /\ attempt'[t].at = at
      /\ \A u \in Attempts \ {t} : attempt'[u] = attempt[u]
  <2>1. PICK q : q = [attempt[t] EXCEPT !.at = at, !.root = r]
      OBVIOUS
  <2>4. at \in Web!AttemptStages /\ attempt[t] \in Signing
      BY <1>1, <1>3 DEF Actors, Web!AttemptStages
  <2>2. q \in Signing /\ q.at = at
      BY <1>3, <2>1, <2>4 DEF Signing
  <2>3. attempt' = [attempt EXCEPT ![t] = q]
      BY <1>1, <1>3, <2>1 DEF Actors, Signing
  <2> QED
      BY <1>1, <2>2, <2>3 DEF Actors
<1>6. Actors'
    BY <1>1, <1>3, <1>4, <1>5 DEF Actors
<1>7. Alone(t) /\ SealedStay
    BY <1>4, <1>5 DEF Alone, SealedStay, Sealed
<1>8. (Named(t) /\ Unclaimed(t) /\ Reasoned(t))'
    BY <1>3, <1>5 DEF Named, Unclaimed, Reasoned, Working, Placed
<1>9. SessionsOpened'
    BY <1>1, <1>3, <1>4, <1>5 DEF SessionsOpened
<1> QED
    BY <1>1, <1>2, <1>4, <1>6, <1>7, <1>8, <1>9, SignStep

LEMMA GotoIs ==
    ASSUME Actors, NEW t \in Attempts, NEW at \in Web!AttemptStages, Web!Goto(t, at)
    PROVE  /\ attempt' \in [Attempts -> Signing] /\ attempt'[t].at = at
           /\ attempt'[t].root = attempt[t].root /\ attempt'[t].sub = attempt[t].sub
           /\ attempt'[t].email = attempt[t].email /\ attempt'[t].account = attempt[t].account
           /\ \A u \in Attempts \ {t} : attempt'[u] = attempt[u]
<1>1. PICK q : q = [attempt[t] EXCEPT !.at = at]
    OBVIOUS
<1>2. attempt[t] \in Signing
    BY DEF Actors
<1>3. /\ q \in Signing /\ q.at = at /\ q.root = attempt[t].root /\ q.sub = attempt[t].sub
      /\ q.email = attempt[t].email /\ q.account = attempt[t].account
    BY <1>1, <1>2 DEF Signing
<1>4. attempt' = [attempt EXCEPT ![t] = q]
    BY <1>1 DEF Web!Goto, Actors
<1> QED
    BY <1>3, <1>4 DEF Actors

\* A step that only moves a sign-in on.
LEMMA GotoStep ==
    ASSUME Web!SignInAssumption, SignInv, NEW t \in Attempts, NEW at \in Web!AttemptStages, Web!Goto(t, at),
           UNCHANGED <<account, recent, delivery, root, credited>>,
           lock' \in [Emails \cup Customers -> Holders],
           \A k \in Emails : lock'[k] = lock[k] \/ lock[k] \in {None, t},
           jar' \in Jars,
           session' \in [Attempts -> {"none", "live", "revoked", "expired"}], logout' = logout,
           mishaps' \in 0..MaxMishaps, mishaps' = 0 => mishaps = 0, SessionsOpened',
           at \in Working => attempt[t].at \in Working, at \in Placed => attempt[t].at \in Placed,
           at \in {"link", "insert"} => lock'[attempt[t].email] = t,
           at = "insert" => \A a \in Web!Rows : account[a].email = attempt[t].email =>
                                account[a].renamed \/ account[a].sub # None,
           at = "failed" /\ mishaps' = 0 => Reasoned(t)',
           attempt[t].at \in Sealed => at \in Sealed
    PROVE  SignInv'
<1>1. /\ Tables /\ Actors /\ None \notin Attempts /\ None \notin Deliveries /\ t \notin Deliveries
      /\ Named(t) /\ MaxMishaps \in Nat
    BY DEF SignInv, Fitting, Web!SignInAssumption
<1>2. Tables' /\ Kept /\ Welcome(t) /\ (Web!Rows)' = Web!Rows
    BY <1>1, SameKeeps
<1>3. /\ attempt' \in [Attempts -> Signing] /\ attempt'[t].at = at
      /\ attempt'[t].root = attempt[t].root /\ attempt'[t].sub = attempt[t].sub
      /\ attempt'[t].email = attempt[t].email /\ attempt'[t].account = attempt[t].account
      /\ \A u \in Attempts \ {t} : attempt'[u] = attempt[u]
    BY <1>1, GotoIs
<1>4. Actors'
    BY <1>1, <1>3 DEF Actors
<1>5. Alone(t) /\ SealedStay
    BY <1>3 DEF Alone, SealedStay
<1>6. Named(t)'
    BY <1>1, <1>2, <1>3 DEF Named
<1>7. Unclaimed(t)'
    BY <1>2, <1>3 DEF Unclaimed
<1>8. Reasoned(t)'
    BY <1>3 DEF Reasoned
<1> QED
    BY <1>1, <1>2, <1>4, <1>5, <1>6, <1>7, <1>8, SignStep

LEMMA StartAnsweredInv ==
    ASSUME Web!SignInAssumption, SignInv, NEW t \in Attempts, Web!StartAnswered(t) PROVE SignInv'
<1>1. Actors /\ SessionsOpened /\ attempt[t].at = "starting" /\ Web!Goto(t, "google")
    BY DEF SignInv, Web!StartAnswered
<1>2. UNCHANGED <<account, recent, lock, delivery, session, logout, root, credited, mishaps>>
    BY DEF Web!StartAnswered, Web!accountVars
<1>3. /\ jar' \in Jars
      /\ jar'.session = jar.session
    BY <1>1 DEF Web!StartAnswered, Actors, Jars, Signing
<1>4. /\ attempt'[t].at = "google" /\ \A u \in Attempts \ {t} : attempt'[u] = attempt[u]
    BY <1>1, GotoIs DEF Web!AttemptStages
<1>5. SessionsOpened'
    BY <1>1, <1>2, <1>3, <1>4 DEF SessionsOpened
<1> QED
    BY <1>1, <1>2, <1>3, <1>5, GotoStep DEF Actors, Web!AttemptStages, Working, Placed, Sealed

LEMMA CallbackInv ==
    ASSUME Web!SignInAssumption, SignInv, NEW t \in Attempts, Web!Callback(t) PROVE SignInv'
<1>1. Actors /\ SessionsOpened /\ attempt[t].at = "google"
    BY DEF SignInv, Web!Callback
<1>2. UNCHANGED <<account, recent, lock, delivery, session, logout, root, credited, mishaps>>
    BY DEF Web!Callback, Web!accountVars
<1>3. /\ jar' \in Jars
      /\ jar'.session = jar.session
    BY <1>1 DEF Web!Callback, Actors, Jars
<1>4. PICK at : at \in {"exchange", "refused"} /\ Web!Goto(t, at)
    BY DEF Web!Callback
<1>5. /\ attempt'[t].at = at /\ \A u \in Attempts \ {t} : attempt'[u] = attempt[u]
    BY <1>1, <1>4, GotoIs DEF Web!AttemptStages
<1>6. SessionsOpened'
    BY <1>1, <1>2, <1>3, <1>4, <1>5 DEF SessionsOpened
<1> QED
    BY <1>1, <1>2, <1>3, <1>4, <1>6, GotoStep DEF Actors, Web!AttemptStages, Working, Placed, Sealed

LEMMA LockEmailInv ==
    ASSUME Web!SignInAssumption, SignInv, NEW t \in Attempts, Web!LockEmail(t) PROVE SignInv'
<1>1. /\ Actors /\ SessionsOpened /\ attempt[t].at = "lock" /\ Web!Goto(t, "link")
      /\ attempt[t].email \in Emails /\ lock[attempt[t].email] = None
      /\ lock' = [lock EXCEPT ![attempt[t].email] = t]
    BY DEF SignInv, Fitting, Named, Working, Web!LockEmail, Web!Free, Web!Taken
<1>2. UNCHANGED <<account, recent, delivery, jar, session, logout, root, credited, mishaps>>
    BY DEF Web!LockEmail, Web!browserVars
<1>3. /\ lock' \in [Emails \cup Customers -> Holders] /\ lock'[attempt[t].email] = t
      /\ \A k \in Emails : lock'[k] = lock[k] \/ lock[k] \in {None, t}
    BY <1>1 DEF Actors, Holders
<1>4. /\ attempt'[t].at = "link" /\ \A u \in Attempts \ {t} : attempt'[u] = attempt[u]
    BY <1>1, GotoIs DEF Web!AttemptStages
<1>5. SessionsOpened'
    BY <1>1, <1>2, <1>4 DEF SessionsOpened
<1> QED
    BY <1>1, <1>2, <1>3, <1>5, GotoStep DEF Actors, Web!AttemptStages, Working, Placed, Sealed

LEMMA ReleasedIs ==
    ASSUME Actors, NEW me, Web!Released(me)
    PROVE  /\ lock' \in [Emails \cup Customers -> Holders]
           /\ \A k \in Emails : lock'[k] = lock[k] \/ lock[k] \in {None, me}
    BY DEF Actors, Holders, Web!Released

LEMMA OpenInv ==
    ASSUME Web!SignInAssumption, SignInv, NEW t \in Attempts, Web!Open(t) PROVE SignInv'
<1>1. Actors /\ SessionsOpened /\ attempt[t].at = "open" /\ Web!Goto(t, "answer")
    BY DEF SignInv, Web!Open
<1>2. UNCHANGED <<account, recent, lock, delivery, jar, logout, root, credited, mishaps>>
    BY DEF Web!Open, Web!accountVars
<1>3. /\ session' \in [Attempts -> {"none", "live", "revoked", "expired"}] /\ session'[t] = "live"
      /\ \A u \in Attempts \ {t} : session'[u] = session[u]
    BY <1>1 DEF Web!Open, Actors
<1>4. /\ attempt'[t].at = "answer" /\ \A u \in Attempts \ {t} : attempt'[u] = attempt[u]
    BY <1>1, GotoIs DEF Web!AttemptStages
<1>5. logout.token \in Attempts \cup {None} /\ jar.session \in Attempts \cup {None}
    BY <1>1 DEF Actors, Jars
<1>6. SessionsOpened'
    BY <1>1, <1>2, <1>3, <1>4, <1>5 DEF SessionsOpened
<1> QED
    BY <1>1, <1>2, <1>3, <1>6, GotoStep DEF Actors, Web!AttemptStages, Working, Placed, Sealed

LEMMA AnsweredInv ==
    ASSUME Web!SignInAssumption, SignInv, NEW t \in Attempts, Web!Answer(t) PROVE SignInv'
<1>1. Actors /\ SessionsOpened
    BY DEF SignInv
<1>2. UNCHANGED <<account, recent, lock, delivery, session, logout, root, credited, mishaps>>
    BY DEF Web!Answer, Web!accountVars
<1>3. PICK at : /\ Web!Goto(t, at)
                /\ \/ attempt[t].at = "answer" /\ at = "signed" /\ jar'.session = t
                   \/ attempt[t].at = "failed" /\ at = "over" /\ jar'.session = jar.session
                /\ jar' \in Jars
  <2>1. CASE attempt[t].at = "answer"
      BY <1>1, <2>1 DEF Web!Answer, Actors, Jars, Signing
  <2>2. CASE attempt[t].at = "failed"
      BY <1>1, <2>2 DEF Web!Answer, Actors, Jars
  <2> QED
      BY <2>1, <2>2 DEF Web!Answer
<1>4. /\ attempt'[t].at = at /\ \A u \in Attempts \ {t} : attempt'[u] = attempt[u]
    BY <1>1, <1>3, GotoIs DEF Web!AttemptStages
<1>5. SessionsOpened'
    BY <1>1, <1>2, <1>3, <1>4 DEF SessionsOpened
<1>6. /\ lock \in [Emails \cup Customers -> Holders] /\ mishaps \in 0..MaxMishaps
      /\ session \in [Attempts -> {"none", "live", "revoked", "expired"}]
    BY <1>1 DEF Actors
<1>7. CASE attempt[t].at = "answer" /\ at = "signed"
    BY <1>1, <1>2, <1>3, <1>5, <1>6, <1>7, GotoStep DEF Web!AttemptStages, Working, Placed, Sealed
<1>8. CASE attempt[t].at = "failed" /\ at = "over"
    BY <1>1, <1>2, <1>3, <1>5, <1>6, <1>8, GotoStep DEF Web!AttemptStages, Working, Placed, Sealed
<1> QED
    BY <1>3, <1>7, <1>8

LEMMA FailInv ==
    ASSUME Web!SignInAssumption, SignInv, NEW t \in Attempts, Web!Fail(t) PROVE SignInv'
<1>1. /\ Actors /\ SessionsOpened /\ attempt[t].at \in {"exchange", "lock", "link", "insert", "open"}
      /\ Web!Goto(t, "failed") /\ Web!Released(t)
    BY DEF SignInv, Web!Fail
<1>2. UNCHANGED <<account, recent, delivery, jar, session, logout, root, credited>>
    BY DEF Web!Fail, Web!browserVars
<1>3. mishaps' \in 0..MaxMishaps /\ mishaps' # 0
    BY <1>1 DEF Web!Fail, Web!Mishap, Actors, Web!SignInAssumption
<1>4. /\ attempt'[t].at = "failed" /\ \A u \in Attempts \ {t} : attempt'[u] = attempt[u]
    BY <1>1, GotoIs DEF Web!AttemptStages
<1>5. SessionsOpened'
    BY <1>1, <1>2, <1>4 DEF SessionsOpened
<1>6. /\ lock' \in [Emails \cup Customers -> Holders]
      /\ \A k \in Emails : lock'[k] = lock[k] \/ lock[k] \in {None, t}
    BY <1>1, ReleasedIs
<1> QED
    BY <1>1, <1>2, <1>3, <1>5, <1>6, GotoStep DEF Actors, Web!AttemptStages, Working, Placed, Sealed

LEMMA ExchangeInv ==
    ASSUME Web!SignInAssumption, SignInv, NEW t \in Attempts, NEW i \in Identities, Web!Exchange(t, i)
    PROVE  SignInv'
<1>1. /\ Tables /\ Actors /\ SessionsOpened /\ attempt[t].at = "exchange"
      /\ i[1] \in Web!Subs /\ i[2] \in Emails /\ t \notin Deliveries
    BY DEF SignInv, Web!Exchange, Web!SignInAssumption, Web!Subs
<1>2. Tables' /\ Kept /\ Welcome(t)
    BY <1>1, SameKeeps DEF Web!Exchange, Web!accountVars
<1>3. UNCHANGED <<lock, delivery, jar, session, logout, root, credited, mishaps>>
    BY DEF Web!Exchange, Web!accountVars, Web!browserVars
<1>4. PICK q : q = [attempt[t] EXCEPT !.at = "lock", !.sub = i[1], !.email = i[2]]
    OBVIOUS
<1>5. attempt[t] \in Signing /\ "lock" \in Web!AttemptStages
    BY <1>1 DEF Actors, Web!AttemptStages
<1>6. q \in Signing /\ q.at = "lock" /\ q.sub = i[1] /\ q.email = i[2]
    BY <1>1, <1>4, <1>5 DEF Signing
<1>7. attempt' = [attempt EXCEPT ![t] = q]
    BY <1>1, <1>4, <1>5 DEF Web!Exchange, Actors
<1>8. /\ attempt' \in [Attempts -> Signing] /\ attempt'[t] = q
      /\ \A u \in Attempts \ {t} : attempt'[u] = attempt[u]
    BY <1>1, <1>6, <1>7 DEF Actors
<1>9. Actors'
    BY <1>1, <1>3, <1>8 DEF Actors
<1>10. Alone(t) /\ SealedStay
    BY <1>1, <1>3, <1>8 DEF Alone, SealedStay, Sealed
<1>11. (Named(t) /\ Unclaimed(t) /\ Reasoned(t))'
    BY <1>1, <1>6, <1>8 DEF Named, Unclaimed, Reasoned, Placed
<1>12. SessionsOpened'
    BY <1>1, <1>3, <1>6, <1>8 DEF SessionsOpened
<1> QED
    BY <1>1, <1>2, <1>3, <1>9, <1>10, <1>11, <1>12, SignStep

\* The acquisition of the sign-in's own start is credited with its account.
LEMMA CreditInv ==
    ASSUME Web!SignInAssumption, SignInv, NEW t \in Attempts, Web!Credit(t) PROVE SignInv'
<1>1. /\ Tables /\ Actors /\ SessionsOpened /\ CreditsKept /\ attempt[t].at = "credit" /\ Named(t)
      /\ t \notin Deliveries
    BY DEF SignInv, Fitting, Web!Credit, Web!SignInAssumption
<1>2. Tables' /\ Kept /\ Welcome(t) /\ (Web!Rows)' = Web!Rows
    BY <1>1, SameKeeps DEF Web!Credit, Web!accountVars
<1>3. UNCHANGED <<lock, delivery, jar, session, logout, root, mishaps>>
    BY DEF Web!Credit, Web!accountVars
<1>4. PICK r, ok, q : /\ r = attempt[t].root /\ ok = (r # None /\ root[r] = "intact")
                      /\ q = [attempt[t] EXCEPT !.at = "open", !.root = IF ok THEN @ ELSE None]
    OBVIOUS
<1>5. attempt[t] \in Signing /\ "open" \in Web!AttemptStages
    BY <1>1 DEF Actors, Web!AttemptStages
<1>6. /\ q \in Signing /\ q.at = "open" /\ q.sub = attempt[t].sub /\ q.email = attempt[t].email
      /\ q.account = attempt[t].account /\ (ok => q.root = r)
    BY <1>4, <1>5 DEF Signing
<1>7. attempt' = [attempt EXCEPT ![t] = q]
    BY <1>1, <1>4, <1>5 DEF Web!Credit, Web!Credited, Actors
<1>8. /\ attempt' \in [Attempts -> Signing] /\ attempt'[t] = q
      /\ \A u \in Attempts \ {t} : attempt'[u] = attempt[u]
    BY <1>1, <1>6, <1>7 DEF Actors
<1>9. Actors'
    BY <1>1, <1>3, <1>8 DEF Actors
<1>10. Alone(t)
    BY <1>3, <1>8 DEF Alone
<1>11. Named(t)'
    BY <1>1, <1>2, <1>6, <1>8 DEF Named, Placed, Working, Web!Credit, Web!accountVars
<1>12. (Unclaimed(t) /\ Reasoned(t))'
    BY <1>6, <1>8 DEF Unclaimed, Reasoned
<1>13. SessionsOpened'
    BY <1>1, <1>3, <1>6, <1>8 DEF SessionsOpened
<1>14. Fitting' /\ (Web!PurchaseMeetsSigner)'
    BY <1>1, <1>2, <1>10, <1>11, <1>12, OthersFit
<1>15. ok => r \in Web!Roots /\ attempt[t].account \in Web!Rows
    BY <1>1, <1>4, <1>5 DEF Signing, Named, Placed
<1>16. credited' = IF ok THEN credited \cup {<<r, attempt[t].account>>} ELSE credited
    BY <1>4 DEF Web!Credit, Web!Credited
<1>17. credited' \subseteq Web!Roots \X (Web!Rows)'
    BY <1>1, <1>2, <1>15, <1>16 DEF CreditsKept
<1>18. ASSUME NEW p \in credited'
       PROVE  \E u \in Attempts : /\ attempt'[u].root = p[1] /\ attempt'[u].account = p[2]
                            /\ attempt'[u].at \in Sealed
  <2>1. CASE p \in credited
    <3>1. PICK u \in Attempts : attempt[u].root = p[1] /\ attempt[u].account = p[2] /\ attempt[u].at \in Sealed
        BY <1>1, <2>1 DEF CreditsKept
    <3>2. u # t
        BY <1>1, <3>1 DEF Sealed
    <3> QED
        BY <1>8, <3>1, <3>2
  <2>2. CASE ok /\ p = <<r, attempt[t].account>>
    <3>1. p[1] = r /\ p[2] = attempt[t].account
        BY <2>2
    <3>2. attempt'[t].root = p[1] /\ attempt'[t].account = p[2] /\ attempt'[t].at \in Sealed
        BY <1>6, <1>8, <2>2, <3>1 DEF Sealed
    <3> QED
        BY <3>2
  <2> QED
      BY <1>16, <2>1, <2>2
<1>19. CreditsKept'
    BY <1>17, <1>18 DEF CreditsKept
<1> QED
    BY <1>2, <1>9, <1>13, <1>14, <1>19 DEF SignInv

-----------------------------------------------------------------------------
(* The writes to the accounts. *)

\* The commit of a sign-in: its account has the subject, and the lock is free.
LEMMA CommitStep ==
    ASSUME Web!SignInAssumption, SignInv, NEW t \in Attempts, attempt[t].at \in {"link", "insert"},
           NEW a \in (Web!Rows)', account'[a].sub = attempt[t].sub, Web!Committed(t, a),
           Tables', Kept, Welcome(t), UNCHANGED <<delivery, jar, session, logout, root, credited, mishaps>>
    PROVE  SignInv'
<1>1. Tables /\ Actors /\ SessionsOpened /\ Named(t) /\ t \notin Deliveries
    BY DEF SignInv, Fitting, Web!SignInAssumption
<1>2. a \in 0..MaxAccounts
    BY DEF Tables, Web!Rows, Web!SignInAssumption
<1>3. PICK q : q = [attempt[t] EXCEPT !.at = "credit", !.account = a]
    OBVIOUS
<1>4. attempt[t] \in Signing /\ "credit" \in Web!AttemptStages
    BY <1>1 DEF Actors, Web!AttemptStages
<1>5. /\ q \in Signing /\ q.at = "credit" /\ q.account = a /\ q.sub = attempt[t].sub
      /\ q.email = attempt[t].email
    BY <1>2, <1>3, <1>4 DEF Signing
<1>6. attempt' = [attempt EXCEPT ![t] = q]
    BY <1>1, <1>3, <1>4 DEF Web!Committed, Actors
<1>7. /\ attempt' \in [Attempts -> Signing] /\ attempt'[t] = q
      /\ \A u \in Attempts \ {t} : attempt'[u] = attempt[u]
    BY <1>1, <1>5, <1>6 DEF Actors
<1>8. /\ lock' \in [Emails \cup Customers -> Holders]
      /\ \A k \in Emails : lock'[k] = lock[k] \/ lock[k] \in {None, t}
    BY <1>1, ReleasedIs DEF Web!Committed
<1>9. Actors'
    BY <1>1, <1>7, <1>8 DEF Actors
<1>10. Alone(t) /\ SealedStay
    BY <1>7, <1>8 DEF Alone, SealedStay, Sealed
<1>11. (Named(t) /\ Unclaimed(t) /\ Reasoned(t))'
    BY <1>1, <1>5, <1>7 DEF Named, Unclaimed, Reasoned, Working
<1>12. SessionsOpened'
    BY <1>1, <1>5, <1>7 DEF SessionsOpened
<1> QED
    BY <1>1, <1>9, <1>10, <1>11, <1>12, SignStep

\* A sign-in fails on another account of its subject: one of the email, where
\* only a renamed one may be besides one that nobody signed in to.
LEMMA LinkInv ==
    ASSUME Web!SignInAssumption, SignInv, NEW t \in Attempts, Web!Link(t) PROVE SignInv'
<1> DEFINE claimed == Web!Linkable(attempt[t].email)
           n == Web!Newest(claimed)
<1>1. /\ Tables /\ Actors /\ SessionsOpened /\ Web!PurchaseMeetsSigner /\ attempt[t].at = "link"
      /\ attempt[t].sub \in Web!Subs /\ attempt[t].email \in Emails /\ lock[attempt[t].email] = t
      /\ None \notin Web!Subs
    BY DEF SignInv, Fitting, Named, Unclaimed, Working, Web!Link, Web!SignInAssumption
<1>2. UNCHANGED <<delivery, jar, session, logout, root, credited, mishaps>>
    BY DEF Web!Link, Web!browserVars
<1>3. /\ lock \in [Emails \cup Customers -> Holders] /\ mishaps \in 0..MaxMishaps
      /\ session \in [Attempts -> {"none", "live", "revoked", "expired"}]
      /\ jar \in Jars
    BY <1>1 DEF Actors
<1>4. \A a \in claimed : a \in Web!Rows /\ account[a].email = attempt[t].email /\ account[a].sub = None
    BY DEF Web!Linkable
<1>5. claimed # {} => n \in claimed
    BY <1>1, <1>4, NewestIs
<1>6. ASSUME NEW at \in {"insert", "failed"}, Web!Goto(t, at) PROVE SessionsOpened'
  <2>1. /\ attempt'[t].at = at /\ \A u \in Attempts \ {t} : attempt'[u] = attempt[u]
      BY <1>1, <1>6, GotoIs DEF Web!AttemptStages
  <2> QED
      BY <1>1, <1>2, <2>1 DEF SessionsOpened
<1>7. CASE claimed = {}
  <2>1. Web!Goto(t, "insert") /\ UNCHANGED <<account, recent, lock>>
      BY <1>7 DEF Web!Link, Web!accountVars
  <2>2. \A a \in Web!Rows : account[a].email = attempt[t].email => account[a].renamed \/ account[a].sub # None
      BY <1>7 DEF Web!Linkable
  <2> QED
      BY <1>1, <1>2, <1>3, <1>6, <2>1, <2>2, GotoStep DEF Web!AttemptStages, Working, Placed, Sealed
<1>8. CASE claimed # {} /\ Web!Owning(attempt[t].sub) \ {n} # {}
  <2>1. Web!Goto(t, "failed") /\ Web!Released(t) /\ UNCHANGED <<account, recent>>
      BY <1>8 DEF Web!Link
  <2>2. PICK a : a \in Web!Rows /\ account[a].sub = attempt[t].sub /\ a # n
      BY <1>8 DEF Web!Owning
  <2>3. \/ account[a].sub = attempt[t].sub /\ account[a].email # attempt[t].email
        \/ account[a].renamed \/ account[n].renamed
      BY <1>1, <1>4, <1>5, <1>8, <2>2 DEF Web!PurchaseMeetsSigner
  <2>4. attempt'[t].sub = attempt[t].sub /\ attempt'[t].email = attempt[t].email
      BY <1>1, <2>1, GotoIs DEF Web!AttemptStages
  <2>5. (Web!Rows)' = Web!Rows /\ n \in Web!Rows
      BY <1>4, <1>5, <1>8, <2>1 DEF Web!Rows
  <2>6. Reasoned(t)'
    <3>1. \E b \in (Web!Rows)' : \/ account'[b].renamed
                                 \/ (account'[b].sub = attempt'[t].sub /\ account'[b].email # attempt'[t].email)
        BY <2>1, <2>2, <2>3, <2>4, <2>5
    <3> QED
        BY <1>1, <2>4, <3>1 DEF Reasoned
  <2>7. /\ lock' \in [Emails \cup Customers -> Holders]
        /\ \A k \in Emails : lock'[k] = lock[k] \/ lock[k] \in {None, t}
      BY <1>1, <2>1, ReleasedIs
  <2> QED
      BY <1>1, <1>2, <1>3, <1>6, <2>1, <2>6, <2>7, GotoStep DEF Web!AttemptStages, Working, Placed, Sealed
<1>9. CASE claimed # {} /\ Web!Owning(attempt[t].sub) \ {n} = {}
  <2>1. PICK r : r = [account[n] EXCEPT !.sub = attempt[t].sub]
      OBVIOUS
  <2>2. Web!Update(n, r) /\ Web!Committed(t, n)
      BY <1>9, <2>1 DEF Web!Link
  <2>3. n \in Web!Rows /\ account[n] \in AccountRows /\ account[n].sub = None
      BY <1>1, <1>4, <1>5, <1>9 DEF Tables, Web!Rows
  <2>4. r \in AccountRows /\ RowKept(account[n], r) /\ r.sub = attempt[t].sub
      BY <1>1, <2>1, <2>3 DEF AccountRows, RowKept
  <2>5. Tables' /\ Kept /\ (Web!Rows)' = Web!Rows /\ account'[n] = r
      BY <1>1, <2>2, <2>3, <2>4, UpdateKeeps
  <2>6. Welcome(t)
      BY <2>5 DEF Welcome
  <2> QED
      BY <1>1, <1>2, <2>2, <2>3, <2>4, <2>5, <2>6, CommitStep
<1> QED
    BY <1>7, <1>8, <1>9

\* The insert makes a second account of an email only beside renamed ones or
\* ones with a subject; the update renames the account of the subject.
LEMMA InsertInv ==
    ASSUME Web!SignInAssumption, SignInv, NEW t \in Attempts, Web!Insert(t) PROVE SignInv'
<1>1. /\ Tables /\ Actors /\ Unclaimed(t) /\ attempt[t].at = "insert"
      /\ attempt[t].sub \in Web!Subs /\ attempt[t].email \in Emails /\ lock[attempt[t].email] = t
      /\ None \notin Web!Subs /\ MaxAccounts \in Nat
    BY DEF SignInv, Fitting, Named, Unclaimed, Working, Web!Insert, Web!SignInAssumption
<1>2. UNCHANGED <<delivery, jar, session, logout, root, credited, mishaps>>
    BY DEF Web!Insert, Web!browserVars
<1>3. CASE \E a \in Web!Owning(attempt[t].sub) :
             Web!Update(a, Web!Renamed(a, attempt[t].email)) /\ Web!Committed(t, a)
  <2>1. PICK a \in Web!Owning(attempt[t].sub) :
             Web!Update(a, Web!Renamed(a, attempt[t].email)) /\ Web!Committed(t, a)
      BY <1>3
  <2>2. PICK r : r = Web!Renamed(a, attempt[t].email)
      OBVIOUS
  <2>3. a \in Web!Rows /\ account[a] \in AccountRows /\ account[a].sub = attempt[t].sub
      BY <1>1 DEF Web!Owning, Tables, Web!Rows
  <2>4. r \in AccountRows /\ RowKept(account[a], r) /\ r.sub = attempt[t].sub
      BY <1>1, <2>2, <2>3 DEF AccountRows, RowKept, Web!Renamed
  <2>5. Tables' /\ Kept /\ (Web!Rows)' = Web!Rows /\ account'[a] = r
      BY <1>1, <2>1, <2>2, <2>3, <2>4, UpdateKeeps
  <2>6. Welcome(t)
      BY <2>5 DEF Welcome
  <2> QED
      BY <1>1, <1>2, <2>1, <2>3, <2>4, <2>5, <2>6, CommitStep
<1>4. CASE /\ Web!Added([sub |-> attempt[t].sub, email |-> attempt[t].email,
                         customer |-> None, renamed |-> FALSE])
           /\ Web!Committed(t, Len(account) + 1)
  <2>1. PICK r : r = [sub |-> attempt[t].sub, email |-> attempt[t].email, customer |-> None, renamed |-> FALSE]
      OBVIOUS
  <2>2. r \in AccountRows /\ r.renamed = FALSE /\ r.sub = attempt[t].sub /\ r.email = attempt[t].email
      BY <1>1, <2>1 DEF AccountRows
  <2>3. PICK n : n = Len(account) + 1
      OBVIOUS
  <2>4. /\ Tables' /\ Kept /\ (Web!Rows)' = Web!Rows \cup {n} /\ account'[n] = r /\ n \notin Web!Rows
      BY <1>1, <1>4, <2>1, <2>2, <2>3, AddedKeeps
  <2>5. \A b \in Web!Rows : account[b].email = attempt[t].email /\ ~account[b].renamed => account[b].sub # None
      BY <1>1 DEF Unclaimed
  <2>6. Welcome(t)
      BY <1>1, <2>2, <2>4, <2>5 DEF Welcome
  <2> QED
      BY <1>1, <1>2, <1>4, <2>2, <2>3, <2>4, <2>6, CommitStep
<1> QED
    BY <1>3, <1>4 DEF Web!Insert

-----------------------------------------------------------------------------
(* The deliveries of a customer. *)

LEMMA GotoDIs ==
    ASSUME Actors, NEW d \in Deliveries, NEW at \in Web!DeliveryStages, Web!GotoD(d, at)
    PROVE  /\ delivery' \in [Deliveries -> Delivering] /\ delivery'[d].at = at
           /\ delivery'[d].customer = delivery[d].customer /\ delivery'[d].email = delivery[d].email
           /\ \A e \in Deliveries \ {d} : delivery'[e] = delivery[e]
<1>1. PICK q : q = [delivery[d] EXCEPT !.at = at]
    OBVIOUS
<1>2. delivery[d] \in Delivering
    BY DEF Actors
<1>3. q \in Delivering /\ q.at = at /\ q.customer = delivery[d].customer /\ q.email = delivery[d].email
    BY <1>1, <1>2 DEF Delivering
<1>4. delivery' = [delivery EXCEPT ![d] = q]
    BY <1>1 DEF Web!GotoD, Actors
<1> QED
    BY <1>3, <1>4 DEF Actors

\* A step of one delivery.
LEMMA DeliveryStep ==
    ASSUME Web!SignInAssumption, SignInv, NEW d \in Deliveries, delivery' \in [Deliveries -> Delivering],
           \A e \in Deliveries \ {d} : delivery'[e] = delivery[e],
           UNCHANGED <<attempt, jar, session, logout, root, credited, mishaps>>,
           lock' \in [Emails \cup Customers -> Holders],
           \A k \in Emails : lock'[k] = lock[k] \/ lock[k] \in {None, d},
           Tables', Kept, Welcome(d), Unknown(d)'
    PROVE  SignInv'
<1>1. Actors /\ SessionsOpened /\ d \notin Attempts
    BY DEF SignInv, Web!SignInAssumption
<1>2. Actors'
    BY <1>1 DEF Actors
<1>3. Alone(d) /\ SealedStay
    BY DEF Alone, SealedStay
<1>4. SessionsOpened'
    BY <1>1 DEF SessionsOpened
<1> QED
    BY <1>1, <1>2, <1>3, <1>4, SignStep

LEMMA DeliverInv ==
    ASSUME Web!SignInAssumption, SignInv, NEW d \in Deliveries, NEW c \in Customers,
           NEW e \in Emails \cup {None},
           Web!Deliver(d, c, e)
    PROVE  SignInv'
<1>1. Tables /\ Actors
    BY DEF SignInv
<1>2. UNCHANGED <<account, recent, lock, attempt, jar, session, logout, root, credited, mishaps>>
    BY DEF Web!Deliver, Web!accountVars, Web!browserVars
<1>3. PICK q : q = [at |-> "customer", customer |-> c, email |-> e]
    OBVIOUS
<1>4. q \in Delivering /\ q.at = "customer"
    BY <1>3 DEF Delivering, Web!DeliveryStages
<1>5. delivery' = [delivery EXCEPT ![d] = q]
    BY <1>3 DEF Web!Deliver
<1>6. /\ delivery' \in [Deliveries -> Delivering] /\ delivery'[d] = q
      /\ \A f \in Deliveries \ {d} : delivery'[f] = delivery[f]
    BY <1>1, <1>4, <1>5 DEF Actors
<1>7. Unknown(d)'
    BY <1>4, <1>6 DEF Unknown
<1>8. Tables' /\ Kept /\ Welcome(d) /\ lock \in [Emails \cup Customers -> Holders]
    BY <1>1, <1>2, SameKeeps DEF Actors
<1> QED
    BY <1>2, <1>6, <1>7, <1>8, DeliveryStep

LEMMA LockCustomerInv ==
    ASSUME Web!SignInAssumption, SignInv, NEW d \in Deliveries, Web!LockCustomer(d) PROVE SignInv'
<1>1. Tables /\ Actors /\ lock[delivery[d].customer] = None /\ lock' = [lock EXCEPT ![delivery[d].customer] = d]
    BY DEF SignInv, Web!LockCustomer, Web!Free, Web!Taken
<1>2. UNCHANGED <<account, recent, attempt, jar, session, logout, root, credited, mishaps>>
    BY DEF Web!LockCustomer, Web!browserVars
<1>3. PICK at : at \in {"find", "email"} /\ Web!GotoD(d, at) /\ (at = "find" => delivery[d].email = None)
    BY DEF Web!LockCustomer
<1>4. /\ delivery' \in [Deliveries -> Delivering] /\ delivery'[d].at = at
      /\ delivery'[d].email = delivery[d].email
      /\ \A f \in Deliveries \ {d} : delivery'[f] = delivery[f]
    BY <1>1, <1>3, GotoDIs DEF Web!DeliveryStages
<1>5. Unknown(d)'
    BY <1>3, <1>4 DEF Unknown
<1>6. Tables' /\ Kept /\ Welcome(d)
    BY <1>1, <1>2, SameKeeps
<1>7. /\ lock' \in [Emails \cup Customers -> Holders]
      /\ \A k \in Emails : lock'[k] = lock[k] \/ lock[k] \in {None, d}
    BY <1>1 DEF Actors, Holders
<1> QED
    BY <1>2, <1>4, <1>5, <1>6, <1>7, DeliveryStep

LEMMA LockAccountInv ==
    ASSUME Web!SignInAssumption, SignInv, NEW d \in Deliveries, Web!LockAccount(d) PROVE SignInv'
<1>1. /\ Tables /\ Actors /\ lock[delivery[d].email] = None /\ lock' = [lock EXCEPT ![delivery[d].email] = d]
      /\ Web!GotoD(d, "find") /\ delivery[d] \in Delivering
    BY DEF SignInv, Actors, Web!LockAccount, Web!Free, Web!Taken
<1>2. UNCHANGED <<account, recent, attempt, jar, session, logout, root, credited, mishaps>>
    BY DEF Web!LockAccount, Web!browserVars
<1>3. /\ delivery' \in [Deliveries -> Delivering] /\ delivery'[d].at = "find"
      /\ delivery'[d].email = delivery[d].email
      /\ \A f \in Deliveries \ {d} : delivery'[f] = delivery[f]
    BY <1>1, GotoDIs DEF Web!DeliveryStages
<1>4. delivery[d].email # None => delivery[d].email \in Emails /\ lock'[delivery[d].email] = d
    BY <1>1 DEF Actors, Delivering
<1>5. Unknown(d)'
    BY <1>3, <1>4 DEF Unknown
<1>6. Tables' /\ Kept /\ Welcome(d)
    BY <1>1, <1>2, SameKeeps
<1>7. /\ lock' \in [Emails \cup Customers -> Holders]
      /\ \A k \in Emails : lock'[k] = lock[k] \/ lock[k] \in {None, d}
    BY <1>1 DEF Actors, Holders
<1> QED
    BY <1>2, <1>3, <1>5, <1>6, <1>7, DeliveryStep

\* A delivery that is over relies on nothing.
LEMMA DeliveredInv ==
    ASSUME Web!SignInAssumption, SignInv, NEW d \in Deliveries, Web!GotoD(d, "over"), Web!Released(d),
           UNCHANGED <<attempt, jar, session, logout, root, credited, mishaps>>, Tables', Kept, Welcome(d)
    PROVE  SignInv'
<1>1. Actors
    BY DEF SignInv
<1>2. /\ delivery' \in [Deliveries -> Delivering] /\ delivery'[d].at = "over"
      /\ \A f \in Deliveries \ {d} : delivery'[f] = delivery[f]
    BY <1>1, GotoDIs DEF Web!DeliveryStages
<1>3. Unknown(d)'
    BY <1>2 DEF Unknown
<1>4. /\ lock' \in [Emails \cup Customers -> Holders]
      /\ \A k \in Emails : lock'[k] = lock[k] \/ lock[k] \in {None, d}
    BY <1>1, ReleasedIs
<1> QED
    BY <1>2, <1>3, <1>4, DeliveryStep

LEMMA ByCustomerInv ==
    ASSUME Web!SignInAssumption, SignInv, NEW d \in Deliveries, Web!ByCustomer(d) PROVE SignInv'
<1>1. /\ Tables /\ Actors /\ Unknown(d) /\ delivery[d].at = "find"
      /\ lock \in [Emails \cup Customers -> Holders]
    BY DEF SignInv, Actors, Fitting, Web!ByCustomer
<1>2. UNCHANGED <<attempt, jar, session, logout, root, credited, mishaps>>
    BY DEF Web!ByCustomer, Web!browserVars
<1>3. CASE UNCHANGED <<account, recent>> /\ Web!GotoD(d, "over") /\ Web!Released(d)
  <2>1. Tables' /\ Kept /\ Welcome(d)
      BY <1>1, <1>3, SameKeeps
  <2> QED
      BY <1>2, <1>3, <2>1, DeliveredInv
<1>4. CASE UNCHANGED <<account, recent, lock>> /\ delivery[d].email # None /\ Web!GotoD(d, "claim")
  <2>1. /\ delivery' \in [Deliveries -> Delivering] /\ delivery'[d].at = "claim"
        /\ delivery'[d].email = delivery[d].email
        /\ \A f \in Deliveries \ {d} : delivery'[f] = delivery[f]
      BY <1>1, <1>4, GotoDIs DEF Web!DeliveryStages
  <2>2. Unknown(d)'
      BY <1>1, <1>4, <2>1 DEF Unknown
  <2>3. Tables' /\ Kept /\ Welcome(d)
      BY <1>1, <1>4, SameKeeps
  <2> QED
      BY <1>1, <1>2, <1>4, <2>1, <2>2, <2>3, DeliveryStep
<1>5. CASE /\ Web!GotoD(d, "over") /\ Web!Released(d) /\ delivery[d].email # None
           /\ \E a \in Web!CustomerOf(delivery[d].customer) : Web!Update(a, Web!Renamed(a, delivery[d].email))
  <2>1. PICK a \in Web!CustomerOf(delivery[d].customer) : Web!Update(a, Web!Renamed(a, delivery[d].email))
      BY <1>5
  <2>2. PICK r : r = Web!Renamed(a, delivery[d].email)
      OBVIOUS
  <2>3. a \in Web!Rows /\ account[a] \in AccountRows /\ delivery[d].email \in Emails
      BY <1>1, <1>5 DEF Web!CustomerOf, Tables, Web!Rows, Unknown
  <2>4. r \in AccountRows /\ RowKept(account[a], r)
      BY <2>2, <2>3 DEF AccountRows, RowKept, Web!Renamed
  <2>5. Tables' /\ Kept /\ (Web!Rows)' = Web!Rows
      BY <1>1, <2>1, <2>2, <2>3, <2>4, UpdateKeeps
  <2>6. Welcome(d)
      BY <2>5 DEF Welcome
  <2> QED
      BY <1>2, <1>5, <2>5, <2>6, DeliveredInv
<1> QED
    BY <1>3, <1>4, <1>5 DEF Web!ByCustomer

\* A customer's account is made after a search of the email found none.
LEMMA ByEmailInv ==
    ASSUME Web!SignInAssumption, SignInv, NEW d \in Deliveries, Web!ByEmail(d) PROVE SignInv'
<1> DEFINE near == {a \in Web!Rows : account[a].email = delivery[d].email}
           free == {a \in near : account[a].customer = None}
           n == Web!Newest(IF free # {} THEN free ELSE near)
<1>1. /\ Tables /\ Actors /\ Unknown(d) /\ delivery[d].at = "claim"
      /\ lock \in [Emails \cup Customers -> Holders] /\ delivery[d].customer \in Customers \cup {None}
    BY DEF SignInv, Actors, Fitting, Web!ByEmail, Delivering
<1>2. UNCHANGED <<attempt, jar, session, logout, root, credited, mishaps>>
    BY DEF Web!ByEmail, Web!browserVars
<1>3. CASE near = {}
  <2>1. UNCHANGED <<account, recent, lock>> /\ Web!GotoD(d, "insert")
      BY <1>3 DEF Web!ByEmail, Web!accountVars
  <2>2. /\ delivery' \in [Deliveries -> Delivering] /\ delivery'[d].at = "insert"
        /\ delivery'[d].email = delivery[d].email
        /\ \A f \in Deliveries \ {d} : delivery'[f] = delivery[f]
      BY <1>1, <2>1, GotoDIs DEF Web!DeliveryStages
  <2>3. (Web!Rows)' = Web!Rows /\ \A a \in Web!Rows : account[a].email # delivery[d].email
      BY <1>3, <2>1 DEF Web!Rows
  <2>4. Unknown(d)'
      BY <1>1, <2>1, <2>2, <2>3 DEF Unknown
  <2>5. Tables' /\ Kept /\ Welcome(d)
      BY <1>1, <2>1, SameKeeps
  <2> QED
      BY <1>1, <1>2, <2>1, <2>2, <2>4, <2>5, DeliveryStep
<1>4. CASE near # {}
  <2>1. PICK r : r = [account[n] EXCEPT !.customer = delivery[d].customer]
      OBVIOUS
  <2>2. Web!GotoD(d, "over") /\ Web!Released(d) /\ Web!Update(n, r)
      BY <1>4, <2>1 DEF Web!ByEmail
  <2>3. n \in (IF free # {} THEN free ELSE near)
      BY <1>1, <1>4, NewestIs
  <2>4. n \in Web!Rows /\ account[n] \in AccountRows
    <3>1. n \in Web!Rows
        BY <2>3
    <3> HIDE DEF n
    <3> QED
        BY <1>1, <3>1 DEF Tables, Web!Rows
  <2>5. r \in AccountRows /\ RowKept(account[n], r)
      BY <1>1, <2>1, <2>4 DEF AccountRows, RowKept
  <2>6. Tables' /\ Kept /\ (Web!Rows)' = Web!Rows
      BY <1>1, <2>2, <2>4, <2>5, UpdateKeeps
  <2>7. Welcome(d)
      BY <2>6 DEF Welcome
  <2> QED
      BY <1>2, <2>2, <2>6, <2>7, DeliveredInv
<1> QED
    BY <1>3, <1>4

LEMMA InsertCustomerInv ==
    ASSUME Web!SignInAssumption, SignInv, NEW d \in Deliveries, Web!InsertCustomer(d) PROVE SignInv'
<1>1. /\ Tables /\ Actors /\ Unknown(d) /\ delivery[d].at = "insert" /\ MaxAccounts \in Nat
      /\ delivery[d].customer \in Customers \cup {None}
    BY DEF SignInv, Actors, Fitting, Web!InsertCustomer, Delivering, Web!SignInAssumption
<1>2. /\ UNCHANGED <<attempt, jar, session, logout, root, credited, mishaps>>
      /\ Web!GotoD(d, "over") /\ Web!Released(d)
    BY DEF Web!InsertCustomer, Web!browserVars
<1>3. PICK r : r = [sub |-> None, email |-> delivery[d].email,
                   customer |-> delivery[d].customer, renamed |-> FALSE]
    OBVIOUS
<1>4. r \in AccountRows /\ r.renamed = FALSE /\ r.email = delivery[d].email
    BY <1>1, <1>3 DEF AccountRows, Unknown
<1>5. PICK n : n = Len(account) + 1
    OBVIOUS
<1>6. Tables' /\ Kept /\ (Web!Rows)' = Web!Rows \cup {n} /\ account'[n] = r
    BY <1>1, <1>3, <1>4, <1>5, AddedKeeps DEF Web!InsertCustomer
<1>7. Welcome(d)
    BY <1>1, <1>4, <1>6 DEF Welcome, Unknown
<1> QED
    BY <1>2, <1>6, <1>7, DeliveredInv

-----------------------------------------------------------------------------
(* The steps that belong to neither. *)

LEMMA AsideStep ==
    ASSUME Web!SignInAssumption, SignInv, Tables', Kept, (Web!Rows)' = Web!Rows,
           UNCHANGED <<lock, attempt, delivery, credited>>,
           jar' \in Jars,
           session' \in [Attempts -> {"none", "live", "revoked", "expired"}],
           logout' \in [at : {"idle", "answer", "over"}, token : Attempts \cup {None}],
           root' \in [Web!Roots -> {"none", "intact", "quarantined"}],
           mishaps' \in 0..MaxMishaps, mishaps' = 0 => mishaps = 0, SessionsOpened'
    PROVE  SignInv'
<1>1. Actors /\ None \notin Attempts /\ None \notin Deliveries
    BY DEF SignInv, Web!SignInAssumption
<1>2. Actors'
    BY <1>1 DEF Actors
<1>3. Alone(None) /\ SealedStay /\ Welcome(None)
    BY DEF Alone, SealedStay, Welcome
<1> QED
    BY <1>1, <1>2, <1>3, SignStep

LEMMA LogoutInv == ASSUME Web!SignInAssumption, SignInv, Web!Logout PROVE SignInv'
<1>1. Tables /\ Actors /\ SessionsOpened /\ logout.at = "idle" /\ None \notin Attempts
    BY DEF SignInv, Web!Logout, Web!SignInAssumption
<1>2. UNCHANGED <<account, recent, lock, attempt, delivery, jar, root, credited, mishaps>>
    BY DEF Web!Logout, Web!accountVars
<1>3. Tables' /\ Kept /\ (Web!Rows)' = Web!Rows
    BY <1>1, <1>2, SameKeeps
<1>4. PICK k : k = jar.session
    OBVIOUS
<1>5. k \in Attempts \cup {None} /\ (k # None => session[k] # "none")
    BY <1>1, <1>4 DEF Actors, Jars, SessionsOpened
<1>6. /\ session' \in [Attempts -> {"none", "live", "revoked", "expired"}]
      /\ \A u \in Attempts : session'[u] = (IF u = k THEN "revoked" ELSE session[u])
    BY <1>1, <1>4, <1>5 DEF Web!Logout, Web!Revoked, Actors
<1>7. logout' = [at |-> "answer", token |-> k]
    BY <1>4 DEF Web!Logout
<1>8. /\ logout' \in [at : {"idle", "answer", "over"}, token : Attempts \cup {None}]
      /\ logout'.at = "answer" /\ logout'.token = k
    BY <1>5, <1>7
<1>9. SessionsOpened'
    BY <1>1, <1>2, <1>4, <1>5, <1>6, <1>8 DEF SessionsOpened
<1>10. jar \in Jars
    BY <1>1 DEF Actors
<1> QED
    BY <1>1, <1>2, <1>3, <1>6, <1>8, <1>9, <1>10, AsideStep DEF Actors

LEMMA LogoutAnsweredInv == ASSUME Web!SignInAssumption, SignInv, Web!LogoutAnswered PROVE SignInv'
<1>1. Tables /\ Actors /\ SessionsOpened /\ logout.at = "answer"
    BY DEF SignInv, Web!LogoutAnswered
<1>2. UNCHANGED <<account, recent, lock, attempt, delivery, session, root, credited, mishaps>>
    BY DEF Web!LogoutAnswered, Web!accountVars
<1>3. Tables' /\ Kept /\ (Web!Rows)' = Web!Rows
    BY <1>1, <1>2, SameKeeps
<1>4. /\ logout' \in [at : {"idle", "answer", "over"}, token : Attempts \cup {None}]
      /\ logout'.at = "over" /\ logout'.token = logout.token
    BY <1>1 DEF Web!LogoutAnswered, Actors
<1>5. /\ jar' \in Jars
      /\ jar'.session = None
    BY <1>1 DEF Web!LogoutAnswered, Actors, Jars
<1>6. SessionsOpened'
    BY <1>1, <1>2, <1>4, <1>5 DEF SessionsOpened
<1> QED
    BY <1>1, <1>2, <1>3, <1>4, <1>5, <1>6, AsideStep DEF Actors

LEMMA LapseInv == ASSUME Web!SignInAssumption, SignInv, Web!Lapse PROVE SignInv'
<1>1. Tables /\ Actors /\ SessionsOpened
    BY DEF SignInv
<1>2. UNCHANGED <<account, recent, lock, attempt, delivery, logout, credited>>
    BY DEF Web!Lapse, Web!accountVars
<1>3. Tables' /\ Kept /\ (Web!Rows)' = Web!Rows
    BY <1>1, <1>2, SameKeeps
<1>4. mishaps' \in 0..MaxMishaps /\ mishaps' # 0
    BY <1>1 DEF Web!Lapse, Web!Mishap, Actors, Web!SignInAssumption
<1>5. CASE \E t \in Attempts : session[t] = "live" /\ session' = [session EXCEPT ![t] = "expired"]
  <2>0. CASE UNCHANGED <<root, jar>>
    <3>1. PICK t \in Attempts : session[t] = "live" /\ session' = [session EXCEPT ![t] = "expired"]
        BY <1>5
    <3>2. /\ session' \in [Attempts -> {"none", "live", "revoked", "expired"}] /\ session'[t] = "expired"
          /\ \A u \in Attempts \ {t} : session'[u] = session[u]
        BY <1>1, <3>1 DEF Actors
    <3>3. jar.session \in Attempts \cup {None} /\ logout.token \in Attempts \cup {None}
        BY <1>1 DEF Actors, Jars
    <3>4. SessionsOpened'
        BY <1>1, <1>2, <2>0, <3>1, <3>2, <3>3 DEF SessionsOpened
    <3> QED
        BY <1>1, <1>2, <1>3, <1>4, <2>0, <3>2, <3>4, AsideStep DEF Actors
  <2>1. CASE ~UNCHANGED <<root, jar>>
    <3>1. UNCHANGED session
        BY <2>1 DEF Web!Lapse
    <3> QED
        BY <1>1, <1>5, <3>1 DEF Actors
  <2> QED
      BY <2>0, <2>1
<1>6. CASE UNCHANGED session
  <2>1. root' \in [Web!Roots -> {"none", "intact", "quarantined"}]
      BY <1>1, <1>6 DEF Web!Lapse, Actors
  <2>2. /\ jar' \in Jars
        /\ jar'.session = jar.session
      BY <1>1, <1>6 DEF Web!Lapse, Actors, Jars
  <2>3. SessionsOpened'
      BY <1>1, <1>2, <1>6, <2>2 DEF SessionsOpened
  <2> QED
      BY <1>1, <1>2, <1>3, <1>4, <1>6, <2>1, <2>2, <2>3, AsideStep DEF Actors
<1> QED
    BY <1>5, <1>6 DEF Web!Lapse

LEMMA OwnCustomerInv ==
    ASSUME Web!SignInAssumption, SignInv, NEW c \in Customers, Web!OwnCustomer(c) PROVE SignInv'
<1>1. Tables /\ Actors /\ SessionsOpened /\ Fitting
    BY DEF SignInv
<1>2. UNCHANGED <<lock, attempt, delivery, jar, session, logout, root, credited, mishaps>>
    BY DEF Web!OwnCustomer, Web!browserVars
<1>3. PICK a, r : a = attempt[jar.session].account /\ r = [account[a] EXCEPT !.customer = c]
    OBVIOUS
<1>4. jar.session \in Attempts /\ attempt[jar.session].at \in Placed
    BY <1>1 DEF Web!OwnCustomer, Web!Authenticated, Actors, Jars, SessionsOpened, Placed
<1>5. a \in Web!Rows
    BY <1>1, <1>3, <1>4 DEF Fitting, Named
<1>6. account[a] \in AccountRows
    BY <1>1, <1>5 DEF Tables, Web!Rows
<1>7. r \in AccountRows /\ RowKept(account[a], r) /\ Web!Update(a, r)
    BY <1>3, <1>6 DEF AccountRows, RowKept, Web!OwnCustomer
<1>8. Tables' /\ Kept /\ (Web!Rows)' = Web!Rows
    BY <1>1, <1>5, <1>7, UpdateKeeps
<1>9. SessionsOpened'
    BY <1>1, <1>2 DEF SessionsOpened
<1> QED
    BY <1>1, <1>2, <1>8, <1>9, AsideStep DEF Actors

LEMMA SignNext == ASSUME Web!SignInAssumption PROVE SignInv /\ [Web!Next]_(Web!vars) => SignInv'
<1>1. ASSUME SignInv, NEW t \in Attempts, Web!SignIn(t) PROVE SignInv'
    BY <1>1, StartSignInv, StartAnsweredInv, CallbackInv, ExchangeInv, LockEmailInv, LinkInv, InsertInv,
       CreditInv, OpenInv, AnsweredInv, FailInv DEF Web!SignIn
<1>2. ASSUME SignInv, NEW d \in Deliveries, Web!Delivered(d) PROVE SignInv'
    BY <1>2, DeliverInv, LockCustomerInv, LockAccountInv, ByCustomerInv, ByEmailInv, InsertCustomerInv
    DEF Web!Delivered
<1>3. ASSUME SignInv, UNCHANGED (Web!vars) PROVE SignInv'
  <2>1. UNCHANGED <<account, recent, lock, attempt, delivery, jar, session, logout, root, credited, mishaps>>
      BY <1>3 DEF Web!vars
  <2>2. Tables /\ Actors /\ SessionsOpened
      BY <1>3 DEF SignInv
  <2>3. Tables' /\ Kept /\ (Web!Rows)' = Web!Rows
      BY <2>1, <2>2, SameKeeps
  <2>4. SessionsOpened'
      BY <2>1, <2>2 DEF SessionsOpened
  <2> QED
      BY <1>3, <2>1, <2>2, <2>3, <2>4, AsideStep DEF Actors
<1> QED
    BY <1>1, <1>2, <1>3, LogoutInv, LogoutAnsweredInv, LapseInv, OwnCustomerInv DEF Web!Next

\* What sign-in promises, for any number of tabs, deliveries, identities and
\* emails: a session is for ever one of the subject that signed in; an email has
\* two accounts only where one was renamed to it or both have a subject; nothing
\* fails but over an email that changed; an acquisition is credited with the
\* account of its own sign-in; a session that was logged out authenticates no more
\* (callback.ts, logout.ts, upsertGoogleAccount, findOrCreateAccountForStripeCustomer).
THEOREM SignInsCorrect ==
    ASSUME Web!SignInAssumption
    PROVE  Web!Spec => [](Web!TypeOK /\ Web!SignInCorrect)
<1>1. ASSUME SignInv PROVE Web!TypeOK /\ Web!SignInCorrect
  <2>1. Fitting /\ SessionsOpened /\ CreditsKept /\ Web!PurchaseMeetsSigner /\ Actors
      BY <1>1 DEF SignInv
  <2>2. Web!SessionIsTheSigners
      BY <2>1 DEF Fitting, Named, SessionsOpened, Placed, Web!SessionIsTheSigners
  <2>3. Web!FailsForReason
      BY <2>1 DEF Fitting, Reasoned, Web!FailsForReason
  <2>4. Web!CreditIsTheStarts
      BY <2>1 DEF CreditsKept, Web!CreditIsTheStarts
  <2>5. Web!LoggedOutIsOut
      BY <2>1 DEF SessionsOpened, Web!LoggedOutIsOut
  <2> QED
      BY <1>1, <2>1, <2>2, <2>3, <2>4, <2>5, SignTypes DEF Web!SignInCorrect
<1> QED
    BY <1>1, SignInit, SignNext, PTL DEF Web!Spec
=============================================================================

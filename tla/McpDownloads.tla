---------------------------- MODULE McpDownloads ----------------------------
(***************************************************************************)
(* Assistants that download for one account (api/_lib/mcp.ts, the tables of *)
(* db/migrations/20261106120000_add_mcp_connections.sql): a local installa- *)
(* tion starts a connection, the owner approves it in the browser, and its  *)
(* token admits and settles download jobs, against the credits of the       *)
(* account's wallet or, with a licence, on one of the two device seats.     *)
(*                                                                          *)
(* Every request is one transaction behind the connection's row lock, the   *)
(* lock of the job and that of the account's devices, so it is one step.    *)
(* The owner's other pages, the plugin and the clock run in between.  The   *)
(* wallet is bound by FriendRewards!BindAssistant and kept by CreditWallet; *)
(* here it is the number of downloads its credits pay for.                  *)
(***************************************************************************)
EXTENDS Naturals, Sequences, FiniteSets

CONSTANTS
    Connections, Devices, Requests,
    Prints,     \* request fingerprints
    Balance,    \* downloads that the starter credits pay for
    Waits,      \* whether a transaction may have begun before the last write
    MaxRows,    \* bound on the registry of devices
    Happenings, \* bound: which of "devices", "licence", "pairing", "tokens"
                \* and "jobs" the clock and the other pages change
    None

MaxActive == 2
Ends == {"committed", "released", "expired"}

McpAssumption ==
    /\ None \notin Connections \cup {"reserved"} \cup Ends
    /\ None \notin [device : Devices, status : {"pending", "approved", "denied", "revoked"}, held : BOOLEAN,
                   open : BOOLEAN, live : BOOLEAN, approved : Nat, seat : Nat, bound : Nat]
    /\ None \notin [connection : Connections, print : Prints, cost : {0, 1}, status : {"reserved"} \cup Ends,
                   late : BOOLEAN, by : Connections \cup {None}]

VARIABLES
    clock,       \* the last write's; a transaction that began between two
                 \* writes has the odd number between them
    connection,  \* sidestream_mcp_connections
    rows,        \* sidestream_account_devices, in the order of insertion
    licence,     \* whether the entitlement is active
    job,         \* sidestream_mcp_downloads
    ledger       \* sidestream_credit_reservations of the jobs

vars == <<clock, connection, rows, licence, job, ledger>>

TypeOK ==
    /\ \A c \in Connections : connection[c] # None =>
         /\ connection[c].status \in {"pending", "approved", "denied", "revoked"}
         /\ connection[c].seat \in 0..Len(rows)
         /\ connection[c].held => connection[c].status \in {"approved", "revoked"}
    /\ \A r \in Requests : job[r] # None =>
         job[r].status \in {"reserved"} \cup Ends /\ job[r].cost \in {0, 1}
    /\ \A r \in Requests : ledger[r] \in {None, "reserved"} \cup Ends

Init ==
    /\ clock = 0 /\ rows = <<>> /\ licence \in BOOLEAN
    /\ connection = [c \in Connections |-> None]
    /\ job = [r \in Requests |-> None] /\ ledger = [r \in Requests |-> None]

\* now() of a transaction that writes next.
Moments == {clock + 2} \cup IF Waits /\ clock > 0 THEN {clock - 1} ELSE {}
Passed(t) == clock' = IF t > clock THEN t ELSE clock

-----------------------------------------------------------------------------
(* The account's devices *)

ActiveRows(rs) == {i \in DOMAIN rs : rs[i].revoked = 0}
RowsOf(rs, d) == {i \in DOMAIN rs : rs[i].device = d}
Latest(d) == CHOOSE i \in RowsOf(rows, d) : \A j \in RowsOf(rows, d) : rows[j].activated <= rows[i].activated
Seat(d) == ActiveRows(rows) \cap RowsOf(rows, d)

\* lockAccountDeviceBinding for an activation: a free seat is taken.
Seated(d, t) ==
    IF Seat(d) = {} /\ Cardinality(ActiveRows(rows)) < MaxActive
    THEN Append(rows, [device |-> d, activated |-> t, revoked |-> 0]) ELSE rows

\* authorizeAccountIntegrationDevice refuses what the owner removed after the
\* connection was approved.  Mutant: it does not ask.
RemovedNever(d, approved) == FALSE
RemovedSince(d, approved) ==
    RowsOf(rows, d) # {} /\ rows[Latest(d)].revoked # 0 /\ rows[Latest(d)].revoked >= approved

\* A connection's binding is younger than its seat.  Mutant: the time of the
\* approval is compared.
CurrentSinceApproval(c, i) == connection[c].approved >= rows[i].activated
Current(c, i) == connection[c].bound >= rows[i].activated

\* The credential's seat is still its own.
KeepsSeat(c) ==
    LET d == connection[c].device IN
    /\ ~RemovedSince(d, connection[c].approved)
    /\ \E i \in Seat(d) :
         /\ rows[Latest(d)].revoked = 0
         /\ Current(c, i) /\ i = connection[c].seat

\* enforcePaidDevice, for a row whose approval is approved.
Admits(c, approved, t) ==
    LET d == connection[c].device  seats == Seated(d, t) IN
    IF connection[c].seat # 0 THEN KeepsSeat(c)
    ELSE ~RemovedSince(d, approved) /\ ActiveRows(seats) \cap RowsOf(seats, d) # {}
Bound(row, t) ==
    IF row.seat # 0 THEN row
    ELSE LET seats == Seated(row.device, t) IN
         [row EXCEPT !.seat = CHOOSE i \in ActiveRows(seats) : seats[i].device = row.device, !.bound = t]
RowsAfter(c, t) == IF connection[c].seat # 0 THEN rows ELSE Seated(connection[c].device, t)

\* The plugin's own activations, and the owner's device page.
PluginSeats(d) ==
    /\ Len(rows) < MaxRows /\ Seated(d, clock + 2) # rows
    /\ rows' = Seated(d, clock + 2) /\ clock' = clock + 2
    /\ UNCHANGED <<connection, licence, job, ledger>>
\* A move to a new device while both seats are taken.
PluginMoves(d) ==
    \E i \in ActiveRows(rows) :
      /\ Len(rows) < MaxRows /\ Seat(d) = {} /\ Cardinality(ActiveRows(rows)) = MaxActive
      /\ rows' = Append([rows EXCEPT ![i].revoked = clock + 2],
                        [device |-> d, activated |-> clock + 2, revoked |-> 0])
      /\ clock' = clock + 2 /\ UNCHANGED <<connection, licence, job, ledger>>
OwnerDeactivates ==
    /\ ActiveRows(rows) # {}
    /\ rows' = [i \in DOMAIN rows |-> IF rows[i].revoked = 0 THEN [rows[i] EXCEPT !.revoked = clock + 2] ELSE rows[i]]
    /\ clock' = clock + 2 /\ UNCHANGED <<connection, licence, job, ledger>>
LicenceTurns ==
    /\ licence' = ~licence /\ UNCHANGED <<clock, connection, rows, job, ledger>>

-----------------------------------------------------------------------------
(* Connections *)

Start(c, d) ==
    /\ connection[c] = None
    /\ connection' = [connection EXCEPT ![c] =
         [device |-> d, status |-> "pending", held |-> FALSE, open |-> TRUE, live |-> FALSE,
          approved |-> 0, seat |-> 0, bound |-> 0]]
    /\ UNCHANGED <<clock, rows, licence, job, ledger>>

Deny(c) ==
    /\ connection[c] # None /\ connection[c].open /\ connection[c].status = "pending"
    /\ connection' = [connection EXCEPT ![c].status = "denied"]
    /\ UNCHANGED <<clock, rows, licence, job, ledger>>

\* The credits that the clock gave back, whenever the account is looked at.
Synced(l) ==
    [r \in Requests |-> IF l[r] = "reserved" /\ job[r].late THEN "expired" ELSE l[r]]

\* Only a licence takes a seat; a connection approved without one is bound by
\* its first download.
Approve(c) ==
    \E t \in Moments :
      /\ connection[c] # None /\ connection[c].open /\ connection[c].status = "pending"
      /\ licence => Len(rows) < MaxRows /\ Admits(c, clock + 2, t)
      /\ LET row == [connection[c] EXCEPT !.status = "approved", !.live = TRUE, !.approved = clock + 2] IN
         connection' = [connection EXCEPT ![c] = IF licence THEN Bound(row, t) ELSE row]
      /\ rows' = IF licence THEN RowsAfter(c, t) ELSE rows
      /\ clock' = clock + 2 /\ ledger' = Synced(ledger)
      /\ UNCHANGED <<licence, job>>

\* The poll derives the same token again.
Poll(c) ==
    /\ connection[c] # None /\ connection[c].open /\ connection[c].status = "approved"
    /\ connection' = [connection EXCEPT ![c].held = TRUE]
    /\ ledger' = Synced(ledger)
    /\ UNCHANGED <<clock, rows, licence, job>>

\* The browser's list, or the token itself.
Revoke(c) ==
    /\ connection[c] # None /\ connection[c].status = "approved"
    /\ connection' = [connection EXCEPT ![c].status = "revoked"]
    /\ UNCHANGED <<clock, rows, licence, job, ledger>>

PairingExpires(c) ==
    /\ connection[c] # None /\ connection[c].open
    /\ connection' = [connection EXCEPT ![c].open = FALSE]
    /\ UNCHANGED <<clock, rows, licence, job, ledger>>
TokenExpires(c) ==
    /\ connection[c] # None /\ connection[c].live
    /\ connection' = [connection EXCEPT ![c].live = FALSE]
    /\ UNCHANGED <<clock, rows, licence, job, ledger>>
\* Seven days: the job's and the reservation's are the same.
JobExpires(r) ==
    /\ job[r] # None /\ ~job[r].late
    /\ job' = [job EXCEPT ![r].late = TRUE] /\ UNCHANGED <<clock, connection, rows, licence, ledger>>

-----------------------------------------------------------------------------
(* Jobs *)

Working(c) == connection[c] # None /\ connection[c].held /\ connection[c].live
              /\ connection[c].status = "approved"
Available(l) == Balance - Cardinality({r \in Requests : l[r] \in {"reserved", "committed"}})

\* reserve: a request is admitted once, whichever connection retries it.
Reserve(c, r, print) ==
    \E t \in Moments :
      /\ Working(c) /\ (job[r] # None => job[r].print = print)
      /\ LET l == Synced(ledger)
             over == job[r] # None /\ (job[r].status # "reserved" \/ job[r].late)
             poor == ~licence /\ job[r] = None /\ Available(l) = 0
             cost == IF licence THEN 0 ELSE 1 IN
         IF over \/ poor
         THEN ledger' = l /\ t = clock + 2 /\ UNCHANGED <<clock, connection, rows, job>>
         ELSE /\ IF licence
                 THEN /\ Len(rows) < MaxRows \/ connection[c].seat # 0
                      /\ Admits(c, connection[c].approved, t)
                      /\ connection' = [connection EXCEPT ![c] = Bound(connection[c], t)]
                      /\ rows' = RowsAfter(c, t)
                      /\ IF connection[c].seat # 0 THEN t = clock + 2 /\ UNCHANGED clock ELSE Passed(t)
                 ELSE t = clock + 2 /\ UNCHANGED <<clock, connection, rows>>
              /\ IF job[r] # None THEN ledger' = l /\ UNCHANGED job
                 ELSE /\ job' = [job EXCEPT ![r] = [connection |-> c, print |-> print, cost |-> cost,
                                                    status |-> "reserved", late |-> FALSE, by |-> None]]
                      /\ ledger' = IF cost = 0 THEN l ELSE [l EXCEPT ![r] = "reserved"]
    /\ UNCHANGED licence

\* A connection that has ended may still settle, but only its own jobs.
\* Mutant: those of its device.
MaySettleOnDevice(c, r) == connection[job[r].connection].device = connection[c].device
MaySettle(c, r) ==
    /\ connection[job[r].connection].device = connection[c].device
    /\ Working(c) \/ job[r].connection = c

\* What the ledger says of a job that cost credits.  Mutant: what the caller
\* says is written.
SettledAsAsked(r, l, outcome) == outcome
Settled(r, l, outcome) ==
    IF job[r].cost = 0 THEN (IF job[r].late THEN "expired" ELSE outcome)
    ELSE IF l[r] = "reserved" THEN outcome ELSE l[r]

\* finalize
Finalize(c, r, outcome) ==
    /\ connection[c] # None /\ connection[c].held /\ job[r] # None /\ MaySettle(c, r)
    /\ IF job[r].status # "reserved"
       THEN ledger' = (IF Working(c) THEN Synced(ledger) ELSE ledger) /\ UNCHANGED job
       ELSE LET l == Synced(ledger) IN
            /\ job' = [job EXCEPT ![r].status = Settled(r, l, outcome), ![r].by = c]
            /\ ledger' = IF job[r].cost = 0 THEN (IF Working(c) THEN l ELSE ledger)
                         ELSE [l EXCEPT ![r] = IF @ = "reserved" THEN outcome ELSE @]
    /\ UNCHANGED <<clock, connection, rows, licence>>

Next ==
    \/ "licence" \in Happenings /\ LicenceTurns
    \/ "devices" \in Happenings /\ (OwnerDeactivates \/ \E d \in Devices : PluginSeats(d) \/ PluginMoves(d))
    \/ "jobs" \in Happenings /\ \E r \in Requests : JobExpires(r)
    \/ \E c \in Connections :
         \/ \E d \in Devices : Start(c, d)
         \/ Approve(c) \/ Poll(c) \/ Revoke(c)
         \/ "pairing" \in Happenings /\ (Deny(c) \/ PairingExpires(c))
         \/ "tokens" \in Happenings /\ TokenExpires(c)
         \/ \E r \in Requests :
              \/ \E print \in Prints : Reserve(c, r, print)
              \/ \E outcome \in {"committed", "released"} : Finalize(c, r, outcome)

Spec == Init /\ [][Next]_vars

-----------------------------------------------------------------------------
\* A job that cost credits ends as its reservation in the ledger does, whoever
\* settles it and however late; a job of a licence has none, and no credits
\* are reserved for anything else.
JobsAgreeWithLedger ==
    \A r \in DOMAIN job :
      /\ (ledger[r] # None) <=> (job[r] # None /\ job[r].cost = 1)
      /\ ledger[r] # None =>
           IF job[r].status = "reserved" THEN ledger[r] \in {"reserved", "expired"}
           ELSE ledger[r] = job[r].status

\* A connection that has its seat goes on working as long as the seat is
\* there: nothing but the owner, a revocation or the clock disconnects it.
SeatedKeepsWorking ==
    \A c \in DOMAIN connection :
      (/\ connection[c] # None /\ connection[c].seat # 0
       /\ rows[connection[c].seat].revoked = 0) => KeepsSeat(c)

\* A device that the owner removed does not come back by an older connection:
\* by the plugin, or by a connection that was approved later.
RemovedStaysRemoved ==
    [][\A i \in DOMAIN rows' \ DOMAIN rows :
         (RowsOf(rows, rows'[i].device) # {} /\ connection' # connection) =>
           \E c \in DOMAIN connection :
             /\ connection'[c] # None /\ connection'[c].seat = i
             /\ \A j \in RowsOf(rows, rows'[i].device) : rows[j].revoked < connection'[c].approved]_vars

\* A connection that was revoked or whose token expired settles its own jobs
\* and no others.
EndedSettlesItsOwn ==
    [][\A r \in DOMAIN job : \A c \in DOMAIN connection :
         (job[r] # None /\ job[r].by = None /\ job'[r].by = c /\ ~Working(c)) =>
           job[r].connection = c]_vars
=============================================================================

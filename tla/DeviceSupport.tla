--------------------------- MODULE DeviceSupport ---------------------------
(* The support command of scripts/manage-license-device.mjs beside the site:   *)
(* an operator clears a device binding or records a move-limit override of one  *)
(* account. A command is one serializable transaction whose snapshot is taken   *)
(* before it waits for the support lock; the site's transactions work on the    *)
(* same rows under the device lock, which the command does not take.            *)
(* Licences and bindings are in the order of their rows. A row that was updated *)
(* has another version; one that was only locked has not.                       *)
EXTENDS Integers, Sequences, FiniteSets, SequencesExt

CONSTANTS
    Supporters,     \* operators
    Seats,          \* the account's devices
    Limits,         \* the overrides recorded
    MaxBindings, MaxCredentials, MaxLicences, MaxCommands       \* bounds

VARIABLES
    bindings,       \* sidestream_account_devices of the account
    credentials,    \* its tokens
    licences,       \* its licences with their features
    command,        \* the operators' commands
    commands        \* how many were begun
supportVars == <<bindings, credentials, licences, command, commands>>

Resting == [stage |-> "idle"]
NewLicence == [active |-> TRUE, unlimited |-> TRUE, audit |-> <<>>, override |-> 0]
Init ==
    /\ bindings = <<>> /\ credentials = <<>>
    /\ licences = <<NewLicence>>
    /\ command = [o \in Supporters |-> Resting] /\ commands = 0

Standing(rows) == {i \in DOMAIN rows : rows[i].gone = "no"}
SeatOf(rows, d) == {i \in Standing(rows) : rows[i].device = d}
LastOf(rows, d) == {i \in DOMAIN rows : rows[i].device = d /\ \A j \in DOMAIN rows : rows[j].device = d => j <= i}

(* The command.                                                                *)
Begin(o, kind, limit) ==
    /\ command[o] = Resting /\ commands < MaxCommands
    /\ commands' = commands + 1
    /\ command' = [command EXCEPT ![o] =
         [stage |-> "waiting", kind |-> kind, limit |-> limit, bindings |-> bindings,
          credentials |-> credentials, licences |-> licences]]
    /\ UNCHANGED <<bindings, credentials, licences>>

\* The licence that carries the audit: an active one, the newest first.
Carrier(ls) ==
    LET active == {i \in DOMAIN ls : ls[i].active}
        among == IF active = {} THEN DOMAIN ls ELSE active
    IN  CHOOSE i \in among : \A j \in among : j <= i

\* Locking a row that was updated since the snapshot is a serialization failure.
\* A mutant: the isolation level of the site's own transactions.
RowsAnyhow(was, now) == TRUE
RowsUnchanged(was, now) == \A i \in DOMAIN was : now[i] = was[i]

HasEvent(licence, event) == \E k \in DOMAIN licence.audit : licence.audit[k] = event
Audited(licence, event) ==
    IF HasEvent(licence, event) THEN licence
    ELSE [licence EXCEPT !.audit = Append(@, event)]

\* The whole features are written back as they were read.
WriteFeatures(i, l) ==
    licences' = [licences EXCEPT ![i].audit = l.audit, ![i].override = l.override,
                                 ![i].unlimited = l.unlimited]

Fails(o) ==
    /\ command' = [command EXCEPT ![o] = Resting]
    /\ UNCHANGED <<bindings, credentials, licences, commands>>

\* The first of the bindings that stand, and only it, is cleared, and the
\* device's tokens that the snapshot shows are revoked.
ClearBinding(o) ==
    /\ command[o].stage = "waiting" /\ command[o].kind = "clear"
    /\ LET seen == command[o]
           carrier == Carrier(seen.licences)
           standing == Standing(seen.bindings)
       IN IF standing = {} THEN Fails(o)
          ELSE LET b == CHOOSE i \in standing : \A j \in standing : i <= j
                   mine == {t \in DOMAIN seen.credentials :
                              seen.credentials[t].device = seen.bindings[b].device
                              /\ seen.credentials[t].live}
               IN IF /\ RowsUnchanged(seen.bindings, bindings)
                     /\ RowsUnchanged(<<seen.licences[carrier]>>, <<licences[carrier]>>)
                     /\ \A t \in mine : credentials[t] = seen.credentials[t]
                  THEN /\ bindings' = [bindings EXCEPT ![b].gone = "support"]
                       /\ credentials' = [t \in DOMAIN credentials |->
                            IF t \in mine THEN [credentials[t] EXCEPT !.live = FALSE]
                            ELSE credentials[t]]
                       /\ WriteFeatures(carrier, Audited(seen.licences[carrier], <<"clear", b>>))
                       /\ command' = [command EXCEPT ![o] = Resting]
                       /\ UNCHANGED commands
                  ELSE Fails(o)

\* The same override is not recorded twice; another one replaces it.
RecordOverride(o) ==
    /\ command[o].stage = "waiting" /\ command[o].kind = "override"
    /\ LET seen == command[o]
           carrier == Carrier(seen.licences)
           l == seen.licences[carrier]
       IN IF /\ RowsUnchanged(seen.bindings, bindings)
             /\ RowsUnchanged(<<l>>, <<licences[carrier]>>)
             /\ l.override # seen.limit
          THEN /\ WriteFeatures(carrier,
                    [Audited(l, <<"override", seen.limit>>) EXCEPT !.override = seen.limit])
               /\ command' = [command EXCEPT ![o] = Resting]
               /\ UNCHANGED <<bindings, credentials, commands>>
          ELSE Fails(o)

(* The site.                                                                   *)
\* An activation takes a free seat, or finds its own, and issues a token; the
\* row of a seat of its own is locked and, seen lately, not updated.
Issue(d) ==
    /\ Len(credentials) < MaxCredentials
    /\ \/ SeatOf(bindings, d) # {} /\ UNCHANGED bindings
       \/ /\ SeatOf(bindings, d) = {} /\ Cardinality(Standing(bindings)) < 2
          /\ Len(bindings) < MaxBindings
          /\ bindings' = Append(bindings, [device |-> d, gone |-> "no",
                                           since |-> Len(credentials) + 1])
    /\ \E i \in DOMAIN licences :
         /\ licences[i].active
         /\ credentials' = Append(credentials, [device |-> d, licence |-> i, live |-> TRUE])
    /\ UNCHANGED <<licences, command, commands>>
\* The owner's page ends every binding of the account and every token.
Deactivate ==
    /\ Standing(bindings) # {}
    /\ bindings' = [i \in DOMAIN bindings |->
         IF i \in Standing(bindings) THEN [bindings[i] EXCEPT !.gone = "owner"] ELSE bindings[i]]
    /\ credentials' = [t \in DOMAIN credentials |-> [credentials[t] EXCEPT !.live = FALSE]]
    /\ UNCHANGED <<licences, command, commands>>
\* A mutant: the event's features replace the row's.
RewrittenWhole(licence, active) ==
    [NewLicence EXCEPT !.active = active, !.unlimited = active]
\* A subscription event is written over the licence; the operators' key stays.
Rewritten(licence, active) ==
    [NewLicence EXCEPT !.active = active, !.unlimited = active,
                       !.audit = licence.audit, !.override = licence.override]
SubscriptionEvent(i, active) ==
    /\ licences' = [licences EXCEPT ![i] = Rewritten(@, active)]
    /\ credentials' = IF active THEN credentials
                      ELSE [t \in DOMAIN credentials |->
                              IF credentials[t].licence = i
                              THEN [credentials[t] EXCEPT !.live = FALSE] ELSE credentials[t]]
    /\ UNCHANGED <<bindings, command, commands>>
Purchase ==
    /\ Len(licences) < MaxLicences
    /\ licences' = Append(licences, NewLicence)
    /\ UNCHANGED <<bindings, credentials, command, commands>>

Next ==
    \/ \E o \in Supporters :
         Begin(o, "clear", 0) \/ (\E n \in Limits : Begin(o, "override", n)) \/ ClearBinding(o) \/ RecordOverride(o)
    \/ \E d \in Seats : Issue(d)
    \/ Deactivate
    \/ \E i \in DOMAIN licences, active \in BOOLEAN : SubscriptionEvent(i, active)
    \/ Purchase

TypeOK ==
    /\ \A i \in DOMAIN bindings : bindings[i].gone \in {"no", "support", "owner"}
    /\ \A o \in DOMAIN command : command[o].stage \in {"idle", "waiting"}
\* A mutant: a credential older than the binding is accepted.
AcceptedOld(t) ==
    /\ credentials[t].live
    /\ \E i \in LastOf(bindings, credentials[t].device) : bindings[i].gone = "no"
\* A credential that is live and whose device's last binding stands, no younger
\* than the credential, is accepted.
Accepted(t) ==
    /\ credentials[t].live
    /\ \E i \in LastOf(bindings, credentials[t].device) :
         bindings[i].gone = "no" /\ bindings[i].since <= t
\* A cleared binding is written down exactly once, and purchases, subscription
\* events and other commands keep the note.
EveryClearAudited ==
    /\ \A i \in DOMAIN bindings : bindings[i].gone = "support" =>
         \E l \in DOMAIN licences : HasEvent(licences[l], <<"clear", i>>)
    /\ \A l \in DOMAIN licences : IsInjective(licences[l].audit)
\* A command never writes what the licence grants.
GrantsFollowEvents == \A l \in DOMAIN licences : licences[l].unlimited = licences[l].active
\* No credential issued for a binding that was cleared is accepted again, even
\* when the command did not see it.
ClearedStaysShut ==
    \A i \in DOMAIN bindings, t \in DOMAIN credentials :
      bindings[i].gone = "support" /\ bindings[i].device = credentials[t].device /\ Accepted(t) =>
        \E j \in Standing(bindings) : j > i /\ bindings[j].device = bindings[i].device /\ bindings[j].since <= t
=============================================================================

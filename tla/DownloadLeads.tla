--------------------------- MODULE DownloadLeads ---------------------------
(* Download leads: an e-mail address is captured in the database, or, when   *)
(* that fails, in a private Blob that a scheduled replay carries over        *)
(* (api/download-lead.ts, api/send-download-links.ts, _lib/download-leads.ts,*)
(* _lib/download-lead-blob.ts, api/internal/download-leads/replay.ts).       *)
(* A lead is one (email, source); a submission is a time and perhaps an      *)
(* idempotency key. The other fields and the address limits are left out.    *)
EXTENDS Integers, FiniteSets

CONSTANTS
    Leads, Keys, NoKey,
    Legacy,         \* leads with a Blob of the old path format
    Migrated,       \* the legacy Blobs that an older tool has carried over
    Routes,         \* "web" and "mobile"
    Requests,       \* HTTP calls; a client's retry is one more call
    Replays,        \* concurrent calls of the replay route
    EmailLimit,     \* calls of one address in a window
    MaxWrites,      \* MAX_BLOB_WRITE_ATTEMPTS
    Outages,        \* how often the database goes down
    Ambiguous,      \* a commit's answer may be lost
    MaxTime

VARIABLES
    now, db, outages,
    row,            \* the lead's row: count 0 for none
    keys,           \* idempotency receipts: the lead a key was used for
    receipts,       \* replay receipts: paths that were carried over
    blob, etag,     \* the Blob of a path, and its version
    used,           \* calls counted by a limiter, database and Blob
    request, replay,
    mailed,         \* keys whose mail the provider took
    answered,       \* submissions whose caller was told ok
    stored          \* submissions ever written, one by one

vars == <<now, db, outages, row, keys, receipts, blob, etag, used, request, replay, mailed, answered, stored>>

Paths == {<<l, "v2">> : l \in Leads} \cup {<<l, "legacy">> : l \in Legacy}
None == "none"
Empty == [count |-> 0, first |-> 0, last |-> 0, key |-> NoKey]
Idle == [pc |-> "idle", lead |-> None, key |-> NoKey, at |-> 0, route |-> None, read |-> Empty, tag |-> 0, tries |-> 0]
Resting == [pc |-> "idle", path |-> None, tag |-> 0, read |-> Empty, delete |-> FALSE]
Least(a, b) == IF a < b THEN a ELSE b
Most(a, b) == IF a < b THEN b ELSE a

LeadsAssumption ==
    /\ Legacy \subseteq Leads /\ Migrated \subseteq Legacy /\ None \notin Leads /\ NoKey \notin Keys
    /\ MaxTime \in Nat

Contents == [count : 0..(2 * Cardinality(Requests) + 2), first : 0..MaxTime, last : 0..MaxTime, key : Keys \cup {NoKey}]
TypeOK ==
    /\ now \in 1..MaxTime /\ db \in {"up", "down"} /\ outages \in 0..Outages
    /\ row \in [Leads -> Contents] /\ blob \in [Paths -> Contents]
    /\ \A l \in Leads : row[l].count > 0 => row[l].first \in 1..row[l].last
    /\ \A p \in Paths : blob[p].count > 0 => blob[p].first \in 1..blob[p].last
    /\ keys \in [Keys -> Leads \cup {None}] /\ receipts \subseteq Paths
    /\ \A l \in Leads : used["web"][l] <= Cardinality(Requests) /\ used["mobile"][l] <= Cardinality(Requests)
    /\ \A r \in Requests : request[r].tries < MaxWrites
    /\ mailed \subseteq Keys

Old(l) == [count |-> 1, first |-> 1, last |-> 1, key |-> NoKey]
Init ==
    /\ now = 1 /\ db = "up" /\ outages = 0
    /\ row = [l \in Leads |-> IF l \in Migrated THEN Old(l) ELSE Empty]
    /\ keys = [k \in Keys |-> None] /\ receipts = {}
    /\ blob = [p \in Paths |-> IF p[2] = "legacy" THEN Old(p[1]) ELSE Empty]
    /\ etag = [p \in Paths |-> 0]
    /\ used = [route \in {"web", "mobile"} |-> [l \in Leads |-> 0]]
    /\ request = [r \in Requests |-> Idle] /\ replay = [p \in Replays |-> Resting]
    /\ mailed = {} /\ answered = {}
    /\ stored = [l \in Leads |-> Cardinality({p \in Paths : p = <<l, "legacy">>})]

Tick == /\ now < MaxTime /\ now' = now + 1
        /\ UNCHANGED <<db, outages, row, keys, receipts, blob, etag, used, request, replay, mailed, answered, stored>>
Outage == /\ \/ db = "up" /\ outages < Outages /\ db' = "down" /\ outages' = outages + 1
             \/ db = "down" /\ db' = "up" /\ outages' = outages
          /\ UNCHANGED <<now, row, keys, receipts, blob, etag, used, request, replay, mailed, answered, stored>>

-----------------------------------------------------------------------------
(* The canonical lead                                                        *)

Submission(r) == [count |-> 1, first |-> request[r].at, last |-> request[r].at, key |-> request[r].key]

\* mergeFallbackLeads: the key of the Blob is that of the latest submission.
Merge(old, new) ==
    IF new.key # NoKey /\ new.key = old.key THEN old
    ELSE [count |-> old.count + new.count, first |-> Least(old.first, new.first), last |-> Most(old.last, new.last),
          key |-> IF new.last >= old.last THEN new.key ELSE old.key]

\* The insert ... on conflict (email, cta_source) do update.
Converge(old, new) ==
    IF old.count = 0 THEN [new EXCEPT !.key = NoKey]
    ELSE [count |-> old.count + new.count, first |-> Least(old.first, new.first), last |-> Most(old.last, new.last), key |-> NoKey]

\* mutant: the receipt's lead is not compared.
ReceiptOfAny(l, c) == IF c.key = NoKey \/ keys[c.key] = None THEN "free" ELSE "spent"
\* claimReceipt of an idempotency key: a key of another lead is an error.
Receipt(l, c) ==
    IF c.key = NoKey \/ keys[c.key] = None THEN "free" ELSE IF keys[c.key] = l THEN "spent" ELSE "conflict"
ClaimKey(l, c) == keys' = IF c.key = NoKey THEN keys ELSE [keys EXCEPT ![c.key] = l]

Done(r) == request' = [request EXCEPT ![r] = [Idle EXCEPT !.pc = "done"]]
To(r, pc) == request' = [request EXCEPT ![r].pc = pc]
Told(r) == answered' = answered \cup {[lead |-> request[r].lead, at |-> request[r].at]}

-----------------------------------------------------------------------------
(* The capture route                                                         *)

\* A call arrives with a body that is valid; the mobile route asks for a key.
Arrive(r) ==
    /\ request[r].pc = "idle"
    /\ \E l \in Leads, k \in Keys \cup {NoKey}, route \in Routes :
        /\ route = "mobile" => k # NoKey
        /\ request' = [request EXCEPT ![r] = [Idle EXCEPT !.pc = IF route = "web" THEN "capture" ELSE "limit",
                                              !.lead = l, !.key = k, !.at = now, !.route = route]]
    /\ UNCHANGED <<now, db, outages, row, keys, receipts, blob, etag, used, replay, mailed, answered, stored>>

\* consumeRateLimit counts every call, also the refused ones.
Consume(route, l) == used' = [used EXCEPT ![route][l] = @ + 1]
Allowed(route, l) == used[route][l] < EmailLimit

\* captureDownloadLeadInPostgres: limit, receipt and row in one transaction.
Capture(r) ==
    LET l == request[r].lead  c == Submission(r) IN
    /\ request[r].pc = "capture" /\ db = "up"
    /\ \/ /\ ~Allowed("web", l)                       \* 429
          /\ Consume("web", l) /\ Done(r)
          /\ UNCHANGED <<row, keys, answered, stored>>
       \/ /\ Allowed("web", l) /\ Receipt(l, c) = "conflict"  \* 409, rolled back
          /\ Done(r) /\ UNCHANGED <<row, keys, used, answered, stored>>
       \/ /\ Allowed("web", l) /\ Receipt(l, c) # "conflict"
          /\ Consume("web", l)
          /\ IF Receipt(l, c) = "spent" THEN UNCHANGED <<row, keys, stored>>
             ELSE /\ row' = [row EXCEPT ![l] = Converge(@, c)] /\ ClaimKey(l, c)
                  /\ stored' = [stored EXCEPT ![l] = @ + 1]
          /\ \/ Done(r) /\ Told(r)
             \/ Ambiguous /\ To(r, "read") /\ UNCHANGED answered
    /\ UNCHANGED <<now, db, outages, receipts, blob, etag, replay, mailed>>

\* The database cannot be used: the handler turns to the fallback.
Fallback(r) ==
    /\ request[r].pc = "capture" /\ db = "down" /\ To(r, "read")
    /\ UNCHANGED <<now, db, outages, row, keys, receipts, blob, etag, used, replay, mailed, answered, stored>>

\* consumeBlobRateLimit of the mobile route, whose counters are Blobs.
ConsumeBlob(r) ==
    /\ request[r].pc = "limit" /\ Consume("mobile", request[r].lead)
    /\ IF Allowed("mobile", request[r].lead) THEN To(r, "read") ELSE Done(r)
    /\ UNCHANGED <<now, db, outages, row, keys, receipts, blob, etag, replay, mailed, answered, stored>>

\* The Blob holds the submission: the web route answers, the mobile one mails.
Stored(r) == IF request[r].route = "web" THEN Done(r) /\ Told(r) ELSE To(r, "mail") /\ UNCHANGED answered

\* writeDeterministicDownloadLeadFallback, one attempt: read and merge ...
ReadBlob(r) ==
    LET p == <<request[r].lead, "v2">>  old == blob[p] IN
    /\ request[r].pc = "read"
    /\ IF old.count > 0 /\ Merge(old, Submission(r)) = old THEN Stored(r)
       ELSE /\ request' = [request EXCEPT ![r].pc = "put", ![r].read = old, ![r].tag = etag[p]]
            /\ UNCHANGED answered
    /\ UNCHANGED <<now, db, outages, row, keys, receipts, blob, etag, used, replay, mailed, stored>>

TriesLeft(r) == request[r].tries + 1 < MaxWrites
\* ... and put under the version that was read; another one's put between them
\* starts the next attempt, and after the last the route answers 503.
PutBlob(r) ==
    LET p == <<request[r].lead, "v2">> IN
    /\ request[r].pc = "put"
    /\ IF etag[p] = request[r].tag
       THEN /\ blob' = [blob EXCEPT ![p] = IF request[r].read.count = 0 THEN Submission(r)
                                           ELSE Merge(request[r].read, Submission(r))]
            /\ etag' = [etag EXCEPT ![p] = @ + 1]
            /\ stored' = [stored EXCEPT ![request[r].lead] = @ + 1]
            /\ Stored(r)
       ELSE /\ IF TriesLeft(r)
               THEN request' = [request EXCEPT ![r].pc = "read", ![r].tries = @ + 1, ![r].read = Empty, ![r].tag = 0]
               ELSE Done(r)
            /\ UNCHANGED <<blob, etag, answered, stored>>
    /\ UNCHANGED <<now, db, outages, row, keys, receipts, used, replay, mailed>>

\* The mail goes out under the submission's key, or the provider fails (502).
Mail(r) ==
    /\ request[r].pc = "mail" /\ Done(r)
    /\ \/ mailed' = mailed \cup {request[r].key} /\ Told(r)
       \/ UNCHANGED <<mailed, answered>>
    /\ UNCHANGED <<now, db, outages, row, keys, receipts, blob, etag, used, replay, stored>>

\* Blob storage fails, or the process dies: the caller is told nothing good.
Fail(r) ==
    /\ request[r].pc \notin {"idle", "done"} /\ Done(r)
    /\ UNCHANGED <<now, db, outages, row, keys, receipts, blob, etag, used, replay, mailed, answered, stored>>

-----------------------------------------------------------------------------
(* The replay route                                                          *)

\* A page is listed with the versions of that moment.
List(p) ==
    /\ replay[p].pc = "idle"
    /\ \E path \in Paths, delete \in BOOLEAN :
        /\ blob[path].count > 0
        /\ replay' = [replay EXCEPT ![p] = [pc |-> "read", path |-> path, tag |-> etag[path], read |-> Empty, delete |-> delete]]
    /\ UNCHANGED <<now, db, outages, row, keys, receipts, blob, etag, used, request, mailed, answered, stored>>

\* What is read is the Blob as it is now; one that is gone is passed over.
ReadListed(p) ==
    /\ replay[p].pc = "read"
    /\ replay' = [replay EXCEPT ![p] = IF blob[replay[p].path].count = 0 THEN Resting
                                       ELSE [@ EXCEPT !.pc = "commit", !.read = blob[replay[p].path]]]
    /\ UNCHANGED <<now, db, outages, row, keys, receipts, blob, etag, used, request, mailed, answered, stored>>

\* mutant: the receipt of a path is not asked for.
CarriedOverBefore(path) == path[2] = "legacy" /\ path[1] \in Migrated
\* A path is carried over once: its receipt, or the older tool's mark, says so.
CarriedOver(path) == path \in receipts \/ (path[2] = "legacy" /\ path[1] \in Migrated)

\* upsertCanonicalDownloadLead with the path's receipt, in one transaction.
Commit(p) ==
    LET path == replay[p].path  l == path[1]  c == replay[p].read IN
    /\ replay[p].pc = "commit" /\ db = "up"
    /\ IF ~CarriedOver(path) /\ Receipt(l, c) = "conflict"
       THEN replay' = [replay EXCEPT ![p] = Resting] /\ UNCHANGED <<row, keys, receipts>>
       ELSE /\ receipts' = receipts \cup {path}
            /\ IF CarriedOver(path) \/ Receipt(l, c) = "spent" THEN UNCHANGED <<row, keys>>
               ELSE row' = [row EXCEPT ![l] = Converge(@, c)] /\ ClaimKey(l, c)
            /\ \/ replay' = [replay EXCEPT ![p] = IF @.delete THEN [@ EXCEPT !.pc = "delete"] ELSE Resting]
               \/ Ambiguous /\ replay' = [replay EXCEPT ![p] = Resting]
    /\ UNCHANGED <<now, db, outages, blob, etag, used, request, mailed, answered, stored>>

\* Only the version that was listed is deleted (ifMatch).
AsListed(p) == etag[replay[p].path] = replay[p].tag
Delete(p) ==
    /\ replay[p].pc = "delete"
    /\ IF AsListed(p)
       THEN /\ blob' = [blob EXCEPT ![replay[p].path] = Empty]
            /\ etag' = [etag EXCEPT ![replay[p].path] = @ + 1]
       ELSE UNCHANGED <<blob, etag>>
    /\ replay' = [replay EXCEPT ![p] = Resting]
    /\ UNCHANGED <<now, db, outages, row, keys, receipts, used, request, mailed, answered, stored>>

\* The database or the storage fails, or the process dies.
Stop(p) ==
    /\ replay[p].pc # "idle" /\ replay' = [replay EXCEPT ![p] = Resting]
    /\ UNCHANGED <<now, db, outages, row, keys, receipts, blob, etag, used, request, mailed, answered, stored>>

Next ==
    \/ Tick \/ Outage
    \/ \E r \in Requests : \/ Arrive(r) \/ Capture(r) \/ Fallback(r) \/ ConsumeBlob(r)
                           \/ ReadBlob(r) \/ PutBlob(r) \/ Mail(r) \/ Fail(r)
    \/ \E p \in Replays : List(p) \/ ReadListed(p) \/ Commit(p) \/ Delete(p) \/ Stop(p)

Spec == Init /\ [][Next]_vars

-----------------------------------------------------------------------------
(* Properties                                                                *)

\* Whoever was told ok is in the database or in a Blob that waits for a replay,
\* whatever dies and however the two routes interleave (api/download-lead.ts).
AcceptedIsKept ==
    \A a \in answered : row[a.lead].count > 0 \/ blob[<<a.lead, "v2">>].count > 0

\* A replay that is repeated, or runs beside another one, counts nothing twice:
\* the row never has more than was written (replay.ts, delete-after-commit).
CountedOnce == \A l \in Leads : row[l].count <= stored[l]

\* A Blob is deleted only as it was replayed: what was merged into it since the
\* page was listed keeps it (replay.ts, ifMatch).
DeletedWasRead ==
    [][\A path \in DOMAIN blob :
        blob[path].count > 0 /\ blob'[path].count = 0
            => \E p \in DOMAIN replay : replay[p].pc = "delete" /\ replay[p].path = path /\ replay[p].read = blob[path]]_vars

\* docs/api-hardening-runbook.md:691: a lead "keeps first/last timestamps and
\* submission count": once no Blob is left, the row is as late as its answers.
LastSubmissionKept ==
    \A a \in answered : blob[<<a.lead, "v2">>].count = 0 => row[a.lead].last >= a.at
=============================================================================

--------------------------- MODULE CustomerUsage ---------------------------
(***************************************************************************)
(* The synchronisation of customer usage (api/_lib/customer-usage.ts): the   *)
(* daily incremental run, the operator's historical rescan, and the totals   *)
(* that are materialised on the profiles.                                    *)
(*                                                                           *)
(* Telemetry is another database, read only.  An event has the time it was   *)
(* received; it may become visible later than that.  A run reads the events  *)
(* of a window in batches, and a batch recounts and overwrites every bucket  *)
(* (an install and a day) near one that it touches.  Whether a download      *)
(* succeeded is told by an event of its own, of the same day or a later one,  *)
(* which counts for the day of its request if the recount sees both.          *)
(* Reading a batch and writing it are steps of their own, and every write is *)
(* a transaction: a run that dies keeps the batches it committed.            *)
(* A download is requested once.                                             *)
(***************************************************************************)
EXTENDS Integers, FiniteSets

CONSTANTS
    Events,           \* telemetry ids, numbers: they break ties of the times
    Bucket(_),        \* the install and day an event occurred
    Buckets,
    Request(_),       \* the download request an event tells the outcome of, or 0
    Overlap,          \* how far a run looks behind its checkpoint
    Lateness,         \* how late an event may become visible
    BatchSize,
    Rescans,          \* "none", "apart": never while a run works, or "any"
    MaxDay            \* bound: the last day

VARIABLES
    day,          \* the current day
    source,       \* visible events: [received, arrived], both days
    state,        \* the sync state row: checkpoint, day of the last completion
    sync,         \* the run that holds the sync lock
    rescan, file, \* the rescan that holds the rescan lock; its checkpoint file
    daily,        \* the stored buckets: the events and the finished requests each one counts
    totals,       \* the events the materialised totals count
    first, done   \* day of the run that laid the first checkpoint; the day the last completed run began

vars == <<day, source, state, sync, rescan, file, daily, totals, first, done>>

Never == -1
Start == <<Never, 0>>
Position(e) == <<source[e].received, e>>
\* compareCustomerUsageHighWater
Before(x, y) == x[1] < y[1] \/ (x[1] = y[1] /\ x[2] < y[2])
Visible == {e \in Events : source[e].arrived # Never}
Install(b) == b[1]
Nothing == [seen |-> {}, settled |-> {}]

\* A run: no lock, lock taken, scanning, a batch read, the window done.
Idle == [phase |-> "idle", began |-> Never, cursor |-> Start, upper |-> Start, next |-> Start, counts |-> [b \in {} |-> {}]]

Positions == (Never - Overlap..MaxDay) \X (Events \cup {0})
RunTypes == {"idle", "begun", "scanning", "batch", "ending"}

TypeOK ==
    /\ day \in 0..MaxDay
    /\ \A e \in Events : source[e].arrived \in {Never} \cup 0..day /\ source[e].received <= source[e].arrived
    /\ state.checkpoint \in Positions /\ state.completed \in {Never} \cup 0..day
    /\ sync.phase \in RunTypes /\ sync.cursor \in Positions
    /\ rescan.phase \in RunTypes /\ file \in Positions
    /\ \A b \in Buckets : /\ daily[b].settled \subseteq daily[b].seen
                          /\ daily[b].seen \subseteq {e \in Visible : Bucket(e) = b}
    /\ totals \subseteq Visible
    /\ first \in {Never} \cup 0..day /\ done \in {Never} \cup 0..day

Init ==
    /\ day = 0 /\ source = [e \in Events |-> [received |-> Never, arrived |-> Never]]
    /\ state = [checkpoint |-> Start, completed |-> Never]
    /\ sync = Idle /\ rescan = Idle /\ file = Start
    /\ daily = [b \in Buckets |-> Nothing] /\ totals = {} /\ first = Never /\ done = Never

-----------------------------------------------------------------------------
Day == day < MaxDay /\ day' = day + 1
       /\ UNCHANGED <<source, state, sync, rescan, file, daily, totals, first, done>>

\* An event becomes visible, received then or up to Lateness days before.
Arrive(e) ==
    /\ source[e].arrived = Never
    /\ \E r \in (day - Lateness)..day :
         r >= 0 /\ source' = [source EXCEPT ![e] = [received |-> r, arrived |-> day]]
    /\ UNCHANGED <<day, state, sync, rescan, file, daily, totals, first, done>>

-----------------------------------------------------------------------------
(* Reading. *)
\* readSourceUpperHighWater: the newest visible event at or after the day.
Upper(lower) ==
    LET seen == {e \in Visible : source[e].received >= lower} IN
    IF seen = {} THEN Start
    ELSE Position(CHOOSE e \in seen : \A f \in seen : ~Before(Position(e), Position(f)))

\* buildSourceAggregateSql: the first BatchSize events after the cursor, up to
\* the upper bound.
InWindow(cursor, upper) ==
    {e \in Visible : Before(cursor, Position(e)) /\ ~Before(upper, Position(e))}
Batch(cursor, upper) ==
    {e \in InWindow(cursor, upper) :
       Cardinality({f \in InWindow(cursor, upper) : Before(Position(f), Position(e))}) < BatchSize}
LastOf(batch) == Position(CHOOSE e \in batch : \A f \in batch : ~Before(Position(e), Position(f)))
Touched(batch) == {Bucket(e) : e \in batch}

\* What a bucket counts of the events that are seen.
CountOf(b, events) ==
    LET own == {e \in events : Bucket(e) = b} IN
    [seen |-> own, settled |-> own \cap {Request(e) : e \in events}]

\* Mutant: a batch counts what it read itself, not the whole bucket.
RecountBatch(batch, upper) == [b \in Touched(batch) |-> CountOf(b, batch)]

\* source_events and days: the events up to the upper bound of the days within
\* two of a touched one, and a recount from them of every bucket they are in.
Near(b, batch) ==
    \E t \in Touched(batch) : Install(t) = Install(b) /\ b[2] - t[2] \in -2..2
Recount(batch, upper) ==
    LET events == {e \in Visible : ~Before(upper, Position(e)) /\ Near(Bucket(e), batch)} IN
    [b \in Touched(events) |-> CountOf(b, events)]

\* upsertDailyAggregate overwrites what is stored.  Mutant: one bucket takes all.
UpsertedAll(counts) ==
    [b \in Buckets |->
       [seen |-> UNION {counts[c].seen : c \in DOMAIN counts} \cup daily[b].seen,
        settled |-> daily[b].settled]]
Upserted(counts) == [b \in Buckets |-> IF b \in DOMAIN counts THEN counts[b] ELSE daily[b]]
Later(x, y) == IF Before(x, y) THEN y ELSE x

-----------------------------------------------------------------------------
(* runCustomerUsageSync *)
\* beginCustomerUsageRun: once a day, and again after a run that died.
Begin ==
    /\ sync.phase = "idle" /\ state.completed # day
    /\ Rescans = "apart" => rescan.phase = "idle"
    /\ sync' = [Idle EXCEPT !.phase = "begun", !.began = day]
    /\ state' = [state EXCEPT !.completed = Never]
    /\ UNCHANGED <<day, source, rescan, file, daily, totals, first, done>>

\* The window opens Overlap before the checkpoint.  Mutant: at the checkpoint.
AtCheckpoint(now) == IF state.checkpoint = Start THEN now - Overlap ELSE state.checkpoint[1]
Lower(now) == (IF state.checkpoint = Start THEN now ELSE state.checkpoint[1]) - Overlap

Open ==
    /\ sync.phase = "begun"
    /\ sync' = [sync EXCEPT !.phase = "scanning", !.cursor = <<Lower(sync.began), 0>>, !.upper = Upper(Lower(sync.began))]
    /\ UNCHANGED <<day, source, state, rescan, file, daily, totals, first, done>>

ReadBatch ==
    LET batch == Batch(sync.cursor, sync.upper) IN
    /\ sync.phase = "scanning"
    /\ sync' = IF batch = {} THEN [sync EXCEPT !.phase = "ending"]
               ELSE [sync EXCEPT !.phase = "batch", !.next = LastOf(batch), !.counts = Recount(batch, sync.upper)]
    /\ UNCHANGED <<day, source, state, rescan, file, daily, totals, first, done>>

\* commitCustomerUsageCheckpoint.  Mutant: it commits the end of the window.
WindowEnd(run) == run.upper
BatchEnd(run) == run.next

WriteBatch ==
    /\ sync.phase = "batch"
    /\ daily' = Upserted(sync.counts)
    /\ state' = [state EXCEPT !.checkpoint = Later(@, BatchEnd(sync))]
    /\ sync' = [sync EXCEPT !.phase = "scanning", !.cursor = sync.next, !.counts = Idle.counts]
    /\ first' = IF first = Never THEN sync.began ELSE first
    /\ UNCHANGED <<day, source, rescan, file, totals, done>>

\* materializeCustomerUsageProfiles, completeCustomerUsageRun.
Counted == UNION {daily[b].seen : b \in Buckets}

Complete ==
    /\ sync.phase = "ending"
    /\ totals' = Counted
    /\ state' = [checkpoint |-> Later(state.checkpoint, sync.upper), completed |-> sync.began]
    /\ sync' = Idle /\ done' = sync.began
    /\ UNCHANGED <<day, source, rescan, file, daily, first>>

\* The process dies at any point: the session ends and its lock is free.
Die ==
    /\ sync.phase # "idle" /\ sync' = Idle
    /\ UNCHANGED <<day, source, state, rescan, file, daily, totals, first, done>>

-----------------------------------------------------------------------------
(* runCustomerUsageSessionRescan, and the checkpoint file of                *)
(* scripts/rescan-customer-usage.mjs.                                       *)
OpenRescan ==
    /\ rescan.phase = "idle"
    /\ Rescans # "none" /\ (Rescans = "apart" => sync.phase = "idle")
    /\ Visible # {} /\ ~Before(Upper(0), file)
    /\ rescan' = [Idle EXCEPT !.phase = "scanning", !.cursor = file, !.upper = Upper(0)]
    /\ UNCHANGED <<day, source, state, sync, file, daily, totals, first, done>>

RescanBatch ==
    LET batch == Batch(rescan.cursor, rescan.upper) IN
    /\ rescan.phase = "scanning"
    /\ rescan' = IF batch = {} THEN [rescan EXCEPT !.phase = "ending"]
                 ELSE [rescan EXCEPT !.phase = "batch", !.next = LastOf(batch), !.counts = Recount(batch, rescan.upper)]
    /\ UNCHANGED <<day, source, state, sync, file, daily, totals, first, done>>

\* requireExistingInstall: the buckets of an install no run has met are left
\* to the run that meets it.
Known(b) == \E c \in Buckets : Install(c) = Install(b) /\ daily[c].seen # {}

RescanWrite ==
    /\ rescan.phase = "batch"
    /\ daily' = Upserted([b \in {c \in DOMAIN rescan.counts : Known(c)} |-> rescan.counts[b]])
    /\ file' = rescan.next
    /\ rescan' = [rescan EXCEPT !.phase = "scanning", !.cursor = rescan.next, !.counts = Idle.counts]
    /\ UNCHANGED <<day, source, state, sync, totals, first, done>>

\* The window is done, or the batches the operator allowed are.
EndRescan ==
    /\ rescan.phase \in {"scanning", "ending"}
    /\ totals' = Counted /\ rescan' = Idle
    /\ UNCHANGED <<day, source, state, sync, file, daily, first, done>>

DieRescan ==
    /\ rescan.phase # "idle" /\ rescan' = Idle
    /\ UNCHANGED <<day, source, state, sync, file, daily, totals, first, done>>

Next ==
    \/ Day
    \/ \E e \in Events : Arrive(e)
    \/ Begin \/ Open \/ ReadBatch \/ WriteBatch \/ Complete \/ Die
    \/ OpenRescan \/ RescanBatch \/ RescanWrite \/ EndRescan \/ DieRescan

Spec == Init /\ [][Next]_vars

-----------------------------------------------------------------------------
(* Properties. *)
\* NothingIsMissed: when a run completes, the totals count every event that
\* was visible before the run began, whatever batches it was cut into, whatever
\* runs died before it, and however late the event became visible.  Only what
\* is older than the window of the run that laid the first checkpoint is left to a rescan.
NothingIsMissed ==
    \A e \in Visible :
      (source[e].arrived < done /\ first # Never /\ source[e].received >= first - Overlap) => e \in totals

\* CheckpointKeeps: the checkpoint of the runs only moves forward, and an event
\* that is counted, or a download that is counted as finished on the day it was
\* requested, is never counted away again, by a run, a rescan or a dead process.
\* A download finished on a later day may be: its request's day is recounted
\* beside a day from which its outcome is out of sight.
CheckpointKeeps ==
    [][/\ ~Before(state'.checkpoint, state.checkpoint)
       /\ \A b \in Buckets :
            /\ daily[b].seen \subseteq daily'[b].seen
            /\ \A e \in daily[b].seen :
                 Request(e) \in daily[b].settled => Request(e) \in daily'[b].settled]_<<state, daily>>
=============================================================================

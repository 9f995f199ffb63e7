-------------------------- MODULE MigrationLedger --------------------------
(* The schema migrations of scripts/apply-postgres-migrations.mjs: operators   *)
(* apply the files of their checkouts, all or one of them, or record a known    *)
(* schema as a baseline; a run may fail or die anywhere. A file is its place in *)
(* the order, a checkout a function from files to checksums, a schema the       *)
(* sequence of what was run. Core and the row security after it are the files   *)
(* of the known baseline.                                                       *)
EXTENDS Integers, Sequences, SequencesExt, FiniteSets

CONSTANTS
    Migrators,          \* operators
    Trees,              \* the checkouts' migration files
    Core, RlsFile,      \* the files of the known baseline
    KnownSum,           \* their checksum
    OnlyFile, Prerequisite,
    MaxRuns,            \* bound on the runs
    Nobody, None

VARIABLES schema, ledger, lock, migrator, runs
migrationVars == <<schema, ledger, lock, migrator, runs>>

Rest == [stage |-> "idle"]
Known(files) == [i \in 1..Cardinality(files) |-> [file |-> i, sum |-> KnownSum]]
Init ==
    /\ schema \in {<<>>, Known(Core), Known(Core \cup {RlsFile})}
    /\ ledger = None /\ lock = Nobody
    /\ migrator = [o \in Migrators |-> Rest]
    /\ runs = 0

\* The baseline files are there as they are known.
ValidFiles(tree) ==
    /\ Core \cup {RlsFile} \subseteq DOMAIN tree
    /\ \A f \in Core \cup {RlsFile} : tree[f] = KnownSum
HasProductSchema == schema # <<>>
Rows == IF ledger = None THEN {} ELSE ledger
\* Every row names a file of the checkout with its checksum.
Classified(tree, rows) == \A row \in rows : row.file \in DOMAIN tree /\ row.sum = tree[row.file]
Applied(rows) == {row.file : row \in rows}
PendingFiles(tree, rows, only) ==
    {f \in DOMAIN tree \ Applied(rows) : only => f = OnlyFile}
SelectRefused(tree, rows, only) ==
    \/ ~Classified(tree, rows)
    \/ only /\ (OnlyFile \notin DOMAIN tree \/ Prerequisite \notin Applied(rows))
\* The schema is the core with or without row security, and nothing else.
KnownSchema == schema \in {Known(Core), Known(Core \cup {RlsFile})}

\* A mutant: an empty ledger beside a product schema is taken for a new one.
ApplyEager(only) ==
    IF only THEN ledger = None ELSE ledger = None /\ HasProductSchema
ApplyRefused(only) ==
    \/ only /\ ledger = None
    \/ HasProductSchema /\ Rows = {}
BaselineRefused == ~KnownSchema \/ Rows # {}

Stop(o) ==
    /\ migrator' = [migrator EXCEPT ![o] = Rest]
    /\ lock' = Nobody
Created == IF ledger = None THEN {} ELSE ledger

Start(o, tree, mode, only) ==
    /\ migrator[o] = Rest /\ lock = Nobody /\ runs < MaxRuns
    /\ ValidFiles(tree)
    /\ lock' = o /\ runs' = runs + 1
    /\ migrator' = [migrator EXCEPT ![o] = [stage |-> mode, tree |-> tree, only |-> only]]
    /\ UNCHANGED <<schema, ledger>>
\* The ledger is created in a transaction of its own before it is read.
PrepareApply(o) ==
    /\ migrator[o].stage = "apply"
    /\ IF ApplyRefused(migrator[o].only)
       THEN Stop(o) /\ UNCHANGED ledger
       ELSE /\ ledger' = Created
            /\ migrator' = [migrator EXCEPT ![o].stage = "select"]
            /\ UNCHANGED lock
    /\ UNCHANGED <<schema, runs>>
SelectPending(o) ==
    /\ migrator[o].stage = "select"
    /\ LET t == migrator[o].tree
           only == migrator[o].only
       IN  IF SelectRefused(t, Rows, only) THEN Stop(o)
           ELSE /\ migrator' = [migrator EXCEPT ![o] =
                     [stage |-> "run", tree |-> t,
                      pending |-> SetToSortSeq(PendingFiles(t, Rows, only), <)]]
                /\ UNCHANGED lock
    /\ UNCHANGED <<schema, ledger, runs>>
\* One transaction runs the file and records it, or neither.
RunFile(o) ==
    /\ migrator[o].stage = "run"
    /\ LET todo == migrator[o].pending IN
       IF todo = <<>> THEN Stop(o) /\ UNCHANGED <<schema, ledger>>
       ELSE \/ LET done == [file |-> Head(todo), sum |-> migrator[o].tree[Head(todo)]] IN
               /\ Head(todo) \notin Applied(Rows)
               /\ schema' = Append(schema, done)
               /\ ledger' = ledger \cup {done}
               /\ migrator' = [migrator EXCEPT ![o].pending = Tail(@)]
               /\ UNCHANGED lock
            \/ Stop(o) /\ UNCHANGED <<schema, ledger>>
    /\ UNCHANGED runs
PrepareBaseline(o) ==
    /\ migrator[o].stage = "baseline"
    /\ IF BaselineRefused THEN Stop(o) /\ UNCHANGED ledger
       ELSE /\ ledger' = Created
            /\ migrator' = [migrator EXCEPT ![o] = [stage |-> "record", verified |-> Range(schema)]]
            /\ UNCHANGED lock
    /\ UNCHANGED <<schema, runs>>
RecordBaseline(o) ==
    /\ migrator[o].stage = "record"
    /\ ledger' = ledger \cup migrator[o].verified
    /\ Stop(o)
    /\ UNCHANGED <<schema, runs>>
\* The process ends and its session's lock with it.
Die(o) ==
    /\ migrator[o] # Rest
    /\ Stop(o)
    /\ UNCHANGED <<schema, ledger, runs>>

Next ==
    \E o \in Migrators :
      \/ \E t \in Trees :
           \/ \E only \in BOOLEAN : Start(o, t, "apply", only)
           \/ Start(o, t, "baseline", FALSE)
      \/ PrepareApply(o) \/ SelectPending(o) \/ RunFile(o)
      \/ PrepareBaseline(o) \/ RecordBaseline(o) \/ Die(o)

TypeOK ==
    /\ ledger # None => \A row \in ledger : row.file \in Nat
    /\ \A o \in DOMAIN migrator : migrator[o] # Rest => lock = o
\* No file runs twice, and none is selected before its prerequisite.
RunsOnce ==
    /\ \A i, j \in DOMAIN schema : schema[i].file = schema[j].file => i = j
    /\ \A i \in DOMAIN schema : schema[i].file = OnlyFile /\ OnlyFile # Prerequisite =>
         \/ \E j \in DOMAIN schema : schema[j].file = Prerequisite
\* A ledger with rows says exactly what the schema is made of, checksums
\* included, wherever a run failed or died.
LedgerIsSchema == Rows # {} => Rows = Range(schema)
\* Whatever happened, some checkout's operator can go on: apply is open, or the
\* baseline is.
SomeoneCanGoOn ==
    lock = Nobody =>
      \/ ~ApplyRefused(FALSE) /\ \E t \in Trees : ValidFiles(t) /\ ~SelectRefused(t, Rows, FALSE)
      \/ ~BaselineRefused
=============================================================================

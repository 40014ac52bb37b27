-------------------------- MODULE RailwayMigration --------------------------
(***************************************************************************)
(* scripts/migrate_railway_to_aws.py: the rows of the Railway database     *)
(* (SQLite) go table by table into PostgreSQL, encrypted configuration     *)
(* values into one secret of AWS Secrets Manager, report files into S3.    *)
(*                                                                         *)
(* A table's rows are read in one order, flushed one by one and committed  *)
(* together. A row that raises is counted as failed and the transaction is *)
(* rolled back; the loop goes on. The script may be killed, or lose any of *)
(* the three services, at any step, and is meant to be run again until it  *)
(* exits with 0.                                                           *)
(***************************************************************************)
EXTENDS Naturals, Sequences, FiniteSets

CONSTANTS
  Rows,      \* the rows of the source
  Source,    \* the rows of each table, in the order they are read
  Parents,   \* the rows a row refers to by foreign keys
  Secrets,   \* config rows whose key starts with _sec_ and whose value is not empty
  Files,     \* the files of each report: JSON, speech, recording
  Seeded,    \* rows the application has put into the target before the first run
  Refused,   \* rows that violate a unique constraint of the target
  Envs,      \* what the operator may have set: SECRET_KEY, AWS_REGION, the bucket
  MaxFaults  \* bound on kills and lost connections

MIGRATION_ORDER ==
  <<"roles", "users", "use_cases", "topics", "user_use_cases", "caller_profiles",
    "config", "reports">>

Tables  == DOMAIN MIGRATION_ORDER
Config  == 7
Reports == 8

RowsOf(t) == {Source[t][i] : i \in DOMAIN Source[t]}

ASSUME SourceAssumption ==
  /\ Source \in [Tables -> Seq(Rows)]
  /\ Rows = UNION {RowsOf(t) : t \in Tables}
  /\ \A t, u \in Tables : t # u => RowsOf(t) \cap RowsOf(u) = {}
  /\ Secrets \subseteq RowsOf(Config)

ASSUME ConstantsAssumption ==
  /\ Parents \in [Rows -> SUBSET Rows]
  /\ Seeded \subseteq Rows
  /\ Refused \subseteq Rows
  /\ Envs \subseteq [key : {"right", "wrong", "none"}, region : BOOLEAN, bucket : BOOLEAN]
  /\ MaxFaults \in Nat

ASSUME FilesAssumption == DOMAIN Files = RowsOf(Reports)

AllFiles == UNION {Files[r] : r \in RowsOf(Reports)}

Full == [key |-> "right", region |-> TRUE, bucket |-> TRUE]

\* The keys of the secret that are not the migration's: DATABASE_URL, ...
Unrelated == "unrelated"

VARIABLES
  target,   \* committed rows of the target: whose content each has
  secret,   \* keys of the Secrets Manager secret
  objects,  \* report files in S3
  exit,     \* how the last run ended; "running" while one goes on
  env,      \* the environment of this run
  table,    \* the table being migrated
  at,       \* the next of its rows
  tx,       \* rows flushed but not committed
  toStore,  \* secrets_to_store
  failed,   \* total_failed > 0
  faults    \* kills and lost connections so far

stores == <<target, secret, objects>>
run    == <<exit, env, table, at, tx, toStore, failed>>
vars   == <<stores, run, faults>>

Init ==
  /\ target = [r \in Rows |-> IF r \in Seeded THEN "other" ELSE "absent"]
  /\ secret = {Unrelated}
  /\ objects = {}
  /\ exit = "none"
  /\ env = Full
  /\ table = 1
  /\ at = 1
  /\ tx = {}
  /\ toStore = {}
  /\ failed = FALSE
  /\ faults = 0

-----------------------------------------------------------------------------
(***************************************************************************)
(* One run. A fault costs one of MaxFaults.                                *)
(***************************************************************************)
Fault == faults < MaxFaults /\ faults' = faults + 1

\* run_migration begins: nothing is remembered of an earlier run
Start(e) ==
  /\ exit # "running"
  /\ exit' = "running"
  /\ env' = e
  /\ table' = 1
  /\ at' = 1
  /\ tx' = {}
  /\ toStore' = {}
  /\ failed' = FALSE
  /\ UNCHANGED <<stores, faults>>

Pending == exit = "running" /\ table \in Tables /\ at <= Len(Source[table])
Row     == Source[table][at]

Present(r) == target[r] # "absent" \/ r \in tx

\* Fault: every config value is taken for a secret.
EveryConfigValue(r) == table = Config /\ env.key # "none"

\* A secret is decrypted for Secrets Manager; without a key it is a row like any other
IsSecret(r) == r \in Secrets /\ env.key # "none"

\* The files of a report, each put on its own; one that fails is counted
Uploads(r) ==
  IF table = Reports /\ env.bucket /\ env.region
  THEN \/ /\ objects' = objects \cup Files[r]
          /\ UNCHANGED <<failed, faults>>
       \/ /\ Fault
          /\ \E up \in SUBSET Files[r] : up # Files[r] /\ objects' = objects \cup up
          /\ failed' = TRUE
  ELSE UNCHANGED <<objects, failed, faults>>

\* Fault: an existing row takes the source's content.
MergeRow ==
  /\ Pending /\ ~IsSecret(Row) /\ Present(Row)
  /\ Uploads(Row)
  /\ tx' = tx \cup {Row}
  /\ at' = at + 1
  /\ UNCHANGED <<target, secret, exit, env, table, toStore>>

\* Fault: the files of an existing row are taken to be there.
SkipFiles ==
  /\ Pending /\ ~IsSecret(Row) /\ Present(Row)
  /\ at' = at + 1
  /\ UNCHANGED <<stores, exit, env, table, tx, toStore, failed, faults>>

\* Idempotency: a row that exists is left as it is, but its files are put again
SkipRow ==
  /\ Pending /\ ~IsSecret(Row) /\ Present(Row)
  /\ Uploads(Row)
  /\ at' = at + 1
  /\ UNCHANGED <<target, secret, exit, env, table, tx, toStore>>

Accepted(r) == r \notin Refused /\ \A p \in Parents[r] : Present(p)

\* add and flush
AddRow ==
  /\ Pending /\ ~IsSecret(Row) /\ ~Present(Row) /\ Accepted(Row)
  /\ tx' = tx \cup {Row}
  /\ Uploads(Row)
  /\ at' = at + 1
  /\ UNCHANGED <<target, secret, exit, env, table, toStore>>

CollectSecret ==
  /\ Pending /\ IsSecret(Row) /\ env.key = "right"
  /\ toStore' = toStore \cup {Row}
  /\ at' = at + 1
  /\ UNCHANGED <<stores, exit, env, table, tx, failed, faults>>

\* Fault: a row that raises is logged and not counted.
Uncounted == failed' = failed

\* `failed += 1`
Counted == failed' = TRUE

\* except: roll back what this table has flushed, and go on. The database refuses
\* the row, the value of a secret does not decrypt, or the connection is lost.
FailRow ==
  /\ Pending
  /\ \/ ~IsSecret(Row) /\ ~Present(Row) /\ ~Accepted(Row) /\ UNCHANGED faults
     \/ IsSecret(Row) /\ env.key = "wrong" /\ UNCHANGED faults
     \/ ~IsSecret(Row) /\ Fault
  /\ tx' = {}
  /\ Counted
  /\ at' = at + 1
  /\ UNCHANGED <<stores, exit, env, table, toStore>>

Committed == [r \in Rows |-> IF r \in tx THEN "source" ELSE target[r]]

\* target_session.commit, and on to the next table; config stores its secrets first
Commit ==
  /\ exit = "running" /\ table \in Tables /\ at = Len(Source[table]) + 1
  /\ target' = Committed
  /\ tx' = {}
  /\ IF table = Config /\ toStore # {} /\ env.region
     THEN at' = at + 1 /\ table' = table
     ELSE at' = 1 /\ table' = table + 1
  /\ UNCHANGED <<secret, objects, exit, env, toStore, failed, faults>>

\* store_secrets_in_aws: get, merge, put. If the secret cannot be read, it is taken
\* to be empty. The answer to a put may be lost.
StoreSecrets ==
  /\ exit = "running" /\ table = Config /\ at = Len(Source[table]) + 2
  /\ \/ /\ secret' = secret \cup toStore
        /\ UNCHANGED <<failed, faults>>
     \/ /\ Fault
        /\ secret' = toStore
        /\ UNCHANGED failed
     \/ /\ Fault
        /\ secret' \in {secret, secret \cup toStore}
        /\ failed' = TRUE
  /\ at' = 1
  /\ table' = table + 1
  /\ UNCHANGED <<target, objects, exit, env, tx, toStore>>

\* The summary: a failure anywhere makes the exit code 1
Finish ==
  /\ exit = "running" /\ table \notin Tables
  /\ exit' = IF failed THEN "1" ELSE "0"
  /\ UNCHANGED <<stores, env, table, at, tx, toStore, failed, faults>>

\* The script is killed, or a query or a commit raises; a commit that raises may
\* have taken place.
Dies ==
  /\ exit = "running"
  /\ Fault
  /\ exit' = "died"
  /\ \/ UNCHANGED target
     \/ table \in Tables /\ at = Len(Source[table]) + 1 /\ target' = Committed
  /\ tx' = {}
  /\ UNCHANGED <<secret, objects, env, table, at, toStore, failed>>

Step == SkipRow \/ AddRow \/ CollectSecret \/ FailRow \/ Commit \/ StoreSecrets \/ Finish

Next == (\E e \in Envs : Start(e)) \/ Step \/ Dies

\* A run goes on; the operator repeats it, with everything set, until it exits with 0
Repeat == ~(exit = "0" /\ env = Full) /\ Start(Full)

Spec == Init /\ [][Next]_vars /\ WF_vars(Step) /\ SF_vars(Repeat)

-----------------------------------------------------------------------------
(***************************************************************************)
(* Properties.                                                             *)
(***************************************************************************)
\* The script's variables stay within their types.
TypeOK ==
  /\ target \in [Rows -> {"absent", "source", "other"}]
  /\ secret \subseteq Secrets \cup {Unrelated}
  /\ objects \subseteq AllFiles
  /\ exit \in {"none", "running", "0", "1", "died"}
  /\ env \in Envs \cup {Full}
  /\ table \in 1..(Len(MIGRATION_ORDER) + 1)
  /\ at \in Nat \ {0}
  /\ tx \subseteq Rows
  /\ toStore \subseteq Secrets
  /\ failed \in BOOLEAN
  /\ faults \in Nat

\* What was to be migrated of one row: the row, or the secret, and its files
Migrated(r) ==
  /\ IF r \in Secrets THEN r \in secret ELSE target[r] # "absent"
  /\ r \in RowsOf(Reports) => Files[r] \subseteq objects

Complete == \A r \in Rows : Migrated(r)

\* "0 - All records migrated successfully": with everything set, a run that exits
\* with 0 leaves no row, secret or file behind, whatever earlier runs failed at.
ExitZeroIsComplete == exit = "0" /\ env = Full => Complete

\* Re-running changes no row that is in the target, whosever content it has.
ExistingRowsKept ==
  [][\A r \in Rows : target[r] # "absent" => target'[r] = target[r]]_vars

\* Repeated until it exits with 0, the script migrates everything the target does
\* not refuse, for good, in spite of kills and lost connections.
EventuallyComplete == <>[]Complete
=============================================================================

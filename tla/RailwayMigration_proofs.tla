----------------------- MODULE RailwayMigration_proofs -----------------------
(***************************************************************************)
(* Theorems about RailwayMigration, for every source and every bound.      *)
(***************************************************************************)
EXTENDS RailwayMigration, TLAPS

-----------------------------------------------------------------------------
(***************************************************************************)
(* What ExitZeroIsComplete rests on: the inductive invariant.              *)
(***************************************************************************)
\* A row that the run has passed: flushed, or collected, and its files uploaded
Handled(r) ==
  /\ IF r \in Secrets THEN r \in toStore ELSE Present(r)
  /\ r \in RowsOf(Reports) => Files[r] \subseteq objects

\* After its rows, config has one more step: its secrets are stored
AtInTable ==
  exit = "running" /\ table \in Tables =>
    \/ at <= Len(Source[table]) + 1
    \/ table = Config /\ at = Len(Source[Config]) + 2 /\ tx = {}

\* A flushed row was not there before
FlushedIsNew == \A r \in tx : target[r] = "absent"

\* As long as nothing has failed, a run with everything set leaves nothing behind it -
\* also when it replaces a secret it could not read.
NothingLeftBehind ==
  exit = "running" /\ env = Full /\ ~failed =>
    /\ \A t \in Tables : t < table => \A r \in RowsOf(t) : Migrated(r)
    /\ table \in Tables => \A i \in DOMAIN Source[table] : i < at => Handled(Source[table][i])

\* The inductive invariant: what a run that has not failed so far has done, and that its
\* exit code can be relied on.
Inductive ==
  /\ AtInTable
  /\ FlushedIsNew
  /\ NothingLeftBehind
  /\ ExitZeroIsComplete

LEMMA TablesAreEight == Tables = 1..8 /\ Len(MIGRATION_ORDER) = 8
BY DEF Tables, MIGRATION_ORDER

\* A row belongs to one table
LEMMA RowsOfTables ==
  /\ \A t \in Tables : RowsOf(t) \subseteq Rows
  /\ \A t \in Tables : \A i \in DOMAIN Source[t] : Source[t][i] \in RowsOf(t)
  /\ \A t \in Tables : Len(Source[t]) \in Nat /\ DOMAIN Source[t] = 1..Len(Source[t])
<1>1. \A t \in Tables : Source[t] \in Seq(Rows)
  BY SourceAssumption
<1>2. QED
  BY <1>1 DEF RowsOf

LEMMA PendingRow ==
  ASSUME TypeOK, Pending
  PROVE  /\ at \in DOMAIN Source[table]
         /\ Row \in RowsOf(table)
         /\ Row \in Rows
BY RowsOfTables DEF Pending, Row, TypeOK

LEMMA CommittedType == ASSUME TypeOK PROVE Committed \in [Rows -> {"absent", "source", "other"}]
BY DEF TypeOK, Committed

LEMMA UploadsTypes ==
  ASSUME TypeOK, NEW r \in RowsOf(table), table \in Tables, Uploads(r)
  PROVE  objects' \subseteq AllFiles /\ failed' \in BOOLEAN /\ faults' \in Nat
<1>1. table = Reports => Files[r] \subseteq AllFiles
  BY DEF AllFiles
<1>2. CASE UNCHANGED <<objects, failed, faults>>
  BY <1>2 DEF TypeOK
<1>3. CASE table = Reports /\ objects' = objects \cup Files[r] /\ UNCHANGED <<failed, faults>>
  BY <1>1, <1>3 DEF TypeOK
<1>4. ASSUME table = Reports, NEW up \in SUBSET Files[r], Fault, objects' = objects \cup up,
             failed' = TRUE
      PROVE  objects' \subseteq AllFiles /\ failed' \in BOOLEAN /\ faults' \in Nat
  BY <1>1, <1>4 DEF TypeOK, Fault
<1>5. QED
  BY <1>2, <1>3, <1>4 DEF Uploads

LEMMA TypeInit == Init => TypeOK
<1> SUFFICES ASSUME Init PROVE TypeOK
  OBVIOUS
<1>1. table \in 1..(Len(MIGRATION_ORDER) + 1)
  BY TablesAreEight DEF Init
<1>2. target \in [Rows -> {"absent", "source", "other"}]
  BY DEF Init
<1>3. secret \subseteq Secrets \cup {Unrelated} /\ objects \subseteq AllFiles
  BY DEF Init
<1>4. at \in Nat \ {0} /\ faults \in Nat
  BY DEF Init
<1>5. failed \in BOOLEAN
  BY DEF Init
<1>6. QED
  BY <1>1, <1>2, <1>3, <1>4, <1>5 DEF Init, TypeOK

LEMMA TypeStep == TypeOK /\ [Next]_vars => TypeOK'
<1> SUFFICES ASSUME TypeOK, [Next]_vars PROVE TypeOK'
  OBVIOUS
<1> USE TablesAreEight
<1>1. ASSUME NEW e \in Envs, Start(e) PROVE TypeOK'
  <2>1. UNCHANGED <<target, secret, objects>> /\ table' \in 1..(Len(MIGRATION_ORDER) + 1)
    BY <1>1 DEF Start, stores
  <2>2. failed' \in BOOLEAN
    BY <1>1 DEF Start
  <2>3. at' \in Nat \ {0} /\ env' \in Envs \cup {Full} /\ faults' \in Nat
    BY <1>1 DEF Start, TypeOK
  <2>4. QED
    BY <1>1, <2>1, <2>2, <2>3 DEF Start, TypeOK
<1>2. CASE SkipRow
  BY <1>2, PendingRow, UploadsTypes DEF SkipRow, TypeOK, Pending
<1>3. CASE AddRow
  BY <1>3, PendingRow, UploadsTypes DEF AddRow, TypeOK, Pending
<1>4. CASE CollectSecret
  BY <1>4 DEF CollectSecret, IsSecret, TypeOK, stores
<1>5. CASE FailRow
  BY <1>5 DEF FailRow, Counted, Fault, TypeOK, stores
<1>6. CASE Commit
  BY <1>6, CommittedType DEF Commit, TypeOK, Config
<1>7. CASE StoreSecrets
  <2>1. secret' \subseteq Secrets \cup {Unrelated}
    BY <1>7 DEF StoreSecrets, TypeOK
  <2>2. failed' \in BOOLEAN
    BY <1>7 DEF StoreSecrets, TypeOK
  <2>3. faults' \in Nat
    BY <1>7 DEF StoreSecrets, Fault, TypeOK
  <2>4. table' \in 1..(Len(MIGRATION_ORDER) + 1)
    BY <1>7 DEF StoreSecrets, TypeOK, Config
  <2>5. QED
    BY <1>7, <2>1, <2>2, <2>3, <2>4 DEF StoreSecrets, TypeOK
<1>8. CASE Finish
  BY <1>8 DEF Finish, TypeOK, stores
<1>9. CASE Dies
  BY <1>9, CommittedType DEF Dies, Fault, TypeOK
<1>10. CASE UNCHANGED vars
  BY <1>10 DEF vars, stores, run, TypeOK
<1>11. QED
  BY <1>1, <1>2, <1>3, <1>4, <1>5, <1>6, <1>7, <1>8, <1>9, <1>10 DEF Next, Step

\* The script's variables stay within their types, for every source, environment and
\* number of faults.
THEOREM TypeCorrect == Spec => []TypeOK
BY TypeInit, TypeStep, PTL DEF Spec

-----------------------------------------------------------------------------
(***************************************************************************)
(* The inductive invariant, step by step.                                  *)
(***************************************************************************)
\* Only config has secrets, only reports has files
LEMMA TablesApart ==
  ASSUME NEW t \in Tables, NEW r \in RowsOf(t)
  PROVE  /\ r \in Secrets => t = Config
         /\ r \in RowsOf(Reports) => t = Reports
BY SourceAssumption, TablesAreEight DEF Config, Reports

\* What a run has migrated stays so until the secret is written
LEMMA MigratedStays ==
  ASSUME TypeOK, NEW r \in Rows, Migrated(r),
         target[r] # "absent" => target'[r] # "absent",
         secret \subseteq secret', objects \subseteq objects'
  PROVE  Migrated(r)'
BY DEF Migrated

LEMMA HandledStays ==
  ASSUME TypeOK, NEW r \in Rows, Handled(r),
         UNCHANGED target, tx \subseteq tx', toStore \subseteq toStore', objects \subseteq objects'
  PROVE  Handled(r)'
BY DEF Handled, Present

\* The run begins: nothing is passed
LEMMA StartKeeps ==
  ASSUME TypeOK, Inductive, NEW e \in Envs, Start(e)
  PROVE  Inductive'
<1> USE TablesAreEight
<1>1. AtInTable'
  <2>1. Len(Source[1]) \in Nat
    BY RowsOfTables
  <2>2. QED
    BY <2>1 DEF Start, AtInTable
<1>2. FlushedIsNew'
  BY DEF Start, FlushedIsNew
<1>3. NothingLeftBehind'
  <2>1. \A t \in Tables : ~(t < 1)
    OBVIOUS
  <2>2. \A i \in DOMAIN Source[1] : ~(i < 1)
    BY RowsOfTables
  <2>3. table' = 1 /\ at' = 1
    BY DEF Start
  <2>4. QED
    BY <2>1, <2>2, <2>3 DEF NothingLeftBehind
<1>4. ExitZeroIsComplete'
  BY DEF Start, ExitZeroIsComplete
<1>5. QED
  BY <1>1, <1>2, <1>3, <1>4 DEF Inductive

\* A row is passed: whoever passes one handles it, and undoes nothing of the others
LEMMA RowKeeps ==
  ASSUME TypeOK, Inductive, Pending, NEW r \in Rows, r = Row, at' = at + 1,
         UNCHANGED <<target, secret, exit, env, table>>,
         objects \subseteq objects',
         \A q \in tx' : target[q] = "absent",
         env = Full /\ ~failed' =>
           ~failed /\ tx \subseteq tx' /\ toStore \subseteq toStore' /\ Handled(r)'
  PROVE  Inductive'
<1> DEFINE rows == Source[table]
<1>1. table \in Tables /\ at \in DOMAIN rows /\ at <= Len(rows) /\ Len(rows) \in Nat
  BY RowsOfTables DEF Pending, TypeOK
<1>2. AtInTable'
  BY <1>1 DEF AtInTable, TypeOK
<1>3. FlushedIsNew'
  BY DEF FlushedIsNew
<1>4. NothingLeftBehind'
  <2> SUFFICES ASSUME (exit = "running" /\ env = Full /\ ~failed)'
               PROVE  /\ \A t \in Tables : t < table => \A q \in RowsOf(t) : Migrated(q)'
                      /\ \A i \in DOMAIN rows : i < at' => Handled(rows[i])'
    BY <1>1 DEF NothingLeftBehind
  <2>1. /\ \A t \in Tables : t < table => \A q \in RowsOf(t) : Migrated(q)
        /\ \A i \in DOMAIN rows : i < at => Handled(rows[i])
    BY <1>1 DEF Inductive, NothingLeftBehind
  <2>2. ASSUME NEW t \in Tables, t < table, NEW q \in RowsOf(t)
        PROVE  Migrated(q)'
    BY <2>1, <2>2, RowsOfTables, MigratedStays
  <2>3. ASSUME NEW i \in DOMAIN rows, i < at' PROVE Handled(rows[i])'
    <3>1. CASE i < at
      BY <1>1, <2>1, <3>1, RowsOfTables, HandledStays
    <3>2. CASE i = at
      BY <1>1, <2>3, <3>2 DEF Row, Pending
    <3>3. QED
      BY <1>1, <2>3, <3>1, <3>2, RowsOfTables
  <2>4. QED
    BY <2>2, <2>3
<1>5. ExitZeroIsComplete'
  BY DEF Pending, ExitZeroIsComplete
<1>6. QED
  BY <1>2, <1>3, <1>4, <1>5 DEF Inductive

\* The files of the row are in S3, or the run has failed
LEMMA UploadsFiles ==
  ASSUME TypeOK, Pending, NEW r \in Rows, r = Row, Uploads(r)
  PROVE  /\ objects \subseteq objects'
         /\ env = Full /\ ~failed' =>
              ~failed /\ (r \in RowsOf(Reports) => Files[r] \subseteq objects')
<1>1. r \in RowsOf(Reports) => table = Reports
  BY PendingRow, TablesApart DEF Pending
<1>2. QED
  BY <1>1 DEF Uploads, Full

LEMMA SkipRowKeeps == ASSUME TypeOK, Inductive, SkipRow PROVE Inductive'
<1>1. PICK r \in Rows : r = Row
  BY PendingRow DEF SkipRow
<1>2. Pending /\ Uploads(r) /\ tx' = tx /\ toStore' = toStore /\ target' = target
  BY <1>1 DEF SkipRow
<1>3. env = Full => r \notin Secrets /\ Present(r)
  BY <1>1 DEF SkipRow, IsSecret, Full
<1>4. env = Full /\ ~failed' => Handled(r)'
  BY <1>1, <1>2, <1>3, UploadsFiles DEF Handled, Present
<1>5. QED
  BY <1>1, <1>2, <1>4, UploadsFiles, RowKeeps DEF SkipRow, Inductive, FlushedIsNew

LEMMA AddRowKeeps == ASSUME TypeOK, Inductive, AddRow PROVE Inductive'
<1>1. PICK r \in Rows : r = Row
  BY PendingRow DEF AddRow
<1>2. Pending /\ Uploads(r) /\ tx' = tx \cup {r}
  BY <1>1 DEF AddRow
<1>3. env = Full => r \notin Secrets
  BY <1>1 DEF AddRow, IsSecret, Full
<1>4. env = Full /\ ~failed' => Handled(r)'
  BY <1>1, <1>2, <1>3, UploadsFiles DEF Handled, Present
<1>5. \A q \in tx' : target[q] = "absent"
  BY <1>1, <1>2 DEF AddRow, Present, Inductive, FlushedIsNew
<1>6. QED
  BY <1>1, <1>2, <1>4, <1>5, UploadsFiles, RowKeeps DEF AddRow

LEMMA CollectSecretKeeps == ASSUME TypeOK, Inductive, CollectSecret PROVE Inductive'
<1>1. PICK r \in Rows : r = Row
  BY PendingRow DEF CollectSecret
<1>2. r \in Secrets /\ toStore' = toStore \cup {r}
  BY <1>1 DEF CollectSecret, IsSecret
<1>3. table = Config
  BY <1>1, <1>2, PendingRow, TablesApart DEF CollectSecret, Pending
<1>4. r \notin RowsOf(Reports)
  BY <1>1, <1>3, PendingRow, TablesApart DEF CollectSecret, Pending, Config, Reports
<1>5. Handled(r)'
  BY <1>2, <1>4 DEF Handled
<1>6. QED
  BY <1>1, <1>2, <1>5, RowKeeps DEF CollectSecret, stores, Inductive, FlushedIsNew

\* A row that fails takes the others of its table with it, and the run has failed
LEMMA FailRowKeeps == ASSUME TypeOK, Inductive, FailRow PROVE Inductive'
<1>1. PICK r \in Rows : r = Row
  BY PendingRow DEF FailRow
<1>2. failed' = TRUE /\ tx' = {}
  BY DEF FailRow, Counted
<1>3. QED
  BY <1>1, <1>2, RowKeeps DEF FailRow, stores

\* Every row of a table is at index 1 or later
LEMMA NoRowBeforeFirst == \A t \in Tables : \A i \in DOMAIN Source[t] : ~(i < 1)
<1> SUFFICES ASSUME NEW t \in Tables, NEW i \in DOMAIN Source[t] PROVE ~(i < 1)
  OBVIOUS
<1>1. Source[t] \in Seq(Rows)
  BY SourceAssumption
<1>2. DOMAIN Source[t] = 1..Len(Source[t]) /\ Len(Source[t]) \in Nat
  BY <1>1
<1>3. QED
  BY <1>2

\* On to the next table
LEMMA NextTable ==
  ASSUME TypeOK, exit = "running", table \in Tables, exit' = "running", at' = 1,
         table' = table + 1, tx' = {}, UNCHANGED <<env, failed>>,
         env = Full /\ ~failed => \A t \in Tables : t <= table => \A q \in RowsOf(t) : Migrated(q)'
  PROVE  Inductive'
<1> USE TablesAreEight
<1>1. AtInTable'
  <2>1. table' \in Tables => Len(Source[table']) \in Nat
    BY RowsOfTables
  <2>2. QED
    BY <2>1 DEF AtInTable
<1>2. FlushedIsNew'
  BY DEF FlushedIsNew
<1>3. NothingLeftBehind'
  <2>1. \A t \in Tables : t < table' => t <= table
    OBVIOUS
  <2>2. table' \in Tables => \A i \in DOMAIN Source[table'] : ~(i < at')
    BY NoRowBeforeFirst
  <2>3. QED
    BY <2>1, <2>2 DEF NothingLeftBehind
<1>4. ExitZeroIsComplete'
  BY DEF ExitZeroIsComplete
<1>5. QED
  BY <1>1, <1>2, <1>3, <1>4 DEF Inductive

\* What a table's commit leaves behind
LEMMA CommittedRows ==
  ASSUME TypeOK, Inductive, exit = "running", env = Full, ~failed, table \in Tables,
         at >= Len(Source[table]) + 1
  PROVE  /\ \A t \in Tables : t < table => \A r \in RowsOf(t) : Migrated(r)
         /\ \A r \in RowsOf(table) : Handled(r)
<1>1. \A i \in DOMAIN Source[table] : i < at
  BY RowsOfTables DEF TypeOK
<1>2. QED
  BY <1>1 DEF RowsOf, Inductive, NothingLeftBehind

LEMMA CommitKeeps == ASSUME TypeOK, Inductive, Commit PROVE Inductive'
<1> USE TablesAreEight
<1>1. /\ exit = "running" /\ table \in Tables /\ at = Len(Source[table]) + 1
      /\ target' = Committed /\ tx' = {} /\ UNCHANGED <<secret, objects, exit, env, toStore, failed>>
  BY DEF Commit
<1>2. \A r \in Rows : /\ target[r] # "absent" => target'[r] # "absent"
                      /\ Present(r) => target'[r] # "absent"
  BY <1>1 DEF Committed, Present
<1>3. ASSUME env = Full, ~failed, NEW t \in Tables, t < table, NEW r \in RowsOf(t)
      PROVE  Migrated(r)'
  <2>1. Migrated(r) /\ r \in Rows
    <3>1. at >= Len(Source[table]) + 1
      BY <1>1, RowsOfTables
    <3>2. \A u \in Tables : u < table => \A q \in RowsOf(u) : Migrated(q)
      BY <1>1, <1>3, <3>1, CommittedRows
    <3>3. QED
      BY <1>3, <3>2, RowsOfTables
  <2>2. QED
    BY <1>1, <1>2, <2>1 DEF Migrated
<1>4. ASSUME env = Full, ~failed, NEW r \in RowsOf(table) PROVE Handled(r)'
  <2>1. Handled(r) /\ r \in Rows
    <3>1. at >= Len(Source[table]) + 1
      BY <1>1, RowsOfTables
    <3>2. \A q \in RowsOf(table) : Handled(q)
      BY <1>1, <1>4, <3>1, CommittedRows
    <3>3. QED
      BY <1>1, <1>4, <3>2, RowsOfTables
  <2>2. Present(r) => Present(r)'
    BY <1>2, <2>1 DEF Present
  <2>3. QED
    BY <1>1, <2>1, <2>2 DEF Handled
<1>5. CASE table = Config /\ toStore # {} /\ env.region
  <2>1. at' = at + 1 /\ table' = table
    BY <1>5 DEF Commit
  <2>2. AtInTable'
    BY <1>1, <1>5, <2>1, RowsOfTables DEF AtInTable
  <2>3. FlushedIsNew' /\ ExitZeroIsComplete'
    BY <1>1 DEF FlushedIsNew, ExitZeroIsComplete
  <2>4. NothingLeftBehind'
    BY <1>1, <1>3, <1>4, <2>1, RowsOfTables DEF NothingLeftBehind
  <2>5. QED
    BY <2>2, <2>3, <2>4 DEF Inductive
<1>6. CASE ~(table = Config /\ toStore # {} /\ env.region)
  <2>1. at' = 1 /\ table' = table + 1
    BY <1>6 DEF Commit
  <2>2. ASSUME env = Full, ~failed, NEW r \in RowsOf(table) PROVE Migrated(r)'
    <3>1. r \notin Secrets
      <4>1. CASE table = Config
        BY <1>1, <1>6, <2>2, <4>1, CommittedRows DEF Handled, Full
      <4>2. CASE table # Config
        BY <1>1, <2>2, <4>2, TablesApart
      <4>3. QED
        BY <4>1, <4>2
    <3>2. Handled(r)' /\ tx' = {}
      BY <1>1, <1>4, <2>2
    <3>3. QED
      BY <3>1, <3>2 DEF Handled, Present, Migrated
  <2>3. ASSUME env = Full, ~failed, NEW t \in Tables, t <= table, NEW q \in RowsOf(t)
        PROVE  Migrated(q)'
    BY <1>1, <1>3, <2>2, <2>3
  <2>4. QED
    BY <1>1, <2>1, <2>3, NextTable
<1>7. QED
  BY <1>5, <1>6

\* Even if the secret that was there could not be read, the run's own secrets are in it
LEMMA StoreSecretsKeeps == ASSUME TypeOK, Inductive, StoreSecrets PROVE Inductive'
<1> USE TablesAreEight
<1>1. /\ exit = "running" /\ table \in Tables /\ table = Config /\ at = Len(Source[table]) + 2
      /\ at' = 1 /\ table' = table + 1 /\ UNCHANGED <<target, objects, exit, env, tx, toStore>>
  BY DEF StoreSecrets, Config
<1>2. tx = {}
  BY <1>1, RowsOfTables DEF Inductive, AtInTable
<1>3. failed' = failed \/ failed' = TRUE
  BY DEF StoreSecrets
<1>4. ~failed' => toStore \subseteq secret'
  BY DEF StoreSecrets
<1>5. ASSUME env = Full, ~failed, ~failed', NEW t \in Tables, t <= table, NEW q \in RowsOf(t)
      PROVE  Migrated(q)'
  <2>1. at >= Len(Source[table]) + 1
    BY <1>1, RowsOfTables
  <2>2. CASE t < table
    <3>1. q \notin Secrets /\ Migrated(q)
      BY <1>1, <1>5, <2>1, <2>2, CommittedRows, TablesApart
    <3>2. QED
      BY <1>1, <3>1 DEF Migrated
  <2>3. CASE t = table
    <3>1. Handled(q)
      BY <1>1, <1>5, <2>1, <2>3, CommittedRows
    <3>2. QED
      BY <1>1, <1>2, <1>4, <1>5, <3>1 DEF Handled, Present, Migrated
  <2>4. QED
    BY <1>1, <1>5, <2>2, <2>3
<1>6. AtInTable' /\ FlushedIsNew' /\ ExitZeroIsComplete'
  <2>1. table' \in Tables => Len(Source[table']) \in Nat
    BY RowsOfTables
  <2>2. QED
    BY <1>1, <1>2, <2>1 DEF AtInTable, FlushedIsNew, ExitZeroIsComplete
<1>7. NothingLeftBehind'
  <2>1. \A t \in Tables : t < table' => t <= table
    BY <1>1
  <2>2. table' \in Tables => \A i \in DOMAIN Source[table'] : ~(i < at')
    BY <1>1, NoRowBeforeFirst
  <2>3. QED
    BY <1>1, <1>3, <1>5, <2>1, <2>2 DEF NothingLeftBehind
<1>8. QED
  BY <1>6, <1>7 DEF Inductive

\* The exit code
LEMMA FinishKeeps == ASSUME TypeOK, Inductive, Finish PROVE Inductive'
<1> USE TablesAreEight
<1>1. /\ exit = "running" /\ table \notin Tables /\ exit' \in {"0", "1"} /\ (exit' = "0" => ~failed)
      /\ UNCHANGED <<target, secret, objects, env, tx>>
  BY DEF Finish, stores
<1>2. ASSUME exit' = "0", env = Full, NEW r \in Rows PROVE Migrated(r)
  <2>1. PICK t \in Tables : r \in RowsOf(t)
    BY SourceAssumption
  <2>2. t < table
    BY <1>1 DEF TypeOK
  <2>3. QED
    BY <1>1, <1>2, <2>1, <2>2 DEF Inductive, NothingLeftBehind
<1>3. ExitZeroIsComplete'
  BY <1>1, <1>2 DEF ExitZeroIsComplete, Complete, Migrated
<1>4. QED
  BY <1>1, <1>3 DEF Inductive, AtInTable, NothingLeftBehind, FlushedIsNew

LEMMA DiesKeeps == ASSUME TypeOK, Inductive, Dies PROVE Inductive'
BY DEF Dies, Inductive, AtInTable, NothingLeftBehind, FlushedIsNew, ExitZeroIsComplete

-----------------------------------------------------------------------------
LEMMA InductiveInit == ASSUME Init PROVE Inductive
BY DEF Init, Inductive, AtInTable, FlushedIsNew, NothingLeftBehind, ExitZeroIsComplete

LEMMA InductiveStep == ASSUME TypeOK, Inductive, [Next]_vars PROVE Inductive'
<1>1. CASE \E e \in Envs : Start(e)
  BY <1>1, StartKeeps
<1>2. CASE SkipRow
  BY <1>2, SkipRowKeeps
<1>3. CASE AddRow
  BY <1>3, AddRowKeeps
<1>4. CASE CollectSecret
  BY <1>4, CollectSecretKeeps
<1>5. CASE FailRow
  BY <1>5, FailRowKeeps
<1>6. CASE Commit
  BY <1>6, CommitKeeps
<1>7. CASE StoreSecrets
  BY <1>7, StoreSecretsKeeps
<1>8. CASE Finish
  BY <1>8, FinishKeeps
<1>9. CASE Dies
  BY <1>9, DiesKeeps
<1>10. CASE UNCHANGED vars
  BY <1>10 DEF vars, stores, run, Inductive, AtInTable, FlushedIsNew, NothingLeftBehind,
               ExitZeroIsComplete, Complete, Migrated, Handled, Present
<1>11. QED
  BY <1>1, <1>2, <1>3, <1>4, <1>5, <1>6, <1>7, <1>8, <1>9, <1>10 DEF Next, Step

\* What a run has done as long as nothing has failed in it (run_migration): the tables behind
\* it are migrated, the rows behind it are flushed or collected, with their files.
THEOREM InductiveCorrect == Spec => []Inductive
<1>1. Init => Inductive
  BY InductiveInit
<1>2. TypeOK /\ Inductive /\ [Next]_vars => Inductive'
  BY InductiveStep
<1>3. QED
  BY <1>1, <1>2, TypeCorrect, PTL DEF Spec

\* "0 - All records migrated successfully": for any source and any sequence of earlier runs,
\* kills and lost connections, a run with everything set that exits with 0 leaves no row,
\* secret or file behind.
THEOREM ExitZeroCorrect == Spec => []ExitZeroIsComplete
<1>1. Inductive => ExitZeroIsComplete
  BY DEF Inductive
<1>2. QED
  BY <1>1, InductiveCorrect, PTL

\* The script only ever adds rows: a row that is in the target keeps its content, in every
\* run, also one that dies in a commit.
THEOREM RowsKept == Spec => ExistingRowsKept
<1> DEFINE Kept == \A r \in Rows : target[r] # "absent" => target'[r] = target[r]
<1>1. TypeOK /\ Inductive /\ [Next]_vars => [Kept]_vars
  <2> SUFFICES ASSUME TypeOK, Inductive, Next PROVE Kept
    BY DEF vars, stores
  <2>1. ASSUME target' = Committed PROVE Kept
    BY <2>1 DEF Committed, Inductive, FlushedIsNew
  <2>2. CASE target' = target
    BY <2>2
  <2>3. target' = target \/ target' = Committed
    BY DEF Next, Step, Start, SkipRow, AddRow, CollectSecret, FailRow, Commit, StoreSecrets,
           Finish, Dies, stores
  <2>4. QED
    BY <2>1, <2>2, <2>3
<1>2. QED
  BY <1>1, TypeCorrect, InductiveCorrect, PTL DEF Spec, ExistingRowsKept
=============================================================================

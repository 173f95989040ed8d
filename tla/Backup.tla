------------------------------- MODULE Backup -------------------------------
(***************************************************************************)
(* scripts/backup-db.mjs: runs one after the other that dump, verify, keep *)
(* the newest dumps of a directory, upload the dump and keep the newest of *)
(* the bucket.  A run may fail or be killed at every step.  A dump is      *)
(* named by the run that wrote it: larger is newer.                        *)
(* scripts/restore-db.mjs: somebody applies a dump of the directory to the *)
(* database, or to a copy of it, while a run may be under way.             *)
(***************************************************************************)
EXTENDS FaultBudget, FiniteSetsExt

CONSTANTS MaxRuns, Retention, Tables,
          MaxRestores  \* bound: restores

\* BACKUP_RETENTION, where nothing and zero mean seven, is a number of dumps to keep.
ASSUME BackupAssumption == Retention \in Nat \ {0} /\ MaxRuns \in Nat

VARIABLES run,       \* number of the last run
          stage,     \* of that run
          files,     \* dumps in the directory
          listed,    \* tables mysqldump found when the dump began
          held,      \* tables with a CREATE TABLE in the dump
          bucket,    \* dumps in the bucket
          verified,  \* dumps a run has verified
          uploaded,  \* dumps a run has uploaded
          db,        \* tables of each database
          restore,   \* what restore-db.mjs does
          restores   \* how many so far

dumpVars == <<listed, held>>
restoreVars == <<db, restore, restores>>
backupVars == <<run, stage, files, dumpVars, bucket, verified, uploaded, restoreVars, faults>>

Databases == {"main", "copy"}
NoRestore == [at |-> "none", dump |-> 0, into |-> "copy", info |-> {}, applied |-> {}]

BackupInit ==
    /\ run = 0
    /\ stage = "over"
    /\ files = {}
    /\ listed = [d \in 1..MaxRuns |-> {}]
    /\ held = [d \in 1..MaxRuns |-> {}]
    /\ bucket = {}
    /\ verified = {}
    /\ uploaded = {}
    /\ \E full \in {{}, Tables} : db = [b \in Databases |-> IF b = "main" THEN full ELSE {}]
    /\ restore = NoRestore
    /\ restores = 0
    /\ faults = 0

\* main(), up to the wait for MySQL.
Start ==
    /\ stage = "over"
    /\ run < MaxRuns
    /\ run' = run + 1
    /\ stage' = "waiting"
    /\ NoFault
    /\ UNCHANGED <<files, dumpVars, bucket, verified, uploaded, restoreVars>>

\* waitForMySQL() resolves, and mysqldump lists the tables.
Connects ==
    /\ stage = "waiting"
    /\ stage' = "dumping"
    /\ files' = files \cup {run}
    /\ listed' = [listed EXCEPT ![run] = db["main"]]
    /\ NoFault
    /\ UNCHANGED <<run, held, bucket, verified, uploaded, restoreVars>>

WriteTable(t) ==
    /\ stage = "dumping"
    /\ t \in (listed[run] \ held[run]) \cap db["main"]
    /\ held' = [held EXCEPT ![run] = @ \cup {t}]
    /\ NoFault
    /\ UNCHANGED <<run, stage, files, listed, bucket, verified, uploaded, restoreVars>>

\* Mutant of Following: old dumps are removed before the new one is verified.
FollowingVerifiedLast(s) ==
    CASE s = "dumping" -> "keeping" [] s = "keeping" -> "verifying"
      [] s = "verifying" -> "uploading" [] s = "uploading" -> "cleaning"

\* The order of main().
Following(s) ==
    CASE s = "dumping" -> "verifying" [] s = "verifying" -> "keeping"
      [] s = "keeping" -> "uploading" [] s = "uploading" -> "cleaning"

Step(s) ==
    /\ stage = s
    /\ stage' = Following(s)
    /\ NoFault
    /\ UNCHANGED <<run, restoreVars>>

\* mysqldump exits with 0.
DumpIsComplete == held[run] = listed[run]

Dumped ==
    /\ Step("dumping")
    /\ DumpIsComplete
    /\ UNCHANGED <<files, dumpVars, bucket, verified, uploaded>>

\* A dump without a table fails the run, and stays.
Verify ==
    /\ Step("verifying")
    /\ held[run] # {}
    /\ verified' = verified \cup {run}
    /\ UNCHANGED <<files, dumpVars, bucket, uploaded>>

\* Every dump but the newest ones; not dated by what it holds.
Outdated(dumps) == {d \in dumps : Cardinality({e \in dumps : e > d}) >= Retention}

RemoveFile ==
    /\ stage = "keeping"
    /\ \E d \in Outdated(files) : files' = files \ {d}
    /\ NoFault
    /\ UNCHANGED <<run, stage, dumpVars, bucket, verified, uploaded, restoreVars>>

RetentionDone ==
    /\ Outdated(files) = {}
    /\ Step("keeping")
    /\ UNCHANGED <<files, dumpVars, bucket, verified, uploaded>>

Upload ==
    /\ Step("uploading")
    /\ bucket' = bucket \cup {run}
    /\ uploaded' = uploaded \cup {run}
    /\ UNCHANGED <<files, dumpVars, verified>>

\* getBucketConfig(): no bucket, or one without its keys, which fails the run.
SkipUpload ==
    /\ stage = "uploading"
    /\ stage' = "over"
    /\ NoFault
    /\ UNCHANGED <<run, files, dumpVars, bucket, verified, uploaded, restoreVars>>

RemoveObject ==
    /\ stage = "cleaning"
    /\ \E d \in Outdated(bucket) : bucket' = bucket \ {d}
    /\ NoFault
    /\ UNCHANGED <<run, stage, files, dumpVars, verified, uploaded, restoreVars>>

Done ==
    /\ stage = "cleaning"
    /\ Outdated(bucket) = {}
    /\ stage' = "over"
    /\ NoFault
    /\ UNCHANGED <<run, files, dumpVars, bucket, verified, uploaded, restoreVars>>

\* mysqldump fails, a table it listed being gone or for another reason: what it wrote
\* is removed.
DumpFails ==
    /\ stage = "dumping"
    /\ IF (listed[run] \ held[run]) \ db["main"] # {} THEN NoFault ELSE Fault
    /\ stage' = "over"
    /\ files' = files \ {run}
    /\ UNCHANGED <<run, dumpVars, bucket, verified, uploaded, restoreVars>>

\* MySQL never answers, any other error, or a kill, ends the run where it is.
Ends ==
    /\ stage # "over"
    /\ Fault
    /\ stage' = "over"
    /\ UNCHANGED <<run, files, dumpVars, bucket, verified, uploaded, restoreVars>>

\* verify() finds no table.
VerifyFails ==
    /\ stage = "verifying"
    /\ held[run] = {}
    /\ stage' = "over"
    /\ NoFault
    /\ UNCHANGED <<run, files, dumpVars, bucket, verified, uploaded, restoreVars>>

-----------------------------------------------------------------------------
(* restore-db.mjs, on a dump of the directory.                             *)

RestoreGoes(r) ==
    /\ restore' = r
    /\ UNCHANGED <<run, stage, files, dumpVars, bucket, verified, uploaded>>

\* analyzeDump() reads the file, which a run may still be writing.
PlanRestore(d, b) ==
    /\ restore.at = "none"
    /\ restores < MaxRestores
    /\ d \in files
    /\ RestoreGoes([at |-> "planned", dump |-> d, into |-> b, info |-> held[d], applied |-> {}])
    /\ restores' = restores + 1
    /\ NoFault
    /\ UNCHANGED db

\* With --confirm, openSync(), once the database is there: no run has removed the file since.
OpensForRestore ==
    /\ restore.at = "planned"
    /\ restore.dump \in files
    /\ RestoreGoes([restore EXCEPT !.at = "applying"])
    /\ NoFault
    /\ UNCHANGED <<db, restores>>

\* DROP TABLE IF EXISTS of each table of the file.
DropsTable(t) ==
    /\ restore.at = "applying"
    /\ restore.applied \subseteq db[restore.into]
    /\ t \in held[restore.dump] \ restore.applied
    /\ db' = [db EXCEPT ![restore.into] = @ \ {t}]
    /\ RestoreGoes([restore EXCEPT !.applied = @ \cup {t}])
    /\ NoFault
    /\ UNCHANGED restores

\* CREATE TABLE, and its rows.
CreatesTable(t) ==
    /\ restore.at = "applying"
    /\ t \in restore.applied \ db[restore.into]
    /\ db' = [db EXCEPT ![restore.into] = @ \cup {t}]
    /\ RestoreGoes(restore)
    /\ NoFault
    /\ UNCHANGED restores

\* The client reached the end of the file, and the tables are counted.
CountMatches ==
    restore.info # {} /\ Cardinality(db[restore.into]) >= Cardinality(restore.info)

RestoreDone ==
    /\ restore.at = "applying"
    /\ restore.applied = held[restore.dump]
    /\ restore.applied \subseteq db[restore.into]
    /\ RestoreGoes([restore EXCEPT !.at = IF CountMatches THEN "ok" ELSE "done"])
    /\ NoFault
    /\ UNCHANGED <<db, restores>>

\* A dry run, or a file that is gone, ends with the plan.
RestoreEnds ==
    /\ restore.at \in {"planned", "ok", "done"}
    /\ RestoreGoes(NoRestore)
    /\ NoFault
    /\ UNCHANGED <<db, restores>>

\* checkResult(): the client failed, or was killed, between two statements.
RestoreFails ==
    /\ restore.at = "applying"
    /\ Fault
    /\ RestoreGoes(NoRestore)
    /\ UNCHANGED <<db, restores>>

Restoring ==
    \/ \E d \in files : \E b \in Databases : PlanRestore(d, b)
    \/ \E t \in Tables : DropsTable(t) \/ CreatesTable(t)
    \/ OpensForRestore \/ RestoreDone \/ RestoreEnds \/ RestoreFails

BackupNext ==
    \/ Start \/ Connects \/ (\E t \in Tables : WriteTable(t)) \/ Dumped \/ Verify \/ RemoveFile \/ RetentionDone
    \/ Upload \/ SkipUpload \/ RemoveObject \/ Done
    \/ DumpFails \/ VerifyFails \/ Ends
    \/ Restoring

BackupSpec == BackupInit /\ [][BackupNext]_backupVars

-----------------------------------------------------------------------------
(* Properties                                                              *)

\* Whatever the runs after it leave behind when they fail, the last verified
\* dump stays in the directory and the last uploaded one in the bucket, which
\* holds verified dumps only (backup-db.mjs:304-318).  A verified dump holds every table
\* that the database had when it began, and a restore that reports OK
\* (restore-db.mjs:149) leaves every table of its dump in the database.
LastBackupIsKept ==
    /\ verified # {} => Max(verified) \in files
    /\ uploaded # {} => Max(uploaded) \in bucket
    /\ bucket \subseteq verified
    /\ \A d \in verified : held[d] = listed[d]
    /\ restore.at = "ok" => restore.info \subseteq db[restore.into]

-----------------------------------------------------------------------------
(* The inductive invariant behind it                                       *)

Dumps == 1..run

BackupTypeOK ==
    /\ run \in 0..MaxRuns
    /\ stage \in {"over", "waiting", "dumping", "verifying", "keeping", "uploading", "cleaning"}
    /\ files \subseteq Dumps /\ bucket \subseteq Dumps
    /\ verified \subseteq Dumps /\ uploaded \subseteq Dumps
    /\ listed \in [1..MaxRuns -> SUBSET Tables] /\ held \in [1..MaxRuns -> SUBSET Tables]
    /\ db \in [Databases -> SUBSET Tables]
    /\ restore \in [at : {"none", "planned", "applying", "ok", "done"}, dump : 0..MaxRuns,
                    into : Databases, info : SUBSET Tables, applied : SUBSET Tables]

\* The newest of the dumps is in the place.
NewestIsIn(dumps, place) ==
    dumps # {} => \E d \in dumps \cap place : \A e \in dumps : e <= d

\* What the last run has done of its steps.
RunSoFar ==
    /\ stage # "over" => run > 0
    /\ stage \notin {"over", "waiting"} => run \in files
    /\ stage \in {"waiting", "dumping", "verifying"} => run \notin verified
    /\ stage = "verifying" => held[run] = listed[run]
    /\ stage \in {"keeping", "uploading", "cleaning"} => run \in verified
    /\ stage = "cleaning" => run \in bucket

\* What was planned is in the file, to which a run only adds.
RestoreSoFar ==
    /\ restore.at # "none" => restore.dump > 0 /\ restore.info \subseteq held[restore.dump]
    /\ restore.at = "ok" => restore.info \subseteq db[restore.into]

BackupInv ==
    /\ BackupTypeOK
    /\ NewestIsIn(verified, files) /\ NewestIsIn(uploaded, bucket)
    /\ bucket \subseteq uploaded /\ uploaded \subseteq verified
    /\ \A d \in verified : held[d] = listed[d]
    /\ RunSoFar
    /\ RestoreSoFar
=============================================================================

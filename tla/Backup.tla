------------------------------- MODULE Backup --------------------------------
(***************************************************************************)
(* Backup and restore of the self-contained tier (apps/api/cmd/backup):    *)
(* the SQLite database and the directory of artifacts, which the API goes  *)
(* on writing while they are copied.  A database or a directory is a       *)
(* record of where it comes from and of what it holds; the directory       *)
(* includes its key.  SQLite's write-ahead log is modelled as what the     *)
(* code relies on: a process that dies leaves it beside the database, and  *)
(* whoever opens the database next applies it.                             *)
(***************************************************************************)
EXTENDS Handlers, FiniteSets

CONSTANTS
    Files,          \* artifacts an execution may leave
    MaxFailures     \* bound: failing steps of one restore

ASSUME BackupAssumption == MaxFailures \in Nat

VARIABLES
    db, directory,  \* what is at the two paths
    log,            \* the database a -wal file beside the path belongs to
    up,             \* the API is running
    aside,          \* what was moved to .pre-restore names since the API last ran
    backup,         \* the published backup
    task,           \* a run of the tool
    before,         \* history: what was there when the last restore began, until the API starts
    failures,       \* history: steps of the last restore that failed
    killed,         \* history: the last restore was killed in the middle
    hot,            \* history: a restore began with a log beside the database
    mixed           \* history: a log was applied to a database it does not belong to

restoreHistory == <<before, failures, killed, hot>>
backupVars == <<db, directory, log, up, aside, backup, task, before, failures, killed, hot, mixed>>

Missing == [from |-> "nowhere", holds |-> {}]
Empty == [from |-> "fresh", holds |-> {}]
NoBackup == [db |-> Missing, directory |-> Missing]

BackupInit ==
    /\ db = [from |-> "old", holds |-> {}]
    /\ directory = [from |-> "old", holds |-> {}]
    /\ log = "nowhere"
    /\ up = TRUE
    /\ aside = {}
    /\ backup = NoBackup
    /\ task = Idle
    /\ before = NoBackup
    /\ failures = 0
    /\ killed = FALSE /\ hot = FALSE /\ mixed = FALSE

-----------------------------------------------------------------------------
(* The API: the artifact's file first, then the row that refers to it. *)

WriteFile(f) ==
    /\ up
    /\ directory' = [directory EXCEPT !.holds = @ \cup {f}]
    /\ UNCHANGED <<db, log, up, aside, backup, task, restoreHistory, mixed>>

WriteRow(f) ==
    /\ up
    /\ f \in directory.holds
    /\ db' = [db EXCEPT !.holds = @ \cup {f}]
    /\ UNCHANGED <<directory, log, up, aside, backup, task, restoreHistory, mixed>>

\* Whoever opens the database applies the log it finds beside it.
OpenDatabase ==
    /\ mixed' = (mixed \/ log \notin {"nowhere", db.from})
    /\ log' = "nowhere"

RestoreRuns == task # Idle /\ task.at # "copy"

\* Operators keep the API down during a restore (docs/backup-recovery.md); it makes what is missing.
StartApi ==
    /\ ~up
    /\ ~RestoreRuns
    /\ up' = TRUE
    /\ db' = IF db = Missing THEN Empty ELSE db
    /\ directory' = IF directory = Missing THEN Empty ELSE directory
    /\ OpenDatabase
    /\ before' = NoBackup
    /\ aside' = {}
    /\ failures' = 0 /\ killed' = FALSE
    /\ UNCHANGED <<backup, task, hot>>

StopApi ==
    /\ up
    /\ up' = FALSE
    /\ \/ log' = "nowhere"      \* closed in order
       \/ log' = db.from        \* killed
    /\ UNCHANGED <<db, directory, aside, backup, task, restoreHistory, mixed>>

-----------------------------------------------------------------------------
(* createBackup: the database at one instant, then the files one by one, in  *)
(* a temporary directory that is renamed at the end.                         *)

VacuumInto ==
    /\ task = Idle
    /\ backup = NoBackup        \* looked at before the rename
    /\ db # Missing
    /\ task' = [at |-> "copy", snapshot |-> db, todo |-> directory.holds,
                copied |-> [directory EXCEPT !.holds = {}]]
    /\ IF up THEN UNCHANGED <<log, mixed>> ELSE OpenDatabase
    /\ UNCHANGED <<db, directory, up, aside, backup, restoreHistory>>

CopyFile ==
    /\ task.at = "copy"
    /\ \E f \in task.todo :
          task' = [task EXCEPT !.todo = @ \ {f}, !.copied.holds = @ \cup {f}]
    /\ UNCHANGED <<db, directory, log, up, aside, backup, restoreHistory, mixed>>

(* Mutant: the database is copied last. *)
BackedUpLast == [db |-> db, directory |-> task.copied]

BackedUp == [db |-> task.snapshot, directory |-> task.copied]

PublishBackup ==
    /\ task.at = "copy" /\ task.todo = {}
    /\ backup' = BackedUp
    /\ task' = Idle
    /\ UNCHANGED <<db, directory, log, up, aside, restoreHistory, mixed>>

-----------------------------------------------------------------------------
(* restoreBackup.  Verifying the backup and copying it to temporary places   *)
(* changes nothing; then up to four renames, any of which may fail.          *)

Unmoved == <<log, up, backup, before, hot, mixed>>

StartRestoring ==
    /\ task = Idle
    /\ ~up
    /\ backup # NoBackup
    /\ \E force \in BOOLEAN :
          /\ force \/ {db, directory} = {Missing}
          /\ task' = [at |-> IF force THEN "move database" ELSE "place database",
                      db |-> Missing, directory |-> Missing]
    /\ before' = [db |-> db, directory |-> directory]
    /\ failures' = 0
    /\ killed' = FALSE
    /\ hot' = (hot \/ log # "nowhere")
    /\ UNCHANGED <<db, directory, log, up, aside, backup, mixed>>

Fail(n) == failures + n <= MaxFailures /\ failures' = failures + n

\* moveAside of the database, and nothing yet to undo.
MoveDatabase ==
    /\ task.at = "move database"
    /\ \/ /\ db' = Missing
          /\ aside' = aside \cup ({db} \ {Missing})
          /\ task' = [task EXCEPT !.at = "move directory", !.db = db]
          /\ UNCHANGED failures
       \/ Fail(1) /\ task' = Idle /\ UNCHANGED <<db, aside>>
    /\ UNCHANGED <<directory, killed, Unmoved>>

(* Mutant: a failing step leaves what was moved before where it is. *)
LeaveAside(n) ==
    /\ Fail(n)
    /\ UNCHANGED <<db, directory, aside>>

\* What is at the two paths goes, and what was moved comes back; each half may fail, before or
\* after what is there is removed.
PutBack(n) ==
    \E lost \in SUBSET {"database", "directory"} :
        /\ Fail(n + Cardinality(lost))
        /\ db' \in IF "database" \in lost THEN {Missing, db} ELSE {task.db}
        /\ directory' \in IF "directory" \in lost THEN {Missing, directory} ELSE {task.directory}
        /\ aside' = aside \ ((IF "database" \in lost THEN {} ELSE {task.db})
                             \cup (IF "directory" \in lost THEN {} ELSE {task.directory}))

\* The undo of the first move may fail too, and what it says is dropped.
MoveDirectory ==
    /\ task.at = "move directory"
    /\ \/ /\ directory' = Missing
          /\ aside' = aside \cup ({directory} \ {Missing})
          /\ task' = [task EXCEPT !.at = "place database", !.directory = directory]
          /\ UNCHANGED <<db, failures>>
       \/ /\ Fail(1)
          /\ db' = task.db /\ aside' = aside \ {task.db}
          /\ task' = Idle
          /\ UNCHANGED directory
       \/ Fail(2) /\ task' = Idle /\ UNCHANGED <<db, directory, aside>>
    /\ UNCHANGED <<killed, Unmoved>>

\* Without -force there is nothing to put back, and PutBack only removes.
PlaceDatabase ==
    /\ task.at = "place database"
    /\ \/ /\ db' = [backup.db EXCEPT !.from = "backup"]
          /\ task' = [task EXCEPT !.at = "place directory"]
          /\ UNCHANGED <<directory, aside, failures>>
       \/ PutBack(1) /\ task' = Idle
    /\ UNCHANGED <<killed, Unmoved>>

PlaceDirectory ==
    /\ task.at = "place directory"
    /\ \/ /\ directory' = [backup.directory EXCEPT !.from = "backup"]
          /\ UNCHANGED <<db, aside, failures>>
       \/ PutBack(1)
    /\ task' = Idle
    /\ UNCHANGED <<killed, Unmoved>>

\* A backup that fails or is killed leaves a temporary directory; a restore, what it has done.
TaskIsKilled ==
    /\ task # Idle
    /\ task' = Idle
    /\ killed' = (killed \/ RestoreRuns)
    /\ UNCHANGED <<db, directory, aside, failures, Unmoved>>

-----------------------------------------------------------------------------
RunApi == StartApi \/ StopApi \/ \E f \in Files : WriteFile(f) \/ WriteRow(f)

MakeBackup == VacuumInto \/ CopyFile \/ PublishBackup \/ TaskIsKilled

RestoreBackup == StartRestoring \/ MoveDatabase \/ MoveDirectory \/ PlaceDatabase \/ PlaceDirectory

BackupNext == RunApi \/ MakeBackup \/ RestoreBackup

BackupSpec == BackupInit /\ [][BackupNext]_backupVars

BackupTypeOK ==
    /\ {db.holds, directory.holds} \subseteq SUBSET Files
    /\ {db.from, directory.from, log} \subseteq {"nowhere", "old", "fresh", "backup"}

(***************************************************************************)
(* A published backup is whole although the API wrote all the time: every  *)
(* artifact its database refers to is in it.  (main.go:104-112: the        *)
(* snapshot comes before the files; artifacts are never deleted.)          *)
(***************************************************************************)
BackupIsWhole == backup.db.holds \subseteq backup.directory.holds

(***************************************************************************)
(* A restore is all or nothing unless it is killed or its undoing fails    *)
(* too: afterwards both paths hold the backup, or both what they held      *)
(* before; in any case what they held before is still on the disk; and an  *)
(* API that was closed in order leaves no log that the restored database   *)
(* could be mixed with.  (main.go:283-315.)                                *)
(***************************************************************************)
RestoreIsAllOrNothing ==
    /\ before # NoBackup =>
          /\ (task = Idle /\ ~killed /\ failures <= 1) =>
                \/ db = before.db /\ directory = before.directory
                \/ {db.from, directory.from} = {"backup"}
          /\ {before.db, before.directory} \subseteq {Missing, db, directory} \cup aside
    /\ mixed => hot
=============================================================================

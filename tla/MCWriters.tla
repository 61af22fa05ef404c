------------------------------ MODULE MCWriters ------------------------------
(****************************************************************************)
(* The services that read or write files behind their callers' backs:       *)
(* TieredCache, AuditLog, ConfigService, and Database with its backups, for *)
(* TLC.  They share no state, so that one run takes one of them at a time:  *)
(* the scene.                                                               *)
(****************************************************************************)
EXTENDS Naturals, Sequences, FiniteSets

CONSTANTS
    Keys, L1Max, Clients, Workers, MaxWrites, Faults,    \* TieredCache
    MaxRecords, QueueSize,                               \* AuditLog
    Configs, Defaults, Bad, Gone, MaxEdits,              \* ConfigService
    Sessions, Rows, Unsaved, Pool, Limit, MaxRuns, MaxResets,  \* Database
    Schema, MaxCommits                                   \* backups

VARIABLES
    scene,
    memory, table, queue, lock, op, task, newest,
    made, records, undone, writers, direct, worker, log, failed, stop,
    file, clock, active, good, mtime, call, watch, heard, astray,
    stored, flushed, session, told, inUse, tracked, runs, resets,
    main, wal, last, running, saved, temp, tool, clean

Tiered == INSTANCE TieredCache
Audit  == INSTANCE AuditLog WITH queue <- records, lock <- writers, file <- log
Config == INSTANCE ConfigService
Db     == INSTANCE Database WITH
            Keys <- Rows, None <- Unsaved, table <- stored, active <- inUse, log <- wal

ASSUME TieredConstants   == Tiered!TieredAssumption
ASSUME AuditConstants    == Audit!AuditAssumption
ASSUME ConfigConstants   == Config!ConfigAssumption
ASSUME DatabaseConstants == Db!DatabaseAssumption
ASSUME BackupsConstants == Db!BackupsAssumption

tiered   == <<memory, table, queue, lock, op, task, newest>>
audit    == <<made, records, undone, writers, direct, worker, log, failed, stop>>
config   == <<file, clock, active, good, mtime, call, watch, heard, astray>>
database == <<stored, flushed, session, told, inUse, tracked, runs, resets>>
backups == <<main, wal, last, running, saved, temp, tool, clean>>
vars     == <<scene, tiered, audit, config, database, backups>>

Init ==
    /\ scene \in {"tiered", "audit", "config", "database", "backups"}
    /\ Tiered!Init /\ Audit!Init /\ Config!Init /\ Db!Init /\ Db!BackupsInit

Next ==
    \/ /\ scene = "tiered" /\ Tiered!Next
       /\ UNCHANGED <<scene, audit, config, database, backups>>
    \/ /\ scene = "audit" /\ Audit!Next
       /\ UNCHANGED <<scene, tiered, config, database, backups>>
    \/ /\ scene = "config" /\ Config!Next
       /\ UNCHANGED <<scene, tiered, audit, database, backups>>
    \/ /\ scene = "database" /\ Db!Next
       /\ UNCHANGED <<scene, tiered, audit, config, backups>>
    \/ /\ scene = "backups" /\ Db!BackupsNext
       /\ UNCHANGED <<scene, tiered, audit, config, database>>

(* The watcher is up from the start, which the other scenes leave out.      *)
Spec ==
    /\ Init /\ [][Next]_vars
    /\ Tiered!Fairness /\ Audit!Fairness
    /\ scene = "config" => Config!Fairness

-----------------------------------------------------------------------------
(* TieredCache: the last set of a key is on the disk or on its way there,   *)
(* queued writes reach the disk in their order, and are written while there *)
(* is a worker.                                                             *)
TieredHolds ==
    /\ [](Tiered!TypeOK /\ Tiered!OnItsWay)
    /\ Tiered!DiskMovesForward
    /\ Tiered!WritesDrain

(* AuditLogger: a record is queued, being written, written, or has failed,  *)
(* in order, and stop() returns while there is a worker.                    *)
AuditHolds ==
    /\ [](Audit!TypeOK /\ Audit!NothingLost)
    /\ Audit!InOrder
    /\ Audit!StopReturns

(* ConfigService: callbacks hear of what the watcher installs, and what is  *)
(* in the file ends up in use.                                              *)
ConfigHolds == [](Config!TypeOK /\ Config!CallbacksHeard) /\ Config!Converges

(* Database: the records are those of the sessions that were told so, and   *)
(* connections in use are counted, where each session has one of its own.   *)
(* Backups: a backup is whole, and the database is never half of one.       *)
DatabaseHolds ==
    /\ [](scene = "database" =>
            Db!TypeOK /\ Db!CommitOrRollback /\ Db!TrackedInUse /\ Db!WithinPool)
    /\ [](scene = "backups" => Db!BackupsTypeOK /\ Db!NeverHalf)
    /\ Db!BackupIsWhole /\ Db!ReplacedByChecked /\ Db!KeptUnlessTold

(* get_db_session (core/database.py:42, "commit on success, rollback on     *)
(* exception") with the default StaticPool: the records are those of the    *)
(* sessions that were told so.                                              *)
SessionsKeep == scene = "database" => Db!CommitOrRollback
=============================================================================

------------------------------- MODULE Database ------------------------------
(****************************************************************************)
(* Sessions of several threads on one SQLite file: the engine and its pool  *)
(* (app/core/db.py), records that are created or updated, and deleted, by   *)
(* key (models/strm_record.py, core/database.py), and the tracker of        *)
(* connections in use (core/db_monitor.py).                                 *)
(*                                                                          *)
(* A StaticPool hands one connection to every session, and a connection has *)
(* one transaction: what one session commits or rolls back is everything    *)
(* that has been flushed on it.  Other pools give each session its own, and *)
(* SQLite lets one connection write at a time.                              *)
(****************************************************************************)
EXTENDS Naturals, FiniteSets

CONSTANTS
    Sessions,       \* threads with a session each
    Keys,           \* unique keys of records
    None,
    Pool,           \* the pool class of _create_engine_with_pool
    Limit,          \* QueuePool: pool_size + max_overflow
    MaxRuns,        \* bound: sessions opened
    MaxResets       \* bound: calls of reset_metrics

DatabaseAssumption ==
    /\ Pool \in {"static", "queue", "null"} /\ Limit \in Nat \ {0}
    /\ None \notin Sessions /\ {MaxRuns, MaxResets} \subseteq Nat

VARIABLES
    table,      \* committed records: the session that wrote each
    flushed,    \* the transaction of each connection: writes not committed
    session,    \* where each session is
    told,       \* history: the records as told by sessions that succeeded
    active, tracked,    \* ConnectionMetrics.current_active, _active_connections
    runs, resets

vars == <<table, flushed, session, told, active, tracked, runs, resets>>

Same   == "same"        \* a key that a transaction has not written
Value  == Sessions \cup {None}
Connections == Sessions \cup {"shared"}
Clean  == [k \in Keys |-> Same]
Closed == [at |-> "closed", op |-> "save", key |-> None, found |-> FALSE]

TypeOK ==
    /\ table \in [Keys -> Value] /\ told \in [Keys -> Value]
    /\ flushed \in [Connections -> [Keys -> Value \cup {Same}]]
    /\ session \in [Sessions -> [at : {"closed", "open", "looked", "written", "saved"},
                                 op : {"save", "delete"}, key : Keys \cup {None},
                                 found : BOOLEAN]]
    /\ active \in Nat /\ tracked \subseteq Connections
    /\ runs \in 0..MaxRuns /\ resets \in 0..MaxResets

Init ==
    /\ table = [k \in Keys |-> None] /\ told = table
    /\ flushed = [c \in Connections |-> Clean]
    /\ session = [s \in Sessions |-> Closed]
    /\ active = 0 /\ tracked = {} /\ runs = 0 /\ resets = 0

-----------------------------------------------------------------------------
SharedConnection(s) == "shared"

(* The connection that a session's statements go to.                        *)
Connection(s) == IF Pool = "static" THEN "shared" ELSE s

Out == {s \in Sessions : session[s].at # "closed"}

(* What a connection sees, and what it leaves when it commits.              *)
Seen(c) == [k \in Keys |-> IF flushed[c][k] = Same THEN table[k] ELSE flushed[c][k]]

(* Another connection writes: after busy_timeout, "database is locked".     *)
Locked(c) == \E d \in Connections \ {c} : flushed[d] # Clean

Emptied(s) == flushed' = [flushed EXCEPT ![Connection(s)] = Clean]

-----------------------------------------------------------------------------
(* on_connection_created and on_connection_closed of the tracker.  Of a     *)
(* connection shared by several sessions the pool takes the first check-in  *)
(* only.                                                                    *)
Counted(s) == active' = active + 1 /\ tracked' = tracked \cup {Connection(s)}

Untracked(s) ==
    /\ tracked' = tracked \ {Connection(s)}
    /\ active' = IF Connection(s) \in tracked /\ active > 0 THEN active - 1 ELSE active

(* SessionLocal() and the checkout with its first statement; over the limit *)
(* of a QueuePool the caller waits, and gives up after pool_timeout.        *)
Open(s, op, k) ==
    /\ session[s].at = "closed" /\ runs < MaxRuns
    /\ Pool = "queue" => Cardinality(Out) < Limit
    /\ session' = [session EXCEPT ![s] = [at |-> "open", op |-> op, key |-> k,
                                          found |-> FALSE]]
    /\ Counted(s)
    /\ runs' = runs + 1
    /\ UNCHANGED <<table, flushed, told, resets>>

(* create_or_update looks for the record first.                             *)
Look(s) ==
    /\ session[s].at = "open" /\ session[s].op = "save"
    /\ session' = [session EXCEPT ![s].at = "looked",
                                  ![s].found = Seen(Connection(s))[session[s].key] # None]
    /\ UNCHANGED <<table, flushed, told, active, tracked, runs, resets>>

Writes(s, value) ==
    /\ ~Locked(Connection(s))
    /\ session' = [session EXCEPT ![s].at = "written"]
    /\ flushed' = [flushed EXCEPT ![Connection(s)][session[s].key] = value]
    /\ UNCHANGED <<table, told, active, tracked, runs, resets>>

(* The flush of commit(): an insert of a key that is there, or an update of *)
(* a row that is not, is an error.                                          *)
Flush(s) ==
    /\ session[s].at = "looked"
    /\ session[s].found = (Seen(Connection(s))[session[s].key] # None)
    /\ Writes(s, s)

(* delete_by_file_id, delete_by_remote_dir: a DELETE takes the write lock   *)
(* whether it finds a row or not.                                           *)
Delete(s) ==
    /\ session[s].at = "open" /\ session[s].op = "delete"
    /\ Writes(s, None)

(* commit() returns: the caller of save_strm or delete_strm is told so.     *)
Commit(s) ==
    LET k == session[s].key IN
    /\ session[s].at = "written"
    /\ table' = Seen(Connection(s)) /\ Emptied(s)
    /\ told' = [told EXCEPT ![k] = IF session[s].op = "delete" THEN None ELSE s]
    /\ session' = [session EXCEPT ![s].at = "saved"]
    /\ UNCHANGED <<active, tracked, runs, resets>>

(* Given back, a connection is rolled back: after a commit, and after an    *)
(* exception of any statement (get_db_session, and save_strm answers False).*)
Close(s) ==
    /\ session[s].at = "saved"
    /\ session' = [session EXCEPT ![s] = Closed]
    /\ Emptied(s) /\ Untracked(s)
    /\ UNCHANGED <<table, told, runs, resets>>

Fail(s) ==
    /\ session[s].at \in {"open", "looked", "written"}
    /\ session' = [session EXCEPT ![s] = Closed]
    /\ Emptied(s) /\ Untracked(s)
    /\ UNCHANGED <<table, told, runs, resets>>

(* The process ends: the file keeps what was committed.                     *)
Crash ==
    /\ Out # {}
    /\ flushed' = [c \in Connections |-> Clean]
    /\ session' = [s \in Sessions |-> Closed]
    /\ active' = 0 /\ tracked' = {}
    /\ UNCHANGED <<table, told, runs, resets>>

(* reset_metrics counts the connections it knows.                           *)
ResetMetrics ==
    /\ resets < MaxResets /\ resets' = resets + 1
    /\ active' = Cardinality(tracked)
    /\ UNCHANGED <<table, flushed, session, told, tracked, runs>>

Next ==
    \/ \E s \in Sessions, op \in {"save", "delete"}, k \in Keys : Open(s, op, k)
    \/ \E s \in Sessions : Look(s) \/ Flush(s) \/ Delete(s) \/ Commit(s) \/ Close(s) \/ Fail(s)
    \/ Crash \/ ResetMetrics

Spec == Init /\ [][Next]_vars

-----------------------------------------------------------------------------
(* get_db_session, core/database.py:42 ("commit on success, rollback on     *)
(* exception"): the records are those of the sessions whose commit returned *)
(* and nothing of those that failed.  With StaticPool, the default, a       *)
(* session may lose its record to the rollback with which another gives the *)
(* connection back, or commit half of what the other one is writing.        *)
CommitOrRollback == table = told

(* ConnectionTracker: the connections in use are counted and known, also    *)
(* after the metrics were reset.  With StaticPool the count of sessions     *)
(* that overlapped never goes down again.                                   *)
TrackedInUse == active = Cardinality(Out) /\ tracked = {Connection(s) : s \in Out}

(* One session writes at a time, and no more are out than the pool allows.  *)
WithinPool ==
    /\ Cardinality({c \in Connections : flushed[c] # Clean}) <= 1
    /\ Pool = "queue" => Cardinality(Out) <= Limit

-----------------------------------------------------------------------------
(****************************************************************************)
(* Backups of the database and their restoration (app/migrations/backup.py),*)
(* as the runbook has them (docs/operations/README.md): a backup while the  *)
(* program may run, a restoration while it is stopped.  One command runs at *)
(* a time; it may fail or be killed at each of its steps, and so may the    *)
(* program.                                                                 *)
(*                                                                          *)
(* The database is in WAL mode: beside the main file lies a log with what   *)
(* has been committed since the last checkpoint, and a program that does    *)
(* not end cleanly leaves it there.  Contents are numbered as they are      *)
(* committed.  Of a file that is being written, SQLite shows nothing.       *)
(****************************************************************************)
CONSTANTS
    Schema,         \* CURRENT_SCHEMA_VERSION; the database may be one behind
    MaxCommits      \* bound

BackupsAssumption == Schema \in Nat \ {0} /\ MaxCommits \in Nat

VARIABLES
    main, log,      \* the database's file, and the log beside it
    last,           \* the last commit
    running,        \* the program runs
    saved,          \* the backup's file
    temp,           \* the file that a restoration writes first
    tool,           \* the command that runs: what it is doing
    clean           \* no log was left beside a file that is not its own

backupsVars == <<main, log, last, running, saved, temp, tool, clean>>

NoCopy  == [is |-> "none", n |-> 0, schema |-> 0]
Part    == [NoCopy EXCEPT !.is = "part"]
Mixed   == [NoCopy EXCEPT !.is = "mixed"]
Whole   == [is : {"whole"}, n : 0 .. MaxCommits, schema : {Schema - 1, Schema}]
NoTool  == [does |-> "nothing", since |-> 0, over |-> FALSE]
Tools   == [does : {"nothing", "check backup", "copy backup", "copy temp", "check temp", "replace"},
            since : 0 .. MaxCommits, over : BOOLEAN]

BackupsTypeOK ==
    /\ main \in Whole \cup {NoCopy, Mixed} /\ log \in Whole \cup {NoCopy}
    /\ saved \in Whole \cup {NoCopy, Part, Mixed} /\ temp \in Whole \cup {NoCopy, Part, Mixed}
    /\ last \in 0 .. MaxCommits /\ tool \in Tools /\ {running, clean} \subseteq BOOLEAN

BackupsInit ==
    /\ main = [is |-> "whole", n |-> 0, schema |-> Schema - 1]
    /\ log = NoCopy /\ last = 0 /\ running = FALSE
    /\ saved = NoCopy /\ temp = NoCopy /\ tool = NoTool /\ clean = TRUE

-----------------------------------------------------------------------------
(* What SQLite reads: the file with its log, or with one of another file.   *)
Read ==
    CASE log = NoCopy                            -> main
      [] log # NoCopy /\ clean /\ main # NoCopy -> log
      [] OTHER                                   -> Mixed

Program == UNCHANGED <<saved, temp, tool, clean>>

(* The program starts, after run_migrations, on a database that is there;   *)
(* what becomes of one that is mixed is not followed.                       *)
Start ==
    /\ ~running /\ tool = NoTool /\ main # NoCopy /\ Read.is = "whole"
    /\ running' = TRUE
    /\ log' = [Read EXCEPT !.schema = Schema]
    /\ UNCHANGED <<main, last>> /\ Program

ProgramCommits ==
    /\ running /\ last < MaxCommits
    /\ last' = last + 1
    /\ log' = [log EXCEPT !.n = last + 1]
    /\ UNCHANGED <<main, running>> /\ Program

Checkpoint ==
    /\ running /\ main' = log
    /\ UNCHANGED <<log, last, running>> /\ Program

Stop ==
    /\ running /\ running' = FALSE
    /\ main' = log /\ log' = NoCopy
    /\ UNCHANGED last /\ Program

Killed ==
    /\ running /\ running' = FALSE
    /\ UNCHANGED <<main, log, last>> /\ Program

-----------------------------------------------------------------------------
Tool == UNCHANGED <<last, running>>

Goes(does) == tool' = [tool EXCEPT !.does = does]

(* create_sqlite_backup: never over a file that is there.                   *)
Backup ==
    /\ tool = NoTool /\ main # NoCopy /\ saved = NoCopy
    /\ tool' = [NoTool EXCEPT !.does = "copy backup", !.since = Read.n]
    /\ saved' = Part
    /\ UNCHANGED <<main, log, temp, clean>> /\ Tool

(* Wrong on purpose: a copy of the main file.                               *)
CopyMain == saved' = main

CopyRead == saved' = Read

BackupDone ==
    /\ tool.does = "copy backup"
    /\ CopyRead /\ tool' = NoTool
    /\ UNCHANGED <<main, log, temp, clean>> /\ Tool

(* DatabaseError: the half is removed.                                      *)
BackupFails ==
    /\ tool.does = "copy backup"
    /\ saved' = NoCopy /\ tool' = NoTool
    /\ UNCHANGED <<main, log, temp, clean>> /\ Tool

(* validate_sqlite_backup, with the schema version that is expected.        *)
Valid(f) == f.is = "whole" /\ f.schema = Schema

(* restore_sqlite_backup, with the program stopped; a file that is there is *)
(* in the way, unless it may be overwritten, and so is an old temporary one.*)
Restore(over) ==
    /\ tool = NoTool /\ ~running
    /\ Valid(saved) /\ (over \/ main = NoCopy) /\ temp = NoCopy
    /\ tool' = [NoTool EXCEPT !.does = "copy temp", !.over = over]
    /\ temp' = Part
    /\ UNCHANGED <<main, log, saved, clean>> /\ Tool

Copied ==
    /\ tool.does = "copy temp" /\ temp' = saved /\ Goes("check temp")
    /\ UNCHANGED <<main, log, saved, clean>> /\ Tool

Checked ==
    /\ tool.does = "check temp" /\ Valid(temp) /\ Goes("replace")
    /\ UNCHANGED <<main, log, saved, temp, clean>> /\ Tool

(* Wrong on purpose: the backup is copied over the database itself.         *)
ReplaceInPlace ==
    /\ tool.does = "copy temp"
    /\ main' = temp /\ temp' = NoCopy /\ tool' = NoTool
    /\ clean' = (log = NoCopy)
    /\ UNCHANGED <<log, saved>> /\ Tool

(* The log of the file that was there, if any, is left beside the new one.  *)
Replace ==
    /\ tool.does = "replace"
    /\ main' = temp /\ temp' = NoCopy /\ tool' = NoTool
    /\ clean' = (log = NoCopy)
    /\ UNCHANGED <<log, saved>> /\ Tool

RestoreFails ==
    /\ tool.does \in {"copy temp", "check temp", "replace"}
    /\ temp' = NoCopy /\ tool' = NoTool
    /\ UNCHANGED <<main, log, saved, clean>> /\ Tool

ToolKilled ==
    /\ tool # NoTool /\ tool' = NoTool
    /\ UNCHANGED <<main, log, saved, temp, clean>> /\ Tool

-----------------------------------------------------------------------------
(* What the runbook has its reader do: put the database aside, which leaves *)
(* the log; and clear away files of commands that failed.                   *)
SetAside ==
    /\ ~running /\ tool = NoTool /\ main # NoCopy
    /\ main' = NoCopy /\ clean' = (log = NoCopy)
    /\ UNCHANGED <<log, saved, temp, tool>> /\ Tool

ClearAway ==
    /\ tool = NoTool
    /\ \/ saved' = NoCopy /\ UNCHANGED temp
       \/ temp' = NoCopy /\ UNCHANGED saved
    /\ UNCHANGED <<main, log, tool, clean>> /\ Tool

BackupsNext ==
    \/ Start \/ ProgramCommits \/ Checkpoint \/ Stop \/ Killed
    \/ Backup \/ BackupDone \/ BackupFails
    \/ \E over \in BOOLEAN : Restore(over)
    \/ Copied \/ Checked \/ Replace \/ RestoreFails \/ ToolKilled
    \/ SetAside \/ ClearAway

BackupsSpec == BackupsInit /\ [][BackupsNext]_vars

-----------------------------------------------------------------------------
(* A backup that was made has all that was committed when it was begun,     *)
(* what is still in the log as well (backup.py:91-98).                      *)
BackupIsWhole ==
    [][tool.does = "copy backup" /\ saved'.is = "whole" => saved'.n >= tool.since]_vars

(* Wherever a command is stopped, the database is not half of one, and what *)
(* replaces it has been checked (backup.py:110-133).                        *)
NeverHalf == main.is # "part"

ReplacedByChecked == [][main' # main /\ ~running => main' = NoCopy \/ main'.schema = Schema]_vars

(* What is not to be overwritten is not (backup.py:114-115).                *)
KeptUnlessTold ==
    [][main # NoCopy /\ main' # main /\ main' # NoCopy /\ ~running => tool.over]_vars

(* Not kept: a database that was restored is the backup.  After a kill, the *)
(* log of the database before is applied to it (backup.py:126); the runbook *)
(* sets only the main file aside (docs/operations/README.md:303).           *)
RestoredIsBackup == Read.is # "mixed"

(* Not kept: a database that is one schema behind can be restored, as the   *)
(* runbook has it after a failed migration (docs/operations/README.md:274); *)
(* the command refuses any other version than the current one               *)
(* (backup.py:108, 156).                                                    *)
OldBackupsRestore ==
    saved.is = "whole" /\ tool = NoTool /\ ~running /\ temp = NoCopy => Valid(saved)
==============================================================================

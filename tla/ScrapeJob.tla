------------------------------ MODULE ScrapeJob ------------------------------
(****************************************************************************)
(* ScrapeService (app/services/media/scrape.py) and the routes that start,  *)
(* stop and repeat its jobs (app/api/scrape.py).                            *)
(*                                                                          *)
(* Everything runs on one event loop, so that what lies between two awaits  *)
(* is not interleaved with anything: loop is the run that has the loop in   *)
(* the middle of such a stretch.  Its commits are still steps of their own, *)
(* because the process may end between two of them, or one may fail.        *)
(* start_job, create_job and the locked part of _start_path_job await       *)
(* nothing that makes them wait, and are single steps.                      *)
(****************************************************************************)
EXTENDS Naturals, FiniteSets

CONSTANTS
    Jobs,               \* job ids
    Paths, NoPath,      \* ids of scrape paths, and jobs of no path
    MaxRuns, MaxFiles,  \* bounds: runs of _process_job, files in a directory
    Modes,              \* scrape_mode of the jobs
    Stoppers,           \* calls of stop_job or stop_scrape_path
    Requests,           \* which routes are called
    Faults              \* "crash": the process ends; "db": a commit fails

ASSUME ScrapeAssumption ==
    /\ NoPath \notin Paths
    /\ MaxRuns \in Nat
    /\ MaxFiles \in Nat
    /\ IsFiniteSet(Jobs)
    /\ Modes \subseteq {"only_scrape", "scrape_and_rename", "only_rename"}
    /\ Requests \subseteq {"job", "stop_job", "path", "stop_path", "records"}
    /\ Faults \subseteq {"crash", "db"}

Runs  == 1 .. MaxRuns
NoRun == 0
Keys  == Runs \X (1 .. MaxFiles)

VARIABLES
    job,        \* scrape_jobs: status, path, mode and counters of each job
    path,       \* scrape_paths: status and last job of each path
    item,       \* scrape_items: status of the item of each run and file
    record,     \* scrape_records: status of the record of each item
    registered, \* _active_jobs: the run registered for each job
    run,        \* the coroutines of _process_job
    loop,       \* the run that has the event loop, or NoRun
    stop        \* stop calls waiting for the run they have cancelled

vars == <<job, path, item, record, registered, run, loop, stop>>
rows == <<item, record>>

-----------------------------------------------------------------------------
(* The state machine of items (scrape_state_machine.py).                    *)

Allowed(s) ==
    CASE s = "pending"       -> {"scanned", "scrape_failed"}
      [] s = "scanned"       -> {"scraping", "scrape_failed"}
      [] s = "scraping"      -> {"scraped", "scrape_failed"}
      [] s = "scraped"       -> {"renaming", "renamed", "rename_failed"}
      [] s = "renaming"      -> {"renamed", "rename_failed"}
      [] s = "scrape_failed" -> {"scanned"}
      [] s = "rename_failed" -> {"renaming", "scanned"}
      [] OTHER               -> {}

ItemStatus == {"pending", "scanned", "scraping", "scraped", "renaming",
               "renamed", "scrape_failed", "rename_failed"}
FailedItem == {"scrape_failed", "rename_failed"}
CanTransition(s, t) == t = s \/ t \in Allowed(s)

JobStatus == {"none", "pending", "running", "completed", "failed", "cancelled"}

Job == [st : JobStatus, path : Paths \cup {NoPath}, mode : Modes,
        total : 0 .. MaxFiles, done : Nat, ok : Nat, bad : Nat]

(* Where a run is suspended or, while it has the loop, what comes next.     *)
(* "broken" is a run whose session failed, "lost" one whose process ended.  *)
Suspended == {"new", "notify", "scrape", "ending", "failing"}
Alive(r)  == run[r].at \in Suspended \cup {"next", "item"}

Run == [at : Suspended \cup {"unused", "next", "item", "done", "broken", "lost"},
        job : Jobs, file : 1 .. (MaxFiles + 1), files : 0 .. MaxFiles,
        view : JobStatus, cancelling : BOOLEAN]

Stop == [run : Runs \cup {NoRun}, path : Paths \cup {NoPath},
         seen : {"idle", "running", "stopped"}]
NoStop == [run |-> NoRun, path |-> NoPath, seen |-> "idle"]

TypeOK ==
    /\ job \in [Jobs -> Job]
    /\ path \in [Paths -> [st : {"idle", "running", "stopped"},
                           last : SUBSET Jobs]]
    /\ item \in [Keys -> ItemStatus \cup {"none"}]
    /\ record \in [Keys -> ItemStatus \cup {"none", "gone"}]
    /\ registered \in [Jobs -> Runs \cup {NoRun}]
    /\ run \in [Runs -> Run]
    /\ loop \in Runs \cup {NoRun}
    /\ stop \in [Stoppers -> Stop]
    /\ \A p \in Paths : Cardinality(path[p].last) <= 1

Init ==
    /\ \E m \in [Jobs -> Modes] :
        job = [j \in Jobs |-> [st |-> "none", path |-> NoPath, mode |-> m[j],
                               total |-> 0, done |-> 0, ok |-> 0, bad |-> 0]]
    /\ path = [p \in Paths |-> [st |-> "idle", last |-> {}]]
    /\ item = [k \in Keys |-> "none"]
    /\ record = [k \in Keys |-> "none"]
    /\ registered = [j \in Jobs |-> NoRun]
    /\ \E j \in Jobs :
        run = [r \in Runs |-> [at |-> "unused", job |-> j, file |-> 1,
                    files |-> 0, view |-> "none", cancelling |-> FALSE]]
    /\ loop = NoRun
    /\ stop = [c \in Stoppers |-> NoStop]

-----------------------------------------------------------------------------
(* start_job and its callers.                                               *)

Free == loop = NoRun

(* Wrong on purpose: the status of the job tells whether it is being run.   *)
BusyByStatus(j) == job[j].st = "running"

Busy(j) == registered[j] # NoRun /\ Alive(registered[j])

(* The next unused run; a registered one is left as it is, when its task is *)
(* done, until it is replaced.                                              *)
Unused(r) == /\ run[r].at = "unused"
             /\ \A s \in Runs : s < r => run[s].at # "unused"

(* Whatever the status was, it is now running.                              *)
Launch(jobs, j) ==
    \E r \in Runs :
        /\ Unused(r)
        /\ job' = [jobs EXCEPT ![j].st = "running"]
        /\ run' = [run EXCEPT ![r].at = "new", ![r].job = j]
        /\ registered' = [registered EXCEPT ![j] = r]

(* A start that finds the job's task still there is acknowledged and does   *)
(* nothing.                                                                 *)
StartJob(j) ==
    /\ Free
    /\ "job" \in Requests
    /\ job[j].st # "none"
    /\ ~Busy(j)
    /\ Launch(job, j)
    /\ UNCHANGED <<path, rows, loop, stop>>

Created(j, p) == [job EXCEPT ![j].st = "pending", ![j].path = p]

CreateJob(j) ==
    /\ Free
    /\ "job" \in Requests
    /\ job[j].st = "none"
    /\ job' = Created(j, NoPath)
    /\ UNCHANGED <<path, rows, registered, run, loop, stop>>

(* _refresh_path_status                                                     *)
Refreshed(p) ==
    IF path[p].st = "running" /\ \A j \in path[p].last : job[j].st # "running"
    THEN [path[p] EXCEPT !.st = "idle"]
    ELSE path[p]

(* _start_path_job                                                          *)
LaunchPath(p) ==
    \/ /\ Refreshed(p).st = "running"
       /\ UNCHANGED <<job, path, registered, run>>
    \/ /\ Refreshed(p).st # "running"
       /\ \E j \in Jobs :
            /\ job[j].st = "none"
            /\ Launch(Created(j, p), j)
            /\ path' = [path EXCEPT ![p] = [st |-> "running", last |-> {j}]]

(* The start route, and the handler of the cron job of the path.            *)
StartPath(p) ==
    /\ Free
    /\ "path" \in Requests
    /\ LaunchPath(p)
    /\ UNCHANGED <<rows, loop, stop>>

(* The routes that list or show paths.                                      *)
ShowPath(p) ==
    /\ Free
    /\ "path" \in Requests
    /\ path' = [path EXCEPT ![p] = Refreshed(p)]
    /\ UNCHANGED <<job, rows, registered, run, loop, stop>>

-----------------------------------------------------------------------------
(* stop_job commits cancelled over any status, then cancels the task and    *)
(* waits for it; stop_scrape_path writes the path when that wait is over,   *)
(* from the row it has read before.                                         *)

(* Wrong on purpose: the run is left to look at the status by itself.       *)
CancelledLater(j) ==
    /\ job' = [job EXCEPT ![j].st = "cancelled"]
    /\ UNCHANGED run

(* Wrong on purpose: the status is left to the handler of the cancelled run.*)
CancelledUnsaved(j) ==
    /\ UNCHANGED job
    /\ run' = IF Busy(j)
              THEN [run EXCEPT ![registered[j]].cancelling = TRUE]
              ELSE run

Cancelled(j) ==
    /\ job' = [job EXCEPT ![j].st = "cancelled"]
    /\ run' = IF Busy(j)
              THEN [run EXCEPT ![registered[j]].cancelling = TRUE]
              ELSE run

Waits(c, j, p, seen) ==
    stop' = [stop EXCEPT ![c] = [run |-> registered[j], path |-> p, seen |-> seen]]

StopJob(c, j) ==
    /\ Free
    /\ "stop_job" \in Requests
    /\ stop[c] = NoStop
    /\ job[j].st # "none"
    /\ Cancelled(j)
    /\ IF Busy(j) THEN Waits(c, j, NoPath, "idle") ELSE UNCHANGED stop
    /\ UNCHANGED <<path, rows, registered, loop>>

Stopped(p, seen) ==
    path' = IF p # NoPath /\ seen # "stopped"
            THEN [path EXCEPT ![p].st = "stopped"]
            ELSE path

StopPath(c, p) ==
    /\ Free
    /\ "stop_path" \in Requests
    /\ stop[c] = NoStop
    /\ \/ /\ path[p].last = {}
          /\ Stopped(p, path[p].st)
          /\ UNCHANGED <<job, run, stop>>
       \/ \E j \in path[p].last :
            /\ Cancelled(j)
            /\ IF Busy(j)
               THEN Waits(c, j, p, path[p].st) /\ UNCHANGED path
               ELSE Stopped(p, path[p].st) /\ UNCHANGED stop
    /\ UNCHANGED <<rows, registered, loop>>

StopReturns(c) ==
    /\ Free
    /\ stop[c].run # NoRun
    /\ ~Alive(stop[c].run)
    /\ Stopped(stop[c].path, stop[c].seen)
    /\ stop' = [stop EXCEPT ![c] = NoStop]
    /\ UNCHANGED <<job, rows, registered, run, loop>>

-----------------------------------------------------------------------------
(* _process_job.                                                            *)

Mode(r)    == job[run[r].job].mode
Scrapes(r) == Mode(r) # "only_rename"
Renames(r) == Mode(r) # "only_scrape"
Key(r)     == <<r, run[r].file>>

(* Only a run that is not being cancelled wakes up as if nothing had been.  *)
Wakes(r, at) == Free /\ run[r].at = at /\ ~run[r].cancelling

Goes(r, at) == run' = [run EXCEPT ![r].at = at]

(* A coroutine that is gone keeps only the job it was for.                  *)
Gone(r, at) == [run[r] EXCEPT !.at = at, !.file = 1, !.files = 0,
                              !.view = "none", !.cancelling = FALSE]
Ends(r, at) == run' = [run EXCEPT ![r] = Gone(r, at)]

(* The finally clause: what is registered for the job is taken out.         *)
Unregister(j) == registered' = [registered EXCEPT ![j] = NoRun]

Begin(r) ==
    /\ Wakes(r, "new")
    /\ Goes(r, "notify")
    /\ UNCHANGED <<job, path, rows, registered, loop, stop>>

Scan(r) ==
    /\ Wakes(r, "notify")
    /\ \E n \in 0 .. MaxFiles :
        /\ job' = [job EXCEPT ![run[r].job].total = n]
        /\ run' = [run EXCEPT ![r].at = "next", ![r].files = n,
                              ![r].view = job[run[r].job].st]
    /\ loop' = r
    /\ UNCHANGED <<path, rows, registered, stop>>

(* The options do not validate, or the directory cannot be read.            *)
ScanRaises(r) ==
    /\ Wakes(r, "notify")
    /\ job' = [job EXCEPT ![run[r].job].st = "failed"]
    /\ Goes(r, "failing")
    /\ UNCHANGED <<path, rows, registered, loop, stop>>

CreateItem(r) ==
    /\ loop = r
    /\ run[r].at = "next"
    /\ run[r].file <= run[r].files
    /\ job[run[r].job].st # "cancelled"
    /\ run' = [run EXCEPT ![r].at = "item", ![r].view = job[run[r].job].st]
    /\ item' = [item EXCEPT ![Key(r)] = "pending"]
    /\ UNCHANGED <<job, path, record, registered, loop, stop>>

CreateRecord(r) ==
    /\ loop = r
    /\ run[r].at = "item"
    /\ record[Key(r)] = "none"
    /\ record' = [record EXCEPT ![Key(r)] = item[Key(r)]]
    /\ UNCHANGED <<job, path, item, registered, run, loop, stop>>

(* _transition_item_status and _sync_record_from_item, committed together.  *)
(* The commit fails if the record has been deleted.                         *)
Transition(r, from, to) ==
    /\ loop = r
    /\ run[r].at = "item"
    /\ item[Key(r)] = from
    /\ record[Key(r)] \notin {"none", "gone"}
    /\ item' = [item EXCEPT ![Key(r)] = to]
    /\ record' = [record EXCEPT ![Key(r)] = to]

Scanned(r) ==
    /\ Transition(r, "pending", "scanned")
    /\ UNCHANGED <<job, path, registered, run, loop, stop>>

(* _scrape_single_item awaits TMDB and the downloads.                       *)
Scraping(r) ==
    /\ Transition(r, "scanned", "scraping")
    /\ IF Scrapes(r)
       THEN Goes(r, "scrape") /\ loop' = NoRun
       ELSE UNCHANGED <<run, loop>>
    /\ UNCHANGED <<job, path, registered, stop>>

Answer(r) ==
    /\ Wakes(r, "scrape")
    /\ Goes(r, "item")
    /\ loop' = r
    /\ UNCHANGED <<job, path, rows, registered, stop>>

Scraped(r) ==
    /\ Transition(r, "scraping", "scraped")
    /\ UNCHANGED <<job, path, registered, run, loop, stop>>

Renaming(r) ==
    /\ Renames(r)
    /\ Transition(r, "scraped", "renaming")
    /\ UNCHANGED <<job, path, registered, run, loop, stop>>

(* Wrong on purpose: a failure adds to the failed items alone.              *)
CountBadAlone(r, field) ==
    /\ job' = [job EXCEPT ![run[r].job].done = IF field = "ok" THEN @ + 1 ELSE @,
                          ![run[r].job].ok = IF field = "ok" THEN @ + 1 ELSE @,
                          ![run[r].job].bad = IF field = "bad" THEN @ + 1 ELSE @]
    /\ run' = [run EXCEPT ![r].at = "next", ![r].file = @ + 1]

(* The counters are written in the transaction that settles the item.       *)
Count(r, field) ==
    /\ job' = [job EXCEPT ![run[r].job].done = @ + 1,
                          ![run[r].job].ok = IF field = "ok" THEN @ + 1 ELSE @,
                          ![run[r].job].bad = IF field = "bad" THEN @ + 1 ELSE @]
    /\ run' = [run EXCEPT ![r].at = "next", ![r].file = @ + 1]

Renamed(r) ==
    /\ Transition(r, "renaming", "renamed")
    /\ Count(r, "ok")
    /\ UNCHANGED <<path, registered, loop, stop>>

(* Wrong on purpose: one fallback for all, and one that is a job's status.  *)
FallbackScrape(s) == "scrape_failed"
FallbackAsJob(s)  == "failed"

(* The status given when an item's processing raises.                       *)
Fallback(s) ==
    IF s \in {"renaming", "rename_failed"} THEN "rename_failed" ELSE "scrape_failed"

(* The scrape or the rename reports a failure, or something else raises;    *)
(* the item gets the same status either way.                                *)
ItemFails(r) ==
    /\ \E s \in {"scraping", "renaming"} : Transition(r, s, Fallback(s))
    /\ Count(r, "bad")
    /\ UNCHANGED <<path, registered, loop, stop>>

(* only_scrape ends with the item scraped, and its record as it is.         *)
ScrapedOnly(r) ==
    /\ loop = r
    /\ run[r].at = "item"
    /\ item[Key(r)] = "scraped"
    /\ ~Renames(r)
    /\ Count(r, "ok")
    /\ UNCHANGED <<path, rows, registered, loop, stop>>

(* Wrong on purpose: a job without a success is left without a verdict.     *)
VerdictForSuccess(r) ==
    LET j == run[r].job IN
    IF job[j].bad < job[j].total THEN "completed" ELSE job[j].st

(* The status as the run has last read it decides; the counters of earlier  *)
(* runs of the job are in it.                                               *)
Verdict(r) ==
    LET j == run[r].job IN
    IF run[r].view = "cancelled" THEN job[j].st
    ELSE IF job[j].bad < job[j].total THEN "completed" ELSE "failed"

Finish(r) ==
    /\ loop = r
    /\ run[r].at = "next"
    /\ run[r].file > run[r].files
    /\ job' = [job EXCEPT ![run[r].job].st = Verdict(r)]
    /\ Goes(r, "ending")
    /\ loop' = NoRun
    /\ UNCHANGED <<path, rows, registered, stop>>

(* The last notification has been sent, and Emby told.                      *)
End(r) ==
    /\ Wakes(r, "ending") \/ Wakes(r, "failing")
    /\ Ends(r, "done")
    /\ Unregister(run[r].job)
    /\ UNCHANGED <<job, path, rows, loop, stop>>

(* CancelledError.  Before the try it leaves the task registered; in the    *)
(* handler of another exception it passes the finally clause only.          *)
CancelLands(r) ==
    /\ Free
    /\ run[r].at \in Suspended
    /\ run[r].cancelling
    /\ job' = IF run[r].at \in {"scrape", "ending"}
              THEN [job EXCEPT ![run[r].job].st = "cancelled"]
              ELSE job
    /\ IF run[r].at \in {"new", "notify"}
       THEN UNCHANGED registered
       ELSE Unregister(run[r].job)
    /\ Ends(r, "done")
    /\ UNCHANGED <<path, rows, loop, stop>>

(* A commit fails: the handlers query the same session, which raises again, *)
(* and the run ends with the job as it is in the database.                  *)
SessionFails(r) ==
    /\ loop = r
    /\ \/ "db" \in Faults
       \/ /\ run[r].at = "item"
          /\ record[Key(r)] = "gone"
          /\ item[Key(r)] # "scraped" \/ Renames(r)
    /\ Ends(r, "broken")
    /\ Unregister(run[r].job)
    /\ loop' = NoRun
    /\ UNCHANGED <<job, path, rows, stop>>

-----------------------------------------------------------------------------
(* The routes on records.                                                   *)

Existing == {k \in Keys : record[k] \notin {"none", "gone"}}

PathOf(k) == job[run[k[1]].job].path

(* The records become pending and a job is started that makes new ones.     *)
ReScrape(p) ==
    /\ Free
    /\ "records" \in Requests
    /\ \E ks \in SUBSET {k \in Existing : PathOf(k) = p} :
        /\ ks # {}
        /\ record' = [k \in Keys |-> IF k \in ks THEN "pending" ELSE record[k]]
    /\ IF p \in Paths
       THEN LaunchPath(p)
       ELSE /\ \E j \in Jobs : /\ job[j].st = "none"
                               /\ Launch(Created(j, NoPath), j)
            /\ UNCHANGED path
    /\ UNCHANGED <<item, loop, stop>>

ClearRecords(which) ==
    /\ Free
    /\ "records" \in Requests
    /\ which # {}
    /\ record' = [k \in Keys |-> IF k \in which THEN "gone" ELSE record[k]]
    /\ UNCHANGED <<job, path, item, registered, run, loop, stop>>

ClearFailed == ClearRecords({k \in Keys : record[k] \in FailedItem})

TruncateAll == ClearRecords(Existing)

-----------------------------------------------------------------------------
(* The process ends; start_job finds running jobs without a task.           *)
Crash ==
    /\ "crash" \in Faults
    /\ \E r \in Runs : Alive(r)
    /\ run' = [r \in Runs |-> IF Alive(r) THEN Gone(r, "lost") ELSE run[r]]
    /\ registered' = [j \in Jobs |-> NoRun]
    /\ loop' = NoRun
    /\ stop' = [c \in Stoppers |-> NoStop]
    /\ UNCHANGED <<job, path, rows>>

RunStep(r) ==
    \/ Begin(r) \/ Scan(r) \/ ScanRaises(r) \/ CreateItem(r) \/ CreateRecord(r)
    \/ Scanned(r) \/ Scraping(r) \/ Answer(r) \/ Scraped(r) \/ Renaming(r)
    \/ Renamed(r) \/ ItemFails(r) \/ ScrapedOnly(r) \/ Finish(r) \/ End(r)
    \/ CancelLands(r) \/ SessionFails(r)

Request ==
    \/ \E j \in Jobs : CreateJob(j) \/ StartJob(j)
    \/ \E p \in Paths : StartPath(p) \/ ShowPath(p)
    \/ \E c \in Stoppers, j \in Jobs : StopJob(c, j)
    \/ \E c \in Stoppers, p \in Paths : StopPath(c, p)
    \/ \E p \in Paths \cup {NoPath} : ReScrape(p)
    \/ ClearFailed
    \/ TruncateAll

Next ==
    \/ Request
    \/ \E r \in Runs : RunStep(r)
    \/ \E c \in Stoppers : StopReturns(c)
    \/ Crash

Spec == Init /\ [][Next]_vars

(* The event loop resumes every coroutine whose await is over, and awaits   *)
(* come to an end.                                                          *)
LiveSpec == Spec /\ \A r \in Runs : WF_vars(RunStep(r))

-----------------------------------------------------------------------------
(* A run that is still going on is the one registered for its job: at most  *)
(* one works on a job, whatever starts, stops and restarts come, and        *)
(* stop_job finds the one to cancel.                                        *)
OneRun == \A r \in Runs : Alive(r) => registered[run[r].job] = r

(* The runs of a job that have been launched; the last one decides.         *)
RunsOf(j)  == {r \in Runs : run[r].at # "unused" /\ run[r].job = j}
IsLast(r)  == \A s \in RunsOf(run[r].job) : s <= r

(* A job marked running is being run, or its run was lost with the process  *)
(* or with its session: it is never left running by a stop, a failure or an *)
(* end in the wrong order.                                                  *)
RunningIsRun ==
    \A j \in Jobs : job[j].st = "running" =>
        \E r \in RunsOf(j) : IsLast(r) /\ run[r].at # "done"

(* Each item that is settled has been counted once, on the right side, in   *)
(* all the runs of its job and through crashes and failing commits.         *)
Of(j, S) == Cardinality({k \in Keys : run[k[1]].job = j /\ item[k] \in S})

Counted ==
    \A j \in Jobs :
        /\ job[j].bad = Of(j, FailedItem)
        /\ job[j].mode # "only_scrape" => job[j].ok = Of(j, {"renamed"})
        /\ job[j].mode = "only_scrape" => job[j].ok <= Of(j, {"scraped"})
        /\ job[j].done = job[j].ok + job[j].bad

(* Of an item only steps of the state machine are ever committed, though an *)
(* exception may force a status on it.                                      *)
ItemSteps ==
    [][\A k \in Keys : item[k] # "none" => CanTransition(item[k], item'[k])]_vars

(* A job that has been stopped stays cancelled until it is started again: a *)
(* run that is being cancelled never writes a verdict of its own over it.   *)
StaysCancelled ==
    [][\A j \in Jobs : job[j].st = "cancelled" /\ job'[j].st # "cancelled" =>
         \E r \in Runs : run[r].at = "unused" /\ run'[r].at = "new"
                         /\ run'[r].job = j]_vars

(* What jobs, items and counters say is so, run after run.                  *)
ScrapeHolds ==
    /\ [](TypeOK /\ OneRun /\ RunningIsRun /\ Counted)
    /\ ItemSteps
    /\ StaysCancelled

(* A job that is started comes to an end, unless its process or its session *)
(* does first.                                                              *)
JobSettles ==
    \A r \in Runs : Alive(r) ~>
        \/ run[r].at \in {"broken", "lost"}
        \/ run[r].at = "done" /\ (IsLast(r) => job[run[r].job].st # "running")

(* "The lock that keeps the task from being started twice"                  *)
(* (app/api/scrape.py:29): of the jobs of one path one is running at most.  *)
OneJobPerPath ==
    \A r, s \in Runs :
        Alive(r) /\ Alive(s) /\ r # s
        /\ job[run[r].job].st = "running" /\ job[run[s].job].st = "running"
        /\ job[run[r].job].path # NoPath
        => job[run[r].job].path # job[run[s].job].path
=============================================================================

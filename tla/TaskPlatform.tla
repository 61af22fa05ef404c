---------------------------- MODULE TaskPlatform ----------------------------
(****************************************************************************)
(* The persistent task platform: TaskService (task_queue.py) over the tasks *)
(* table, PersistentTaskWorker (task_worker.py), TaskRunner.run_task        *)
(* (task_runner.py) and the API threads that create, cancel and delete      *)
(* tasks while runs are in progress (api/tasks.py, synchronous handlers in  *)
(* the thread pool).                                                        *)
(*                                                                          *)
(* A process is a member of Owners: the uuid in the worker's owner string   *)
(* is drawn once per process, so a restart is a new owner.  Every database  *)
(* commit is one step; a read and the commit that depends on it are two,    *)
(* because a thread of the API can commit between them.                     *)
(****************************************************************************)
EXTENDS Integers, TLC

CONSTANTS
    Owners,         \* lease_owner values, one per worker process ever started
    NoOwner,        \* lease_owner IS NULL
    MaxId,          \* bound: primary keys 1 .. MaxId
    Slots,          \* concurrency of a worker (1 as deployed)
    Requests,       \* bound: cancel requests in flight at once
    AttemptLimits,  \* bound: the max_attempts a task is created with
    MaxTries,       \* orchestration.max_retries + 1
    MaxGen,         \* bound: rows ever created under one primary key
    SingleProcess,  \* TRUE: one process at a time (the documented deployment)
    Env,            \* the environment's moves, see below
    NoTask          \* no task id

EnvMoves == {"crash", "stop", "expire", "delete", "dberror"}

ASSUME OwnerAssumption == NoOwner \notin Owners

ASSUME PlatformAssumption ==
    /\ MaxId \in Nat /\ MaxTries \in Nat \ {0} /\ MaxGen \in Nat
    /\ AttemptLimits \subseteq Nat \ {0}
    /\ SingleProcess \in BOOLEAN
    /\ Env \subseteq EnvMoves
    /\ NoTask \notin Nat

-----------------------------------------------------------------------------
(****************************************************************************)
(* One row of the tasks table (app/models/task.py) and what each operation  *)
(* of TaskService (app/services/platform/task_queue.py) does to it.         *)
(*                                                                          *)
(* Time is abstracted: lease_until is "none", "live" (in the future) or     *)
(* "expired", and due says whether next_run_at is NULL or in the past.      *)
(* Columns no decision reads (heartbeat_at, progress, logs, error_message,  *)
(* params, the timestamps) are left out.                                    *)
(****************************************************************************)
(* TASK_LEASEABLE_STATES, TASK_ACTIVE_STATES and TASK_TERMINAL_STATES. *)
Leaseable == {"pending", "retry_scheduled"}
Active    == {"leased", "running", "planning", "reviewing"}
Terminal  == {"completed", "partial_success", "failed", "cancelled"}
Succeeded == {"completed", "partial_success"}
StopAsked == {"cancel_requested", "cancelled"}

Status == Leaseable \cup Active \cup Terminal \cup {"cancel_requested"}

Row == [status  : Status \cup {"absent"},
        owner   : Owners \cup {NoOwner},
        lease   : {"none", "live", "expired"},
        attempt : Nat,
        max     : Nat \ {0},
        due     : BOOLEAN]

(* No row has this primary key. *)
NoRow == [status |-> "absent", owner |-> NoOwner, lease |-> "none",
          attempt |-> 0, max |-> 1, due |-> TRUE]

Present(row)   == row.status # "absent"
(* Wrong on purpose: one attempt too many. *)
ExhaustedLate(row) == row.attempt > row.max
Exhausted(row) == row.attempt >= row.max
Claimable(row) == row.status \in Leaseable /\ row.due

(* Wrong on purpose: _coerce_positive_int without its max(1, ...). *)
NewRowUnclamped(max) == [NoRow EXCEPT !.status = "pending", !.max = max - 1]
NewRow(max) == [NoRow EXCEPT !.status = "pending", !.max = max]

Claimed(row, o) ==
    [row EXCEPT !.status = "leased", !.owner = o, !.lease = "live",
                !.attempt = @ + 1]

Released(row) == [row EXCEPT !.owner = NoOwner, !.lease = "none"]

(* Wrong on purpose: the lease columns are left as they are. *)
RearmedKeepingLease(row) ==
    [row EXCEPT !.status = "retry_scheduled", !.due = FALSE]
(* The retry of _clear_finished_lease: a next_run_at in the future. *)
Rearmed(row) == [Released(row) EXCEPT !.status = "retry_scheduled",
                                      !.due = FALSE]

Renewable(row, o) == row.owner = o /\ row.status \in Active

NeedsRecovery(row) ==
    row.status \in Active \cup {"cancel_requested"} /\ row.lease = "expired"

(* Wrong on purpose: a cancelled task is retried like any other. *)
RecoveryVerdictNoCancel(row) ==
    IF Exhausted(row) THEN "failed" ELSE "retry_scheduled"
(* What recover_expired_leases decides for a row it has selected. *)
RecoveryVerdict(row) ==
    IF row.status = "cancel_requested" THEN "cancelled"
    ELSE IF Exhausted(row) THEN "failed"
    ELSE "retry_scheduled"

Recovered(row, verdict) ==
    [Released(row) EXCEPT !.status = verdict,
                          !.due = IF verdict = "retry_scheduled" THEN TRUE
                                                                 ELSE @]

(* What cancel_task writes for the status it has read. *)
CancelWrite(status) ==
    IF status \in Active THEN "cancel_requested" ELSE "cancelled"

-----------------------------------------------------------------------------
Tasks == 1 .. MaxId
Runs  == Owners \X Slots

(* Every process starts, runs and dies alike. *)
OwnerSymmetry == Permutations(Owners)

VARIABLES
    table,      \* the tasks table
    proc,       \* life of each process
    snapshot,   \* statuses recover_expired_leases has decided to write
    candidate,  \* row a claim has selected and not yet updated
    run,        \* the _run_claimed_task coroutine of each slot
    cancel,     \* cancel_task calls between their read and their commit
    gen,        \* history: rows created so far under each key
    asked,      \* history: rows with an acknowledged cancel
    finished    \* history: rows that were once completed or partial_success

vars == <<table, proc, snapshot, candidate, run, cancel, gen, asked, finished>>

ProcState == {"unborn", "recovering", "up", "loopless", "stopping",
              "draining", "gone"}
Serving   == {"up", "loopless"}

(* Where run_task is suspended on an await, where it is between two         *)
(* statements of one synchronous stretch, and the tail of                   *)
(* _run_claimed_task ("clear": awaiting the heartbeat, then                 *)
(* _clear_finished_lease and its two possible commits).                     *)
Awaiting  == {"planning", "running", "work", "reviewing", "done"}
Straight  == {"claimed", "route", "worked", "review", "failing", "cancelling"}
Tail      == {"clear", "rearm", "release"}
PC        == {"idle"} \cup Awaiting \cup Straight \cup Tail

RunRec == [pc : PC, task : Tasks \cup {NoTask}, gen : Nat, try : Nat]
Idle   == [pc |-> "idle", task |-> NoTask, gen |-> 0, try |-> 0]

CancelRec == [proc : Owners \cup {NoOwner}, task : Tasks \cup {NoTask},
              write : {"none", "cancel_requested", "cancelled"}]
NoCancel  == [proc |-> NoOwner, task |-> NoTask, write |-> "none"]

NoVerdicts == [t \in Tasks |-> "none"]

TypeOK ==
    /\ table \in [Tasks -> Row]
    /\ proc \in [Owners -> ProcState]
    /\ snapshot \in [Owners -> [Tasks -> {"none", "cancelled", "failed",
                                          "retry_scheduled"}]]
    /\ candidate \in [Owners -> Tasks \cup {NoTask}]
    /\ run \in [Runs -> RunRec]
    /\ cancel \in [Requests -> CancelRec]
    /\ gen \in [Tasks -> Nat]
    /\ asked \subseteq Tasks
    /\ finished \subseteq Tasks

Init ==
    /\ table = [t \in Tasks |-> NoRow]
    /\ proc = [o \in Owners |-> "unborn"]
    /\ snapshot = [o \in Owners |-> NoVerdicts]
    /\ candidate = [o \in Owners |-> NoTask]
    /\ run = [r \in Runs |-> Idle]
    /\ cancel = [q \in Requests |-> NoCancel]
    /\ gen = [t \in Tasks |-> 0]
    /\ asked = {}
    /\ finished = {}

history == <<gen, asked, finished>>

-----------------------------------------------------------------------------
(* The API threads of the processes that serve requests. *)

ApiUp == \E o \in Owners : proc[o] \in Serving

(* SQLite gives a new row the largest key in use plus one, so the key of a  *)
(* deleted last row is used again.                                          *)
IsNextId(t) ==
    /\ \A u \in Tasks : u >= t => ~Present(table[u])
    /\ \A u \in Tasks : u = t - 1 => Present(table[u])

Create(t, max) ==
    /\ ApiUp
    /\ IsNextId(t)
    /\ gen[t] < MaxGen
    /\ table' = [table EXCEPT ![t] = NewRow(max)]
    /\ gen' = [gen EXCEPT ![t] = @ + 1]
    /\ UNCHANGED <<proc, snapshot, candidate, run, cancel, asked, finished>>

Delete(t) ==
    /\ "delete" \in Env
    /\ ApiUp
    /\ Present(table[t])
    /\ table' = [table EXCEPT ![t] = NoRow]
    /\ asked' = asked \ {t}
    /\ finished' = finished \ {t}
    /\ UNCHANGED <<proc, snapshot, candidate, run, cancel, gen>>

(* cancel_task reads the row; a terminal row is refused, and a row already  *)
(* in cancel_requested is acknowledged with nothing to write.               *)
ReadForCancel(q, o, t) ==
    /\ proc[o] \in Serving
    /\ cancel[q] = NoCancel
    /\ table[t].status \in Leaseable \cup Active
    /\ cancel' = [cancel EXCEPT ![q] =
           [proc |-> o, task |-> t, write |-> CancelWrite(table[t].status)]]
    /\ UNCHANGED <<table, proc, snapshot, candidate, run, history>>

CancelAgain(t) ==
    /\ ApiUp
    /\ table[t].status = "cancel_requested"
    /\ asked' = asked \cup {t}
    /\ UNCHANGED <<table, proc, snapshot, candidate, run, cancel, gen, finished>>

(* ... and commits what it decided, whatever the row holds by now.  A row   *)
(* deleted in between makes the flush fail and the request with it.         *)
CommitCancel(q) ==
    LET t == cancel[q].task IN
    /\ cancel[q] # NoCancel
    /\ cancel' = [cancel EXCEPT ![q] = NoCancel]
    /\ IF Present(table[t])
       THEN /\ table' = [table EXCEPT ![t].status = cancel[q].write]
            /\ asked' = asked \cup {t}
       ELSE UNCHANGED <<table, asked>>
    /\ UNCHANGED <<proc, snapshot, candidate, run, gen, finished>>

-----------------------------------------------------------------------------
(* The worker process: start, the claim loop, heartbeats and stop. *)

(* start() selects the expired rows ...                                     *)
Start(o) ==
    /\ proc[o] = "unborn"
    /\ SingleProcess => \A p \in Owners : proc[p] \in {"unborn", "gone"}
    /\ proc' = [proc EXCEPT ![o] = "recovering"]
    /\ snapshot' = [snapshot EXCEPT ![o] =
           [t \in Tasks |-> IF NeedsRecovery(table[t])
                            THEN RecoveryVerdict(table[t]) ELSE "none"]]
    /\ UNCHANGED <<table, candidate, run, cancel, history>>

(* ... and commits the verdicts in one transaction, which fails, and the    *)
(* start with it, when one of the rows has gone.                            *)
FinishRecovery(o) ==
    LET hit == {t \in Tasks : snapshot[o][t] # "none"} IN
    /\ proc[o] = "recovering"
    /\ snapshot' = [snapshot EXCEPT ![o] = NoVerdicts]
    /\ IF \A t \in hit : Present(table[t])
       THEN /\ table' = [t \in Tasks |->
                   IF t \in hit THEN Recovered(table[t], snapshot[o][t])
                                ELSE table[t]]
            /\ proc' = [proc EXCEPT ![o] = "up"]
       ELSE /\ proc' = [proc EXCEPT ![o] = "gone"]
            /\ UNCHANGED table
    /\ UNCHANGED <<candidate, run, cancel, history>>

(* _clear_finished_lease has no await: while one is between its read and    *)
(* its commit the event loop of o does nothing else.                        *)
Clearing(o) == \E s \in Slots : run[<<o, s>>].pc \in {"rearm", "release"}

(* claim_next_task: the SELECT, when a slot is free ...                     *)
SelectCandidate(o, t) ==
    /\ proc[o] = "up"
    /\ candidate[o] = NoTask
    /\ ~Clearing(o)
    /\ \E s \in Slots : run[<<o, s>>] = Idle
    /\ Claimable(table[t])
    /\ \A u \in Tasks : Claimable(table[u]) => t <= u
    /\ candidate' = [candidate EXCEPT ![o] = t]
    /\ UNCHANGED <<table, proc, snapshot, run, cancel, history>>

(* Wrong on purpose: the UPDATE names the row by its key alone.             *)
ClaimUnchecked(o, s) ==
    LET t == candidate[o] IN
    /\ t # NoTask
    /\ run[<<o, s>>] = Idle
    /\ candidate' = [candidate EXCEPT ![o] = NoTask]
    /\ IF Present(table[t])
       THEN /\ table' = [table EXCEPT ![t] = Claimed(@, o)]
            /\ run' = [run EXCEPT ![<<o, s>>] =
                   [pc |-> "claimed", task |-> t, gen |-> gen[t], try |-> 0]]
       ELSE UNCHANGED <<table, run>>
    /\ UNCHANGED <<proc, snapshot, cancel, history>>

(* ... and the UPDATE, which repeats the condition and counts its rows.     *)
ClaimCandidate(o, s) ==
    LET t == candidate[o] IN
    /\ t # NoTask
    /\ run[<<o, s>>] = Idle
    /\ candidate' = [candidate EXCEPT ![o] = NoTask]
    /\ IF Claimable(table[t])
       THEN /\ table' = [table EXCEPT ![t] = Claimed(@, o)]
            /\ run' = [run EXCEPT ![<<o, s>>] =
                   [pc |-> "claimed", task |-> t, gen |-> gen[t], try |-> 0]]
       ELSE UNCHANGED <<table, run>>
    /\ UNCHANGED <<proc, snapshot, cancel, history>>

(* heartbeat_task renews by owner and status; it never asks whether the     *)
(* lease has run out.                                                       *)
Heartbeat(r) ==
    LET t == run[r].task IN
    /\ proc[r[1]] \in Serving
    /\ run[r].pc \in Awaiting
    /\ Renewable(table[t], r[1])
    /\ table[t].lease # "live"
    /\ table' = [table EXCEPT ![t].lease = "live"]
    /\ UNCHANGED <<proc, snapshot, candidate, run, cancel, history>>

(* The server has drained its requests before the lifespan calls stop().    *)
Stop(o) ==
    /\ "stop" \in Env
    /\ proc[o] \in Serving
    /\ candidate[o] = NoTask
    /\ \A q \in Requests : cancel[q].proc # o
    /\ proc' = [proc EXCEPT ![o] = "stopping"]
    /\ UNCHANGED <<table, snapshot, candidate, run, cancel, history>>

(* After timeout_seconds stop() cancels the runs still pending: each is     *)
(* suspended on an await, where the CancelledError is thrown.               *)
CancelRuns(o) ==
    LET Thrown(rec) ==
          CASE rec.pc \in Awaiting -> [rec EXCEPT !.pc = "cancelling"]
            [] OTHER               -> Idle
    IN  /\ proc[o] = "stopping"
        /\ \A s \in Slots : run[<<o, s>>].pc \in Awaiting \cup {"idle", "clear"}
        /\ proc' = [proc EXCEPT ![o] = "draining"]
        /\ run' = [r \in Runs |-> IF r[1] = o THEN Thrown(run[r]) ELSE run[r]]
        /\ UNCHANGED <<table, snapshot, candidate, cancel, history>>

Exit(o) ==
    /\ proc[o] \in {"stopping", "draining"}
    /\ \A s \in Slots : run[<<o, s>>] = Idle
    /\ proc' = [proc EXCEPT ![o] = "gone"]
    /\ UNCHANGED <<table, snapshot, candidate, run, cancel, history>>

Crash(o) ==
    /\ "crash" \in Env
    /\ proc[o] \notin {"unborn", "gone"}
    /\ proc' = [proc EXCEPT ![o] = "gone"]
    /\ snapshot' = [snapshot EXCEPT ![o] = NoVerdicts]
    /\ candidate' = [candidate EXCEPT ![o] = NoTask]
    /\ run' = [r \in Runs |-> IF r[1] = o THEN Idle ELSE run[r]]
    /\ cancel' = [q \in Requests |->
                     IF cancel[q].proc = o THEN NoCancel ELSE cancel[q]]
    /\ UNCHANGED <<table, history>>

(* An exception in the claim ends _run_loop; nothing restarts it.           *)
LoopFails(o) ==
    /\ "dberror" \in Env
    /\ proc[o] = "up"
    /\ proc' = [proc EXCEPT ![o] = "loopless"]
    /\ candidate' = [candidate EXCEPT ![o] = NoTask]
    /\ UNCHANGED <<table, snapshot, run, cancel, history>>

(* Time passes. *)
LeaseExpires(t) ==
    /\ "expire" \in Env
    /\ table[t].lease = "live"
    /\ table' = [table EXCEPT ![t].lease = "expired"]
    /\ UNCHANGED <<proc, snapshot, candidate, run, cancel, history>>

BecomesDue(t) ==
    /\ ~table[t].due
    /\ table' = [table EXCEPT ![t].due = TRUE]
    /\ UNCHANGED <<proc, snapshot, candidate, run, cancel, history>>

-----------------------------------------------------------------------------
(* One run: TaskRunner.run_task, then _clear_finished_lease. *)

Goto(r, pc) == run' = [run EXCEPT ![r].pc = pc]
EndRun(r)   == run' = [run EXCEPT ![r] = Idle]

(* _check_cancelled: refresh the row, whoever wrote it last.  The refresh   *)
(* of a deleted row raises.                                                 *)
Check(r, from, to) ==
    LET row == table[run[r].task] IN
    /\ run[r].pc = from
    /\ \/ ~Present(row) /\ Goto(r, "failing")
       \/ row.status \in StopAsked /\ Goto(r, "clear")
       \/ Present(row) /\ row.status \notin StopAsked /\ Goto(r, to)
    /\ UNCHANGED <<table, proc, snapshot, candidate, cancel, history>>

(* task.status = ...; db.commit(): an UPDATE by primary key alone.  When    *)
(* the row has gone the flush raises and leaves the session unusable, so    *)
(* that the exception handler's own query raises too.                       *)
Put(r, from, status, to) ==
    LET t == run[r].task IN
    /\ run[r].pc = from
    /\ IF Present(table[t])
       THEN /\ table' = [table EXCEPT ![t].status = status]
            /\ finished' = IF status \in Succeeded THEN finished \cup {t}
                                                   ELSE finished
            /\ Goto(r, to)
       ELSE /\ Goto(r, "clear")
            /\ UNCHANGED <<table, finished>>
    /\ UNCHANGED <<proc, snapshot, candidate, cancel, gen, asked>>

(* run_task loads the row and writes "planning" over any status in it.      *)
BeginMissing(r) ==
    /\ run[r].pc = "claimed"
    /\ ~Present(table[run[r].task])
    /\ Goto(r, "clear")
    /\ UNCHANGED <<table, proc, snapshot, candidate, cancel, history>>
Begin(r) ==
    /\ run[r].pc = "claimed"
    /\ Present(table[run[r].task])
    /\ Put(r, "claimed", "planning", "planning")

(* The caller's params do not have the shape the orchestration expects.     *)
BadParams(r) ==
    /\ run[r].pc \in {"claimed", "running"}
    /\ Present(table[run[r].task])
    /\ Goto(r, "failing")
    /\ UNCHANGED <<table, proc, snapshot, candidate, cancel, history>>

CheckPlan(r)  == Check(r, "planning", "route")
Route(r)      == Put(r, "route", "running", "running")
CheckRoute(r) ==
    LET row == table[run[r].task] IN
    /\ run[r].pc = "running"
    /\ \/ ~Present(row) /\ Goto(r, "failing")
       \/ row.status \in StopAsked /\ Goto(r, "clear")
       \/ /\ Present(row) /\ row.status \notin StopAsked
          /\ run' = [run EXCEPT ![r].pc = "work", ![r].try = 1]
    /\ UNCHANGED <<table, proc, snapshot, candidate, cancel, history>>

(* One attempt of the execution stage.  A check inside it raises            *)
(* CancelledError, whose handler has nothing to change when it is           *)
(* "cancelled" that the check has loaded; any other exception is retried    *)
(* here, with no look at the status, until the tries are used up.           *)
WorkDone(r) ==
    /\ run[r].pc = "work"
    /\ Present(table[run[r].task])
    /\ table[run[r].task].status \notin StopAsked
    /\ Goto(r, "worked")
    /\ UNCHANGED <<table, proc, snapshot, candidate, cancel, history>>
WorkCancelled(r) ==
    /\ run[r].pc = "work"
    /\ \/ table[run[r].task].status = "cancel_requested" /\ Goto(r, "cancelling")
       \/ table[run[r].task].status = "cancelled" /\ Goto(r, "clear")
    /\ UNCHANGED <<table, proc, snapshot, candidate, cancel, history>>
WorkRaises(r) ==
    /\ run[r].pc = "work"
    /\ IF ~Present(table[run[r].task]) THEN Goto(r, "clear")
       ELSE IF run[r].try < MaxTries THEN run' = [run EXCEPT ![r].try = @ + 1]
       ELSE Goto(r, "failing")
    /\ UNCHANGED <<table, proc, snapshot, candidate, cancel, history>>

CheckWork(r) == Check(r, "worked", "review")
Review(r)    == Put(r, "review", "reviewing", "reviewing")
Finish(r)    == \E s \in Succeeded : Put(r, "reviewing", s, "done")
Announce(r)  ==
    /\ run[r].pc = "done"
    /\ Goto(r, "clear")
    /\ UNCHANGED <<table, proc, snapshot, candidate, cancel, history>>

(* The two exception handlers: the row is queried afresh and written if it  *)
(* is still there.                                                          *)
Handle(r, pc, status) ==
    LET t == run[r].task IN
    /\ run[r].pc = pc
    /\ table' = IF Present(table[t])
                THEN [table EXCEPT ![t].status = status] ELSE table
    /\ Goto(r, "clear")
    /\ UNCHANGED <<proc, snapshot, candidate, cancel, history>>

(* Wrong on purpose: the failure is logged and not written.                 *)
OnExceptionLogged(r) ==
    /\ run[r].pc = "failing"
    /\ Goto(r, "clear")
    /\ UNCHANGED <<table, proc, snapshot, candidate, cancel, history>>

OnCancelled(r) == Handle(r, "cancelling", "cancelled")
OnException(r) == Handle(r, "failing", "failed")

(* Wrong on purpose: a lease is given up whatever the status.               *)
ReadForClearAnyStatus(r) ==
    LET row == table[run[r].task] IN
    /\ run[r].pc = "clear"
    /\ candidate[r[1]] = NoTask /\ ~Clearing(r[1])
    /\ IF row.owner # r[1] THEN EndRun(r)
       ELSE IF row.status = "failed" /\ ~Exhausted(row) THEN Goto(r, "rearm")
       ELSE Goto(r, "release")
    /\ UNCHANGED <<table, proc, snapshot, candidate, cancel, history>>

(* _clear_finished_lease: read ...                                          *)
ReadForClear(r) ==
    LET row == table[run[r].task] IN
    /\ run[r].pc = "clear"
    /\ candidate[r[1]] = NoTask /\ ~Clearing(r[1])
    /\ IF row.owner # r[1] \/ row.status \notin Terminal THEN EndRun(r)
       ELSE IF row.status = "failed" /\ ~Exhausted(row) THEN Goto(r, "rearm")
       ELSE Goto(r, "release")
    /\ UNCHANGED <<table, proc, snapshot, candidate, cancel, history>>

(* ... and commit: a retry with its delay, or the end of the lease.         *)
Clear(r, pc, row) ==
    LET t == run[r].task IN
    /\ run[r].pc = pc
    /\ table' = IF Present(table[t]) THEN [table EXCEPT ![t] = row] ELSE table
    /\ EndRun(r)
    /\ UNCHANGED <<proc, snapshot, candidate, cancel, history>>

Rearm(r)   == Clear(r, "rearm", Rearmed(table[run[r].task]))
Release(r) == Clear(r, "release", Released(table[run[r].task]))

(* A database error ("database is locked") at a statement of the run.  The  *)
(* exception handler runs after a failed SELECT; after a failed flush or    *)
(* commit its own query raises.                                             *)
RunDbError(r) ==
    /\ "dberror" \in Env
    /\ \/ /\ run[r].pc \in {"claimed", "planning", "running", "worked"}
          /\ Goto(r, "failing")
       \/ run[r].pc \notin Tail \cup {"idle", "worked"} /\ Goto(r, "clear")
       \/ run[r].pc \in Tail /\ EndRun(r)
    /\ UNCHANGED <<table, proc, snapshot, candidate, cancel, history>>

RunStep(r) ==
    \/ BeginMissing(r) \/ Begin(r) \/ BadParams(r)
    \/ CheckPlan(r) \/ Route(r) \/ CheckRoute(r)
    \/ WorkDone(r) \/ WorkCancelled(r) \/ WorkRaises(r)
    \/ CheckWork(r) \/ Review(r) \/ Finish(r) \/ Announce(r)
    \/ OnCancelled(r) \/ OnException(r)
    \/ ReadForClear(r) \/ Rearm(r) \/ Release(r)

-----------------------------------------------------------------------------
ApiStep ==
    \/ \E t \in Tasks :
          \/ \E max \in AttemptLimits : Create(t, max)
          \/ Delete(t) \/ CancelAgain(t)
          \/ \E q \in Requests, o \in Owners : ReadForCancel(q, o, t)
    \/ \E q \in Requests : CommitCancel(q)

WorkerStep(o) ==
    \/ Start(o) \/ FinishRecovery(o)
    \/ \E t \in Tasks : SelectCandidate(o, t)
    \/ \E s \in Slots : ClaimCandidate(o, s)
    \/ Stop(o) \/ CancelRuns(o) \/ Exit(o) \/ Crash(o) \/ LoopFails(o)

TimeStep == \E t \in Tasks : LeaseExpires(t) \/ BecomesDue(t)

Next ==
    \/ ApiStep
    \/ \E o \in Owners : WorkerStep(o)
    \/ \E r \in Runs : RunStep(r) \/ Heartbeat(r) \/ RunDbError(r)
    \/ TimeStep

Spec == Init /\ [][Next]_vars

(* The event loop and the database get their turns, the supervisor starts a *)
(* new process after the last one has gone, delays run out, and a run's     *)
(* work ends one way or another.  Nothing is assumed of heartbeats, of the  *)
(* API's callers, or of faults.                                             *)
Fairness ==
    /\ \A o \in Owners :
          /\ WF_vars(Start(o)) /\ WF_vars(FinishRecovery(o))
          /\ WF_vars(\E t \in Tasks : SelectCandidate(o, t))
          /\ WF_vars(\E s \in Slots : ClaimCandidate(o, s))
          /\ WF_vars(CancelRuns(o)) /\ WF_vars(Exit(o))
    /\ \A r \in Runs : WF_vars(RunStep(r))
    /\ \A q \in Requests : WF_vars(CommitCancel(q))
    /\ \A t \in Tasks : WF_vars(LeaseExpires(t)) /\ WF_vars(BecomesDue(t))

LiveSpec == Spec /\ Fairness

-----------------------------------------------------------------------------
(* The inductive invariant behind AttemptBound. *)

Alive(o) == proc[o] \notin {"unborn", "gone"}

(* A row that may be claimed has an attempt left.                           *)
BudgetLeft(row) ==
    /\ row.attempt <= row.max
    /\ row.status \in Leaseable => row.attempt < row.max

(* One process at a time, and a process that is not up claims nothing.      *)
OneProcess ==
    /\ \A o, p \in Owners : Alive(o) /\ Alive(p) => o = p
    /\ \A o \in Owners : candidate[o] # NoTask => proc[o] = "up"

(* A retry already decided is still affordable when it is written: by       *)
(* _clear_finished_lease, during which its process claims nothing, ...      *)
RearmAffordable ==
    \A r \in Runs : run[r].pc = "rearm" =>
        /\ candidate[r[1]] = NoTask
        /\ table[run[r].task].attempt < table[run[r].task].max

(* ... or by recover_expired_leases, before its process claims at all.      *)
RecoveryAffordable ==
    \A o \in Owners :
        /\ proc[o] # "recovering" => snapshot[o] = NoVerdicts
        /\ \A t \in Tasks :
              /\ snapshot[o][t] = "retry_scheduled" =>
                    table[t].attempt < table[t].max
              /\ snapshot[o][t] # "none" => table[t].status \notin Leaseable

(* A run past "idle" has a task.                                            *)
RunHasTask == \A r \in Runs : run[r].pc # "idle" => run[r].task \in Tasks

(* ... and a process that is alive.                                         *)
RunsNeedProcess == \A r \in Runs : run[r].pc # "idle" => Alive(r[1])

(* No run exists before its process has recovered.                          *)
RecoveringIsIdle ==
    \A r \in Runs : proc[r[1]] = "recovering" => run[r].pc = "idle"

(* A cancel request past its read has a task and something to write.        *)
CancelsAreReal ==
    \A q \in Requests : cancel[q] # NoCancel =>
        cancel[q].task \in Tasks /\ cancel[q].write \in StopAsked

Inv ==
    /\ TypeOK
    /\ RunHasTask
    /\ RunsNeedProcess
    /\ RecoveringIsIdle
    /\ CancelsAreReal
    /\ \A t \in Tasks : BudgetLeft(table[t])
    /\ OneProcess
    /\ RearmAffordable
    /\ RecoveryAffordable

(* What keeps the runs of different rows apart: a process at a time with a  *)
(* run at a time, as deployed, or keys that are not used again, and leases  *)
(* that end only when their process has.                                    *)
Exclusive ==
    \/ SingleProcess /\ \A s, u \in Slots : s = u
    \/ MaxGen <= 1 /\ (SingleProcess \/ "expire" \notin Env)

(* The inductive invariant behind OneRunPerRow, LeaseFollowsStatus and      *)
(* NoRerunAfterSuccess: first who may act at all, ...                       *)
Live(r)       == run[r] # Idle
RunsRow(r, t) == Live(r) /\ run[r].task = t /\ run[r].gen = gen[t]

ActorsKnown ==
    /\ \A r \in Runs : run[r].pc = "idle" => run[r] = Idle
    /\ \A o \in Owners : candidate[o] # NoTask => proc[o] = "up"
    /\ \A q \in Requests : cancel[q] # NoCancel =>
          cancel[q].proc \in Owners /\ proc[cancel[q].proc] \in Serving
    /\ SingleProcess => \A o, p \in Owners : Alive(o) /\ Alive(p) => o = p
    /\ "expire" \notin Env => \A t \in Tasks : table[t].lease # "expired"

(* ... that a run has the generation of a row there was, ...                *)
GenerationsKnown ==
    /\ \A t \in Tasks : gen[t] <= MaxGen /\ (Present(table[t]) => gen[t] >= 1)
    /\ \A r \in Runs : Live(r) =>
          run[r].gen >= 1 /\ run[r].gen <= gen[run[r].task]

(* ... and nobody else's task, whose row it holds by its lease, ...         *)
OneRunPerTask ==
    \A r1, r2 \in Runs :
        Live(r1) /\ Live(r2) /\ run[r1].task = run[r2].task => r1 = r2

HoldsLease ==
    \A r \in Runs, t \in Tasks : RunsRow(r, t) /\ Present(table[t]) =>
        /\ table[t].owner = r[1] /\ table[t].lease # "none"
        /\ run[r].pc \in {"rearm", "release"} => table[t].status \notin Active

(* ... that it has not finished before, and what is decided about finished  *)
(* rows leaves them so.                                                     *)
Unfinished == PC \ {"idle", "done", "cancelling", "clear", "release"}

FinishedStays ==
    /\ \A t \in finished : table[t].status \in Succeeded \cup StopAsked
    /\ \A r \in Runs : run[r].pc \in Unfinished => run[r].task \notin finished

(* What a start has decided is of rows that no run works on.                *)
RecoveryAlone ==
    \A o \in Owners, t \in Tasks : snapshot[o][t] # "none" =>
        /\ proc[o] = "recovering" /\ "expire" \in Env
        /\ table[t].status \in Active \cup {"cancel_requested"}
        /\ t \in finished => snapshot[o][t] = "cancelled"

(* A row offered to the claim loop has no lease and no coroutine that could *)
(* still write to it, except one a deleted row has left behind.             *)
QueuedIsFree ==
    \A t \in Tasks : table[t].status \in Leaseable =>
        /\ table[t].owner = NoOwner /\ table[t].lease = "none"
        /\ \A r \in Runs : RunsRow(r, t) => run[r].pc = "idle"

(* An executing row has a lease for recover_expired_leases to find, so that *)
(* a crash at any point leaves nothing a later start cannot recover.  (Rows *)
(* on a reused key are excluded: a run whose own row was deleted writes to  *)
(* them.)                                                                   *)
ActiveHasLease ==
    \A t \in Tasks : table[t].status \in Active /\ gen[t] = 1 =>
        table[t].owner # NoOwner /\ table[t].lease # "none"

Kept ==
    /\ TypeOK
    /\ RunHasTask
    /\ RunsNeedProcess
    /\ RecoveringIsIdle
    /\ CancelsAreReal
    /\ ActorsKnown
    /\ GenerationsKnown
    /\ OneRunPerTask
    /\ HoldsLease
    /\ FinishedStays
    /\ RecoveryAlone
    /\ QueuedIsFree
    /\ ActiveHasLease

-----------------------------------------------------------------------------
(* Properties. *)

(* A task is executed at most max_attempts times, across failures, expired  *)
(* leases, crashes, restarts and cancels (claim_next_task counts, it is     *)
(* _clear_finished_lease and recover_expired_leases that must stop).        *)
AttemptBound == \A t \in Tasks : table[t].attempt <= table[t].max

(* No two coroutines execute the same row at once: what the second          *)
(* condition in claim_next_task's UPDATE is for.                            *)
OneRunPerRow ==
    \A r1, r2 \in Runs : \A t \in Tasks :
        RunsRow(r1, t) /\ RunsRow(r2, t) => r1 = r2

(* Status and lease go together, whoever claims, recovers, clears a lease   *)
(* or deletes a row between the sessions of a run.                          *)
LeaseFollowsStatus == QueuedIsFree /\ ActiveHasLease

(* What a run has finished is never queued or executed again, whatever      *)
(* cancels, timeouts, shutdowns and recoveries do to its row afterwards.    *)
NoRerunAfterSuccess ==
    \A t \in finished : table[t].status \notin Leaseable \cup Active

(* A row cancelled while no coroutine works on it is never executed: the    *)
(* cancel wins over a claim that selected the row before it.                *)
CancelBeatsClaim ==
    [][\A t \in Tasks :
          /\ table[t].status = "cancelled"
          /\ \A r \in Runs : run[r].task # t
          => table'[t].status \notin Active \cup Leaseable]_vars

(* While some process keeps polling, every task reaches a terminal status   *)
(* and keeps it, through crashes, stops and expired leases: retries run     *)
(* out, and no queued row waits for ever.  The rows that a process gone     *)
(* has left executing are the exception, which NoPermanentRunning is about. *)
Polling     == \E o \in Owners : proc[o] = "up"
Orphaned(t) == table[t].status \in Active /\ proc[table[t].owner] = "gone"
EverySettles ==
    <>[]Polling =>
        <>[](\A t \in Tasks : \/ table[t].status \in Terminal \cup {"absent"}
                              \/ Orphaned(t))

(* The platform keeps the retry budget of TaskPromise: each execution is    *)
(* paid for once, and nothing brings back a task whose budget is spent.     *)
Phase(row) == CASE row.status = "absent"    -> "absent"
                [] row.status \in Leaseable -> "waiting"
                [] OTHER                    -> "out"
Promise == INSTANCE TaskPromise WITH
    Keys   <- Tasks,
    phase  <- [t \in Tasks |-> Phase(table[t])],
    spent  <- [t \in Tasks |-> table[t].attempt],
    budget <- [t \in Tasks |-> table[t].max]
KeepsPromise == Promise!Spec

(* Stated by the documentation or the tests, and not so (see README).       *)

(* A cancel the API has acknowledged keeps the task from succeeding.        *)
AckedCancelHolds == \A t \in asked : table[t].status \notin Succeeded

(* Only a user's cancel makes a task "Cancelled by user".                   *)
CancelledByUser ==
    \A t \in Tasks : table[t].status = "cancelled" => t \in asked

(* A row left executing by a crash does not stay that way.                  *)
NoPermanentRunning ==
    <>[]Polling => \A t \in Tasks :
        (table[t].status \in Active) ~> (table[t].status \notin Active)
=============================================================================

------------------------------ MODULE CronQueue ------------------------------
(****************************************************************************)
(* The task queue of CronService (app/services/cron_service.py): a queue of *)
(* ids, a processor that start() creates and that runs one task at a time,  *)
(* and stop() and stop_task(), which cancel.                                *)
(*                                                                          *)
(* An action is what the event loop does between two awaits.  Waiting for   *)
(* the queue goes through the wait_for of Python 3.11 (the Dockerfile's),   *)
(* where a task of its own takes the item: a cancellation that comes after  *)
(* the item has been taken, and before the processor has it, is lost.       *)
(****************************************************************************)
EXTENDS Naturals, Sequences, FiniteSets, SequencesExt

CONSTANTS
    Ids, NoId,    \* task ids
    MaxStarts,    \* bound: how often start() creates a processor
    Stoppers         \* calls of stop()

CronAssumption == NoId \notin Ids /\ MaxStarts \in Nat \ {0}

Procs == 1 .. MaxStarts

VARIABLES
    queue,    \* task_queue
    queued,   \* _queued_task_ids
    bound,    \* _queue_loop is the loop of the application
    running,  \* _running
    worker,   \* _worker_task: the newest processor, 0 before the first
    proc,     \* the processors, each with the task it is running
    stop      \* stop() calls: what each one is waiting for

vars == <<queue, queued, bound, running, worker, proc, stop>>

(* exec is the state of _execute_task, hit says who has cancelled it, deaf  *)
(* that the processor has lost a cancellation of its own.                   *)
Proc == [at : {"unused", "new", "get", "got", "await", "ended"},
         id : Ids \cup {NoId}, cancel : BOOLEAN, deaf : BOOLEAN,
         exec : {"none", "new", "running", "success", "failed", "cancelled"},
         hit : {"no", "stop", "stop_task"}]

Stop == [at : {"idle", "worker", "tasks"}, on : 0 .. MaxStarts,
         left : SUBSET Procs]
NoStop == [at |-> "idle", on |-> 0, left |-> {}]

TypeOK ==
    /\ queue \in Seq(Ids) /\ Len(queue) <= Cardinality(Ids)
    /\ queued \subseteq Ids
    /\ bound \in BOOLEAN /\ running \in BOOLEAN
    /\ worker \in 0 .. MaxStarts
    /\ proc \in [Procs -> Proc]
    /\ stop \in [Stoppers -> Stop]

Init ==
    /\ queue = <<>> /\ queued = {}
    /\ bound = FALSE /\ running = FALSE
    /\ worker = 0
    /\ proc = [p \in Procs |-> [at |-> "unused", id |-> NoId, cancel |-> FALSE,
                                deaf |-> FALSE, exec |-> "none", hit |-> "no"]]
    /\ stop = [s \in Stoppers |-> NoStop]

(* running_tasks, by the processors that run them.                          *)
Awaiting      == {p \in Procs : proc[p].at = "await"}
running_tasks == {proc[p].id : p \in Awaiting}
Unfinished(p) == proc[p].exec \in {"new", "running"}

-----------------------------------------------------------------------------
(* start(): on its first call the queue is made anew.                       *)
start ==
    /\ ~running
    /\ worker < MaxStarts
    /\ running' = TRUE
    /\ bound' = TRUE
    /\ queue' = IF bound THEN queue ELSE <<>>
    /\ queued' = IF bound THEN queued ELSE {}
    /\ worker' = worker + 1
    /\ proc' = [proc EXCEPT ![worker + 1].at = "new"]
    /\ UNCHANGED stop

(* Wrong on purpose: only what is being run is known.                       *)
KnownRunning(i) == i \in running_tasks

Known(i) == i \in running_tasks \cup queued

add_task(i) ==
    /\ ~Known(i)
    /\ queued' = queued \cup {i}
    /\ queue' = Append(queue, i)
    /\ UNCHANGED <<bound, running, worker, proc, stop>>

-----------------------------------------------------------------------------
(* _process_queue and _execute_task.                                        *)

(* Wrong on purpose: the loop has no condition.                             *)
LoopsForever(p) == [proc[p] EXCEPT !.at = "get", !.id = NoId, !.exec = "none"]

(* The loop's condition is looked at again.                                 *)
Loops(p) == [proc[p] EXCEPT !.at = IF running THEN "get" ELSE "ended",
                            !.id = NoId, !.exec = "none"]

Breaks(p) == [proc[p] EXCEPT !.at = "ended", !.id = NoId, !.cancel = FALSE]

Enter(p) ==
    /\ proc[p].at = "new"
    /\ proc' = [proc EXCEPT ![p] = IF proc[p].cancel THEN Breaks(p) ELSE Loops(p)]
    /\ UNCHANGED <<queue, queued, bound, running, worker, stop>>

(* The getter inside wait_for takes an item.                                *)
Get(p) ==
    /\ proc[p].at = "get"
    /\ queue # <<>>
    /\ proc' = [proc EXCEPT ![p].at = "got", ![p].id = Head(queue)]
    /\ queue' = Tail(queue)
    /\ UNCHANGED <<queued, bound, running, worker, stop>>

(* A second has passed, or the wait has been cancelled.                     *)
Timeout(p) ==
    /\ proc[p].at = "get"
    /\ proc[p].cancel \/ ~running
    /\ proc' = [proc EXCEPT ![p] = IF proc[p].cancel THEN Breaks(p) ELSE Loops(p)]
    /\ UNCHANGED <<queue, queued, bound, running, worker, stop>>

(* wait_for returns the item, whether or not it has been cancelled.         *)
Take(p) ==
    /\ proc[p].at = "got"
    /\ proc' = [proc EXCEPT ![p] =
          IF proc[p].id \in running_tasks
          THEN Loops(p)
          ELSE [@ EXCEPT !.at = "await", !.exec = "new", !.cancel = FALSE,
                         !.deaf = @ \/ proc[p].cancel]]
    /\ UNCHANGED <<queue, queued, bound, running, worker, stop>>

(* The handler is called; there may be none for the type.                   *)
Execute(p) ==
    /\ proc[p].exec = "new" /\ proc[p].hit = "no"
    /\ \E e \in {"running", "failed"} : proc' = [proc EXCEPT ![p].exec = e]
    /\ UNCHANGED <<queue, queued, bound, running, worker, stop>>

HandlerEnds(p) ==
    /\ proc[p].exec = "running" /\ proc[p].hit = "no"
    /\ \E e \in {"success", "failed"} : proc' = [proc EXCEPT ![p].exec = e]
    /\ UNCHANGED <<queue, queued, bound, running, worker, stop>>

HandlerCancelled(p) ==
    /\ Unfinished(p) /\ proc[p].hit # "no"
    /\ proc' = [proc EXCEPT ![p].exec = "cancelled"]
    /\ UNCHANGED <<queue, queued, bound, running, worker, stop>>

(* Wrong on purpose: the set of queued ids is left to grow.                 *)
KeepQueued(p) == queued

(* The finally clause forgets the id.                                       *)
Forget(p) == queued \ {proc[p].id}

(* Wrong on purpose: a task that fails ends the processor too.              *)
InterruptedByFailure(p) == proc[p].cancel \/ proc[p].exec # "success"

(* The CancelledError of a cancelled task looks like one of its own.        *)
Interrupted(p) == proc[p].cancel \/ proc[p].exec = "cancelled"

(* The processor wakes up.                                                  *)
Resume(p) ==
    /\ proc[p].at = "await" /\ ~Unfinished(p)
    /\ queued' = Forget(p)
    /\ proc' = [proc EXCEPT ![p] = IF Interrupted(p) THEN Breaks(p) ELSE Loops(p)]
    /\ UNCHANGED <<queue, bound, running, worker, stop>>

-----------------------------------------------------------------------------
(* Wrong on purpose: the processor is left to see that running is false.    *)
LeftAlone(p) == proc[p]

(* To cancel a processor that awaits a task is to cancel the task.          *)
Cancelled(p) ==
    IF proc[p].at = "await" /\ Unfinished(p)
    THEN [proc[p] EXCEPT !.hit = "stop"]
    ELSE [proc[p] EXCEPT !.cancel = proc[p].at # "ended"]

Stop1(s) ==
    /\ running
    /\ stop[s] = NoStop
    /\ running' = FALSE
    /\ proc' = [proc EXCEPT ![worker] = Cancelled(worker)]
    /\ stop' = [stop EXCEPT ![s] = [at |-> "worker", on |-> worker, left |-> {}]]
    /\ UNCHANGED <<queue, queued, bound, worker>>

(* The worker is gone: the tasks that run now are cancelled in turn.        *)
Stop2(s) ==
    /\ stop[s].at = "worker"
    /\ proc[stop[s].on].at = "ended"
    /\ stop' = [stop EXCEPT ![s] = [at |-> "tasks", on |-> 0, left |-> Awaiting]]
    /\ UNCHANGED <<queue, queued, bound, running, worker, proc>>

Stop3(s) ==
    /\ stop[s].at = "tasks" /\ stop[s].on = 0
    /\ \E p \in stop[s].left :
        /\ stop' = [stop EXCEPT ![s].on = p, ![s].left = @ \ {p}]
        /\ proc' = IF Unfinished(p) THEN [proc EXCEPT ![p].hit = "stop"] ELSE proc
    /\ UNCHANGED <<queue, queued, bound, running, worker>>

(* A task that has failed meanwhile makes stop() raise.                     *)
Stop4(s) ==
    /\ stop[s].at = "tasks" /\ stop[s].on # 0
    /\ ~Unfinished(stop[s].on)
    /\ stop' = [stop EXCEPT ![s] = IF proc[stop[s].on].exec = "failed"
                                   THEN NoStop ELSE [@ EXCEPT !.on = 0]]
    /\ UNCHANGED <<queue, queued, bound, running, worker, proc>>

StopReturns(s) ==
    /\ stop[s].at = "tasks" /\ stop[s].on = 0 /\ stop[s].left = {}
    /\ stop' = [stop EXCEPT ![s] = NoStop]
    /\ UNCHANGED <<queue, queued, bound, running, worker, proc>>

stop_task(i) ==
    /\ \E p \in Awaiting :
        /\ proc[p].id = i
        /\ Unfinished(p)
        /\ proc' = [proc EXCEPT ![p].hit = "stop_task"]
    /\ UNCHANGED <<queue, queued, bound, running, worker, stop>>

-----------------------------------------------------------------------------
Work(p) ==
    \/ Enter(p) \/ Get(p) \/ Timeout(p) \/ Take(p) \/ Execute(p)
    \/ HandlerEnds(p) \/ HandlerCancelled(p) \/ Resume(p)

Stopping(s) == Stop2(s) \/ Stop3(s) \/ Stop4(s) \/ StopReturns(s)

Next ==
    \/ start
    \/ \E i \in Ids : add_task(i) \/ stop_task(i)
    \/ \E p \in Procs : Work(p)
    \/ \E s \in Stoppers : Stop1(s) \/ Stopping(s)

Spec == Init /\ [][Next]_vars

(* The loop resumes what is ready, and handlers come to an end.             *)
Fairness ==
    /\ \A p \in Procs : WF_vars(Work(p))
    /\ \A s \in Stoppers : WF_vars(Stopping(s))

-----------------------------------------------------------------------------
Live(p) == proc[p].at \notin {"unused", "ended"}

(* An id waits or is run once, by whichever processor, and is remembered as *)
(* queued exactly as long: no task runs twice at a time, and none is locked *)
(* out after it has ended.                                                  *)
Tracked ==
    LET held == {p \in Procs : proc[p].id # NoId} IN
    /\ IsInjective(queue)
    /\ \A p, q \in held : proc[p].id = proc[q].id => p = q
    /\ ToSet(queue) \cap {proc[p].id : p \in held} = {}
    /\ queued = ToSet(queue) \cup {proc[p].id : p \in held}

(* A service that runs has its processor, unless the task that it was       *)
(* running has been cancelled, by stop_task or by a stop() still under way. *)
HasProcessor ==
    running => worker # 0 /\ (Live(worker) \/ proc[worker].hit # "no")

(* Beside the newest processor none is at work, except one that has been    *)
(* told to end, or has lost that in wait_for.                               *)
OneProcessor ==
    \A p \in Procs : Live(p) /\ p # worker =>
        proc[p].cancel \/ proc[p].deaf \/ proc[p].hit # "no"

(* What has been queued is run, unless the service is stopped or has lost   *)
(* its processor.                                                           *)
QueueDrains ==
    \A i \in Ids : i \in queued ~>
        i \notin queued \/ ~running \/ ~Live(worker)

(* stop() comes to an end; only if the service is started again meanwhile   *)
(* may it wait for ever, for a processor that has lost the cancellation.    *)
StopEnds == \A s \in Stoppers : stop[s].at # "idle" ~> stop[s].at = "idle" \/ running
=============================================================================

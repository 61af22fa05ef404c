----------------------------- MODULE TaskScheduler ---------------------------
(****************************************************************************)
(* Task and TaskScheduler (app/services/platform/task_scheduler.py): tasks  *)
(* with a time to run at, a loop that starts those whose time has come, and *)
(* calls that run, change, stop or delete a task in between.                *)
(*                                                                          *)
(* Time is abstract: a task is due or not, and the clock makes it due.      *)
(****************************************************************************)
EXTENDS Naturals, FiniteSets

CONSTANTS
    TaskIds,
    Execs       \* bound: coroutines of Task.run that exist at a time

VARIABLES
    task,       \* the tasks: status, enabled, due, in the scheduler or not
    exec,       \* coroutines of run: created, in the handler, or not there
    active      \* _running of the scheduler

vars == <<task, exec, active>>

TaskStatus == {"pending", "running", "completed", "failed", "stopped"}

Task == [known : {"no", "yes", "deleted"}, status : TaskStatus,
         enabled : BOOLEAN, due : BOOLEAN]

(* by tells who runs it; stale is TRUE once another has written the status  *)
(* since the coroutine entered the handler: a stop, or the end of a run     *)
(* that the stop left going on.                                             *)
Exec == [at : {"none", "created", "handler"}, of : TaskIds,
         by : {"loop", "call"}, stale : BOOLEAN]
None(e) == exec[e].at = "none"

TypeOK ==
    /\ task \in [TaskIds -> Task]
    /\ exec \in [Execs -> Exec]
    /\ active \in BOOLEAN

Init ==
    /\ task = [t \in TaskIds |-> [known |-> "no", status |-> "pending",
                                  enabled |-> FALSE, due |-> FALSE]]
    /\ \E t \in TaskIds :
        exec = [e \in Execs |-> [at |-> "none", of |-> t, by |-> "loop",
                                 stale |-> FALSE]]
    /\ active = FALSE

In(t)       == {e \in Execs : exec[e].at = "handler" /\ exec[e].of = t}
Vacant(e)   == [exec[e] EXCEPT !.at = "none", !.by = "loop", !.stale = FALSE]

-----------------------------------------------------------------------------
(* _calculate_next_run: the next run is in the future, but for a weekly     *)
(* task on its day of the week, for which it is the midnight that is past.  *)
NextRun == BOOLEAN

add_task(t) ==
    /\ task[t].known = "no"
    /\ \E enabled \in BOOLEAN, due \in NextRun :
        task' = [task EXCEPT ![t] = [known |-> "yes", status |-> "pending",
                                     enabled |-> enabled, due |-> due]]
    /\ UNCHANGED <<exec, active>>

update_task(t) ==
    /\ task[t].known = "yes"
    /\ \E enabled \in BOOLEAN, due \in NextRun :
        task' = [task EXCEPT ![t].enabled = enabled, ![t].due = due]
    /\ UNCHANGED <<exec, active>>

(* Task.stop                                                                *)
Stopped(t) == [task[t] EXCEPT !.status = "stopped", !.enabled = FALSE]
Staled(ts) == [e \in Execs |-> IF exec[e].at = "handler" /\ exec[e].of \in ts
                               THEN [exec[e] EXCEPT !.stale = TRUE] ELSE exec[e]]

(* A deleted task may still be run by the coroutines that have it.          *)
delete_task(t) ==
    /\ task[t].known = "yes"
    /\ task' = [task EXCEPT ![t] = [Stopped(t) EXCEPT !.known = "deleted"]]
    /\ exec' = Staled({t})
    /\ UNCHANGED active

start ==
    /\ ~active
    /\ active' = TRUE
    /\ UNCHANGED <<task, exec>>

Members == {t \in TaskIds : task[t].known = "yes"}

stop ==
    /\ active
    /\ active' = FALSE
    /\ task' = [t \in TaskIds |-> IF t \in Members THEN Stopped(t) ELSE task[t]]
    /\ exec' = Staled(Members)

-----------------------------------------------------------------------------
Clock(t) ==
    /\ task[t].known = "yes" /\ ~task[t].due
    /\ task' = [task EXCEPT ![t].due = TRUE]
    /\ UNCHANGED <<exec, active>>

should_run(t) == task[t].enabled /\ task[t].due

(* Wrong on purpose: the status is taken for a mark of what has been done.  *)
RipeOnce == {t \in Members : should_run(t) /\ task[t].status = "pending"}

Ripe == {t \in Members : should_run(t)}

(* _scheduler_loop: once a minute, long after what it created the last time *)
(* has taken its first step.                                                *)
Look ==
    LET ripe == Ripe IN
    /\ active
    /\ ripe # {}
    /\ \A e \in Execs : exec[e].at # "created"
    /\ \E f \in [ripe -> Execs] :
        /\ \A t, u \in ripe : f[t] = f[u] => t = u
        /\ \A t \in ripe : None(f[t])
        /\ exec' = [e \in Execs |->
              IF \E t \in ripe : f[t] = e
              THEN [at |-> "created", of |-> CHOOSE t \in ripe : f[t] = e,
                    by |-> "loop", stale |-> FALSE]
              ELSE exec[e]]
    /\ UNCHANGED <<task, active>>

Entered(e, t, by) ==
    /\ task' = [task EXCEPT ![t].status = "running"]
    /\ exec' = [exec EXCEPT ![e] = [at |-> "handler", of |-> t, by |-> by,
                                    stale |-> FALSE]]

(* Wrong on purpose: a task whose time has come is run in any status.       *)
IdleOrDue(t) == task[t].status # "running" \/ task[t].due

Idle(t) == task[t].status # "running"

(* Task.run, by the loop and by run_task_immediately.                       *)
RunByLoop(e) ==
    /\ exec[e].at = "created"
    /\ IF Idle(exec[e].of)
       THEN Entered(e, exec[e].of, "loop")
       ELSE exec' = [exec EXCEPT ![e] = Vacant(e)] /\ UNCHANGED task
    /\ UNCHANGED active

run_task_immediately(t) ==
    /\ task[t].known = "yes"
    /\ Idle(t)
    /\ \E e \in Execs : None(e) /\ Entered(e, t, "call")
    /\ UNCHANGED active

HandlerEnds(e) ==
    /\ exec[e].at = "handler"
    /\ \E st \in {"completed", "failed"}, due \in NextRun :
        task' = [task EXCEPT ![exec[e].of].status = st,
                             ![exec[e].of].due = due]
    /\ exec' = [Staled({exec[e].of}) EXCEPT ![e] = Vacant(e)]
    /\ UNCHANGED active

(* The caller of run_task_immediately is cancelled, which is no Exception:  *)
(* the status is left as it is.                                             *)
CallerCancelled(e) ==
    /\ exec[e].at = "handler" /\ exec[e].by = "call"
    /\ \E due \in NextRun : task' = [task EXCEPT ![exec[e].of].due = due]
    /\ exec' = [exec EXCEPT ![e] = Vacant(e)]
    /\ UNCHANGED active

-----------------------------------------------------------------------------
Next ==
    \/ \E t \in TaskIds :
        \/ add_task(t) \/ update_task(t) \/ delete_task(t)
        \/ Clock(t) \/ run_task_immediately(t)
    \/ start \/ stop \/ Look
    \/ \E e \in Execs : RunByLoop(e) \/ HandlerEnds(e) \/ CallerCancelled(e)

Spec == Init /\ [][Next]_vars

(* The loop goes on, and coroutines that can go on do.                      *)
Fairness ==
    /\ WF_vars(Look)
    /\ \A e \in Execs : WF_vars(RunByLoop(e)) /\ WF_vars(HandlerEnds(e))

-----------------------------------------------------------------------------
(* The loop and the calls never run a task twice at a time; only one that   *)
(* has been stopped or deleted while its handler went on, or that such a    *)
(* handler has then declared completed, can be run anew beside another.     *)
RunsOnce ==
    \A t \in TaskIds : (\A e \in In(t) : ~exec[e].stale) => Cardinality(In(t)) <= 1

(* A task that is enabled and due is run, or something is done about it:    *)
(* unless the scheduler stops, or the task is stuck in status running       *)
(* because the caller that ran it was cancelled.                            *)
DueIsRun ==
    \A t \in TaskIds : active /\ should_run(t) ~>
        \/ ~active \/ ~should_run(t)
        \/ In(t) # {}
        \/ task[t].status = "running"
=============================================================================

---------------------------- MODULE MCBackground ----------------------------
(****************************************************************************)
(* The background work that keeps its state in memory only: CronQueue,      *)
(* TaskScheduler, CloudWorkflow and OptimizeLoop for TLC.  They share no    *)
(* state, so that one run takes one of them at a time: the scene.           *)
(****************************************************************************)
EXTENDS Naturals, Sequences, FiniteSets, SequencesExt

CONSTANTS
    Ids, NoId, MaxStarts, Stoppers,    \* CronQueue
    TaskIds, Execs,                 \* TaskScheduler
    MaxTasks, MaxKeep, MaxOps,      \* CloudWorkflow
    P, Q, F, G, MaxAgents           \* OptimizeLoop

VARIABLES
    scene,
    queue, queued, bound, running, worker, proc, stop,
    task, exec, active,
    tasks, status, handles, co,
    code, phase, todo, base, ver, agent, stray, report, stopfile

Cron      == INSTANCE CronQueue
Scheduler == INSTANCE TaskScheduler
Workflow  == INSTANCE CloudWorkflow
Optimize  == INSTANCE OptimizeLoop WITH
               Commands <- {P, Q}, Lanes <- {F, G},
               LaneOf <- [c \in {P, Q} |-> IF c = P THEN F ELSE G], stop <- stopfile

ASSUME CronConstants     == Cron!CronAssumption
ASSUME WorkflowConstants == Workflow!WorkflowAssumption
ASSUME OptimizeConstants == Optimize!LoopAssumption

cron      == <<queue, queued, bound, running, worker, proc, stop>>
scheduler == <<task, exec, active>>
workflow  == <<tasks, status, handles, co>>
optimize  == <<code, phase, todo, base, ver, agent, stray, report, stopfile>>
vars      == <<scene, cron, scheduler, workflow, optimize>>

(* The loop is up from the start: in the other scenes it has ended.         *)
OptimizeEnded ==
    /\ phase = "stopped" /\ todo = {} /\ stray = "none" /\ stopfile = TRUE
    /\ code = [c \in {P, Q} |-> "good"]
    /\ base = Optimize!NoResults /\ ver = base /\ report = base
    /\ agent = [l \in {F, G} |-> "none"]

Init ==
    /\ scene \in {"cron", "scheduler", "workflow", "optimize"}
    /\ Cron!Init /\ Scheduler!Init /\ Workflow!Init
    /\ IF scene = "optimize" THEN Optimize!Init ELSE OptimizeEnded

Next ==
    \/ /\ scene = "cron" /\ Cron!Next
       /\ UNCHANGED <<scene, scheduler, workflow, optimize>>
    \/ /\ scene = "scheduler" /\ Scheduler!Next
       /\ UNCHANGED <<scene, cron, workflow, optimize>>
    \/ /\ scene = "workflow" /\ Workflow!Next
       /\ UNCHANGED <<scene, cron, scheduler, optimize>>
    \/ /\ scene = "optimize" /\ Optimize!Next
       /\ UNCHANGED <<scene, cron, scheduler, workflow>>

Spec ==
    /\ Init /\ [][Next]_vars
    /\ Cron!Fairness /\ Workflow!Fairness /\ Scheduler!Fairness /\ Optimize!Fair

-----------------------------------------------------------------------------
(* CronService: the ids kept against a second run are those of tasks that   *)
(* are queued or run, a service that runs has one processor for its queue,  *)
(* what is queued is run, and stop() returns.                               *)
CronHolds ==
    /\ [](Cron!TypeOK /\ Cron!Tracked /\ Cron!HasProcessor /\ Cron!OneProcessor)
    /\ Cron!QueueDrains
    /\ Cron!StopEnds

(* TaskScheduler: a task that is due is run, by one execution at a time.    *)
SchedulerHolds == [](Scheduler!TypeOK /\ Scheduler!RunsOnce) /\ Scheduler!DueIsRun

(* Cloud rename workflow: one under way can be asked for and stopped, one   *)
(* that is completed has done all operations, each comes to an end, which   *)
(* is final, and the oldest that has ended is forgotten first.              *)
WorkflowHolds ==
    /\ [](Workflow!TypeOK /\ Workflow!Reachable /\ Workflow!CompleteIsAll)
    /\ Workflow!EndIsFinal
    /\ Workflow!ForgetsOldest
    /\ Workflow!WorkflowEnds

(* continuous_optimize.py: a failure reported as mended is mended, none is  *)
(* hidden by removing its tests, and the stop file ends the loop.           *)
LoopHolds ==
    /\ [](Optimize!TypeOK /\ Optimize!MendedIsMended /\ Optimize!FailureVisible)
    /\ Optimize!StopFileStops
=============================================================================

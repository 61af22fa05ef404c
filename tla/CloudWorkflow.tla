----------------------------- MODULE CloudWorkflow ---------------------------
(****************************************************************************)
(* The workflow tasks of smart rename on the Quark drive                    *)
(* (app/api/quark.py): a request creates a coroutine that makes a preview   *)
(* and then renames file after file, while others ask for it or cancel it.  *)
(*                                                                          *)
(* The lock is never held across an await that waits, so that an action is  *)
(* what happens between two calls of the drive.  A client learns the id of  *)
(* its workflow when the coroutine has taken its first step.                *)
(****************************************************************************)
EXTENDS Naturals, Sequences, FiniteSets, SequencesExt

CONSTANTS
    MaxTasks,   \* bound: workflows, numbered as they are created
    MaxKeep,    \* _CLOUD_WORKFLOW_MAX_KEEP
    MaxOps      \* bound: files of one preview

WorkflowAssumption ==
    MaxTasks \in Nat /\ MaxKeep \in Nat \ {0} /\ MaxOps \in Nat

Tasks == 1 .. MaxTasks

VARIABLES
    tasks,      \* _cloud_workflow_tasks, the least recently updated first
    status,     \* the status of each workflow
    handles,    \* _cloud_workflow_handles
    co          \* the coroutines of _run_cloud_workflow_task

vars == <<tasks, status, handles, co>>

Terminal == {"completed", "failed", "cancelled"}
Status   == {"none", "pending", "running"} \cup Terminal

(* total is the number of files to rename, counted how many of them         *)
(* execute_cloud_rename has an outcome for: success, skipped or failed.     *)
Coroutine == [at : {"unused", "new", "preview", "rename", "done"},
              total : 0 .. MaxOps, counted : 0 .. MaxOps, cancel : BOOLEAN]

TypeOK ==
    /\ tasks \in Seq(Tasks) /\ IsInjective(tasks)
    /\ status \in [Tasks -> Status]
    /\ handles \subseteq Tasks
    /\ co \in [Tasks -> Coroutine]

Init ==
    /\ tasks = <<>>
    /\ status = [t \in Tasks |-> "none"]
    /\ handles = {}
    /\ co = [t \in Tasks |-> [at |-> "unused", total |-> 0, counted |-> 0,
                               cancel |-> FALSE]]

Alive(t) == co[t].at \in {"new", "preview", "rename"}

-----------------------------------------------------------------------------
(* _workflow_task_update: nothing if the task is not there any more.        *)
Touched(t) == Append(Remove(tasks, t), t)

Update(t, st) ==
    IF t \in ToSet(tasks)
    THEN tasks' = Touched(t) /\ status' = [status EXCEPT ![t] = st]
    ELSE UNCHANGED <<tasks, status>>

(* Wrong on purpose: only the age of a task counts.                         *)
PrunedByAge(list) ==
    LET drop == Len(list) - MaxKeep IN
    IF drop <= 0 THEN list ELSE SubSeq(list, drop + 1, Len(list))

(* _prune_workflow_tasks: those with a handle are kept.                     *)
Pruned(list) ==
    LET recent == {list[k] : k \in {j \in DOMAIN list : j > Len(list) - MaxKeep}}
    IN SelectSeq(list, LAMBDA t : t \in recent \cup handles)

create_cloud_workflow_task(t) ==
    /\ status[t] = "none"
    /\ \A u \in Tasks : u < t => status[u] # "none"
    /\ tasks' = Pruned(Append(tasks, t))
    /\ status' = [status EXCEPT ![t] = "pending"]
    /\ handles' = handles \cup {t}
    /\ co' = [co EXCEPT ![t].at = "new"]

(* Wrong on purpose: the coroutine is left to go on.                        *)
StoppedLater(t) == co

Stopped(t) == IF t \in handles THEN [co EXCEPT ![t].cancel = TRUE] ELSE co

cancel_cloud_workflow_task(t) ==
    /\ t \in ToSet(tasks)
    /\ co[t].at # "new"
    /\ status[t] \notin Terminal
    /\ Update(t, "cancelled")
    /\ co' = Stopped(t)
    /\ UNCHANGED handles

-----------------------------------------------------------------------------
(* _run_cloud_workflow_task                                                 *)

(* Wrong on purpose: there is no finally clause.                            *)
EndsHeld(t, st) ==
    /\ Update(t, st)
    /\ co' = [co EXCEPT ![t].at = "done", ![t].cancel = FALSE]
    /\ UNCHANGED handles

(* The end of the coroutine, with its finally clause.                       *)
Ends(t, st) ==
    /\ Update(t, st)
    /\ co' = [co EXCEPT ![t].at = "done", ![t].cancel = FALSE]
    /\ handles' = handles \ {t}

Start(t) ==
    /\ co[t].at = "new"
    /\ Update(t, "running")
    /\ co' = [co EXCEPT ![t].at = "preview"]
    /\ UNCHANGED handles

(* There is a preview, and files to rename.                                 *)
Previewed(t) ==
    /\ co[t].at = "preview" /\ ~co[t].cancel
    /\ Update(t, "running")
    /\ \E n \in 1 .. MaxOps :
        co' = [co EXCEPT ![t].at = "rename", ![t].total = n]
    /\ UNCHANGED handles

(* Only a preview was asked for, or it has nothing to rename.               *)
PreviewIsAll(t) ==
    /\ co[t].at = "preview" /\ ~co[t].cancel
    /\ Ends(t, "completed")

(* The drive has answered for one file, or its call has failed.             *)
RenameOne(t) ==
    /\ co[t].at = "rename" /\ ~co[t].cancel
    /\ co[t].counted < co[t].total
    /\ co' = [co EXCEPT ![t].counted = @ + 1]
    /\ UNCHANGED <<tasks, status, handles>>

(* Wrong on purpose: the last answer is not waited for.                     *)
SettledBefore(t) == co[t].counted + 1 >= co[t].total

Settled(t) == co[t].counted = co[t].total

Complete(t) ==
    /\ co[t].at = "rename" /\ ~co[t].cancel
    /\ Settled(t)
    /\ Ends(t, "completed")

(* The preview, or what surrounds the renames, raises.                      *)
Fail(t) ==
    /\ \/ co[t].at = "preview"
       \/ co[t].at = "rename" /\ co[t].counted \in {0, co[t].total}
    /\ ~co[t].cancel
    /\ Ends(t, "failed")

CancelLands(t) ==
    /\ Alive(t) /\ co[t].cancel
    /\ Ends(t, "cancelled")

-----------------------------------------------------------------------------
Run(t) ==
    \/ Start(t) \/ Previewed(t) \/ PreviewIsAll(t) \/ RenameOne(t)
    \/ Complete(t) \/ Fail(t) \/ CancelLands(t)

Next == \E t \in Tasks :
    create_cloud_workflow_task(t) \/ cancel_cloud_workflow_task(t) \/ Run(t)

Spec == Init /\ [][Next]_vars

(* Every call of the drive comes back, with an answer or an error.          *)
Fairness == \A t \in Tasks : WF_vars(Run(t))

-----------------------------------------------------------------------------
(* A workflow that goes on can be asked for and cancelled, however many     *)
(* others have been created since: it is in both dictionaries.              *)
Reachable == \A t \in Tasks : Alive(t) <=> t \in handles /\ t \in ToSet(tasks)

(* What has ended has ended: a workflow that is completed, failed or        *)
(* cancelled keeps that status, and no further file is renamed for it.      *)
EndIsFinal ==
    [][\A t \in Tasks : status[t] \in Terminal =>
         status'[t] = status[t] /\ co'[t].counted = co[t].counted]_vars

(* A workflow that is told completed has an answer for each of its files.   *)
CompleteIsAll ==
    \A t \in Tasks : status[t] = "completed" =>
        co[t].counted = co[t].total

(* Only what is over is forgotten, and only for MaxKeep others that have    *)
(* been updated since.                                                      *)
ForgetsOldest ==
    [][\A t \in ToSet(tasks) \ ToSet(tasks') :
         /\ status[t] \in Terminal
         /\ Len(SelectSeq(tasks', LAMBDA u : u \notin ToSet(tasks)
                 \/ SelectInSeq(tasks, LAMBDA v : v = u)
                      > SelectInSeq(tasks, LAMBDA v : v = t))) >= MaxKeep]_vars

(* Every workflow ends, and gives its handle back.                          *)
WorkflowEnds ==
    \A t \in Tasks : Alive(t) ~> status[t] \in Terminal /\ t \notin handles
=============================================================================

----------------------------- MODULE WriteQueue -----------------------------
(****************************************************************************)
(* AsyncWriteQueue (app/core/db_write_queue.py): threads submit writes,     *)
(* worker threads pop them in batches and commit each batch, group by group *)
(* of one model, in one transaction.                                        *)
(*                                                                          *)
(* A write is known by the sequence number submit() draws for it; the task  *)
(* it creates goes by the same number, and a write merged into an earlier   *)
(* task goes into the writes of that one.  Of the data only this is kept:   *)
(* which writes it holds, and whether it still names its row.               *)
(*                                                                          *)
(* Every stretch under one lock is a step, and so is a statement outside    *)
(* the locks that another thread can see.  CPython switches threads at      *)
(* calls and jumps only, so that retry_count += 1 is not torn.              *)
(****************************************************************************)
EXTENDS Naturals, Sequences, FiniteSets, Functions, TLC

CONSTANTS
    Producers,      \* threads that call submit
    Threads,        \* identities for worker threads
    NoThread,       \* nobody holds the queue lock in _get_batch
    MaxWorkers,     \* max_workers
    Keys, NoKey,    \* merge keys, and merge_key=None
    Ops,            \* operations in use
    Priorities,     \* priorities in use
    Models,         \* model classes in use
    Registered,     \* those in _model_registry
    MaxQueue,       \* max_queue_size
    BatchSize,      \* batch_size
    MaxRetries,     \* WriteTask.max_retries
    MaxWrites,      \* bound: calls of submit
    Faults,         \* what the database may do
    Control         \* what the owner of the queue may do

WritePriority == [low |-> 0, normal |-> 1, high |-> 2, critical |-> 3]

ASSUME QueueAssumption ==
    /\ NoThread \notin Threads /\ NoKey \notin Keys
    /\ MaxWorkers \in Nat \ {0} /\ BatchSize \in Nat \ {0}
    /\ MaxQueue \in Nat /\ MaxRetries \in Nat \ {0} /\ MaxWrites \in Nat
    /\ Ops \subseteq {"insert", "update", "delete", "upsert"}
    /\ Priorities \subseteq DOMAIN WritePriority
    /\ Registered \subseteq Models
    /\ Faults \subseteq {"raise", "commit"}
    /\ Control \subseteq {"stop", "slow", "restart", "clear"}

Writes  == 1 .. MaxWrites
NoWrite == 0

(* Worker threads start, work and leave alike.                              *)
ThreadSymmetry == Permutations(Threads)

VARIABLES
    task,       \* the WriteTasks by number; its length is _sequence
    queue,      \* how often each task is in the heap
    cache,      \* _merge_cache
    prod,       \* the call of submit of each producer
    hand,       \* each worker thread, with the batch it has taken
    holder,     \* the worker that keeps _not_empty while it collects
    running,    \* _running
    joining,    \* stop() is waiting for the workers
    acked,      \* history: writes whose submit has returned an id
    told,       \* history: what a task's owner has heard, clear() included
    applied,    \* history: what was committed, in order
    tries       \* history: executions of each task

vars == <<task, queue, cache, prod, hand, holder, running, joining,
          acked, told, applied, tries>>

TaskRec == [op : Ops, prio : 0 .. 3, model : Models, by : Producers,
            retry : Nat, named : BOOLEAN, writes : SUBSET Writes]
Effect  == [task : Writes, writes : SUBSET Writes, worker : Threads]

ProdRec == [pc : {"idle", "merge", "push"}, w : Writes \cup {NoWrite},
            key : Keys \cup {NoKey}]
AtRest  == [pc |-> "idle", w |-> NoWrite, key |-> NoKey]

(* Of a batch, left are the positions whose group has not ended, and seen   *)
(* those of the present group that the worker has been at.                  *)
HandRec == [pc : {"off", "get", "exec", "retry"}, batch : Seq(Writes),
            left : SUBSET Nat, seen : SUBSET Nat, staged : Seq(Effect)]
Off     == [pc |-> "off", batch |-> <<>>, left |-> {}, seen |-> {}, staged |-> <<>>]
Ready   == [Off EXCEPT !.pc = "get"]

Types ==
    /\ task \in Seq(TaskRec) /\ Len(task) <= MaxWrites
    /\ queue \in [Writes -> Nat]
    /\ cache \in [Keys -> Writes \cup {NoWrite}]
    /\ prod \in [Producers -> ProdRec]
    /\ hand \in [Threads -> HandRec]
    /\ holder \in Threads \cup {NoThread}
    /\ running \in BOOLEAN /\ joining \in BOOLEAN
    /\ acked \subseteq Writes
    /\ told \in [Writes -> SUBSET {"ok", "failed", "cleared"}]
    /\ applied \in Seq(Effect)
    /\ tries \in [Writes -> Nat]

(* ... and no task is executed more often than max_retries times, though a  *)
(* failing commit retries what has been retried already (lines 405, 443).   *)
TypeOK == Types /\ \A w \in Writes : tries[w] <= MaxRetries

Init ==
    /\ task = <<>>
    /\ queue = [w \in Writes |-> 0]
    /\ cache = [k \in Keys |-> NoWrite]
    /\ prod = [p \in Producers |-> AtRest]
    /\ hand = [t \in Threads |-> Off]
    /\ holder = NoThread
    /\ running = FALSE /\ joining = FALSE
    /\ acked = {}
    /\ told = [w \in Writes |-> {}]
    /\ applied = <<>>
    /\ tries = [w \in Writes |-> 0]

lists   == <<queue, cache>>
life    == <<running, joining>>
history == <<acked, told, applied, tries>>

QueueSize == SumFunction(queue)
Full      == QueueSize >= MaxQueue
LockFree  == holder = NoThread

-----------------------------------------------------------------------------
(* submit: the running check and _next_sequence, ... *)
Submit(p) ==
    LET w == Len(task) + 1 IN
    /\ running
    /\ prod[p].pc = "idle"
    /\ LockFree
    /\ w <= MaxWrites
    /\ \E op \in Ops, prio \in Priorities, m \in Models, k \in Keys \cup {NoKey} :
          /\ task' = Append(task,
                [op |-> op, prio |-> WritePriority[prio], model |-> m, by |-> p,
                 retry |-> 0, named |-> TRUE, writes |-> {w}])
          /\ prod' = [prod EXCEPT ![p] =
                [pc |-> IF k = NoKey THEN "push" ELSE "merge", w |-> w, key |-> k]]
    /\ UNCHANGED <<lists, hand, holder, life, history>>

(* ... the merge cache, under its own lock: the data goes into the task     *)
(* found there, or the new task is entered, before it is in the queue, ...  *)
Merge(p) ==
    LET old == cache[prod[p].key] IN
    /\ prod[p].pc = "merge"
    /\ old # NoWrite
    /\ task' = [task EXCEPT ![old].writes = @ \cup {prod[p].w},
                            ![old].named = TRUE, ![old].retry = 0]
    /\ acked' = acked \cup {prod[p].w}
    /\ prod' = [prod EXCEPT ![p] = AtRest]
    /\ UNCHANGED <<lists, hand, holder, life, told, applied, tries>>

Remember(p) ==
    /\ prod[p].pc = "merge"
    /\ cache[prod[p].key] = NoWrite
    /\ cache' = [cache EXCEPT ![prod[p].key] = prod[p].w]
    /\ prod' = [prod EXCEPT ![p].pc = "push"]
    /\ UNCHANGED <<task, queue, hand, holder, life, history>>

(* ... and the queue.  A full queue raises, whatever the cache holds.       *)
Push(p) ==
    /\ prod[p].pc = "push"
    /\ LockFree
    /\ IF Full
       THEN UNCHANGED <<queue, acked>>
       ELSE /\ queue' = [queue EXCEPT ![prod[p].w] = @ + 1]
            /\ acked' = acked \cup {prod[p].w}
    /\ prod' = [prod EXCEPT ![p] = AtRest]
    /\ UNCHANGED <<task, cache, hand, holder, life, told, applied, tries>>

-----------------------------------------------------------------------------
(* _get_batch *)

(* The heap's order: priority, then sequence number. *)
Before(v, w) ==
    \/ task[v].prio > task[w].prio
    \/ task[v].prio = task[w].prio /\ v <= w

Queued(w) == queue[w] > 0
CanCollect(t) ==
    /\ hand[t].pc = "get"
    /\ holder \in {NoThread, t}

(* Wrong on purpose: the sequence number does not take part in the order.   *)
FirstOfPriority(w) ==
    Queued(w) /\ \A v \in Writes : Queued(v) => task[w].prio >= task[v].prio

First(w) == Queued(w) /\ \A v \in Writes : Queued(v) => Before(w, v)

Forgotten(w) == [k \in Keys |-> IF cache[k] = w THEN NoWrite ELSE cache[k]]

Pop(t) ==
    /\ CanCollect(t)
    /\ Len(hand[t].batch) < BatchSize
    /\ \E w \in Writes :
          /\ First(w)
          /\ queue' = [queue EXCEPT ![w] = @ - 1]
          /\ hand' = [hand EXCEPT ![t].batch = Append(@, w),
                                  ![t].left = @ \cup {Len(hand[t].batch) + 1}]
          /\ cache' = Forgotten(w)
    /\ holder' = t
    /\ UNCHANGED <<task, prod, life, history>>

(* _not_empty.wait gives the lock up for a while. *)
Wait(t) ==
    /\ holder = t
    /\ \A w \in Writes : ~Queued(w)
    /\ Len(hand[t].batch) < BatchSize
    /\ holder' = NoThread
    /\ UNCHANGED <<task, lists, prod, hand, life, history>>

(* The batch is full, or its deadline has passed. *)
Take(t) ==
    /\ CanCollect(t)
    /\ hand[t].batch # <<>>
    /\ hand' = [hand EXCEPT ![t].pc = "exec"]
    /\ holder' = NoThread
    /\ UNCHANGED <<task, lists, prod, life, history>>

(* The worker's loop ends between two batches. *)
Leave(t) ==
    /\ hand[t] = Ready
    /\ ~running
    /\ holder # t
    /\ hand' = [hand EXCEPT ![t] = Off]
    /\ UNCHANGED <<task, lists, prod, holder, life, history>>

-----------------------------------------------------------------------------
(* _execute_batch: what has the model of the first task left is the group.  *)

Model(t, i) == task[hand[t].batch[i]].model
Group(t) ==
    {i \in hand[t].left : \E f \in hand[t].left :
        Model(t, f) = Model(t, i) /\ \A j \in hand[t].left : f <= j}
Coming(t)  == Group(t) \ hand[t].seen
IsNext(t, i) == i \in Coming(t) /\ \A j \in Coming(t) : i <= j

Executing(t) ==
    /\ hand[t].pc = "exec"
    /\ \A i \in Group(t) : Model(t, i) \in Registered
Staged(t, w) == [task |-> w, writes |-> task[w].writes, worker |-> t]

NextGroup(t) ==
    LET rest == hand[t].left \ Group(t) IN
    hand' = [hand EXCEPT ![t] =
        IF rest # {} THEN [pc |-> "exec", batch |-> hand[t].batch, left |-> rest,
                           seen |-> {}, staged |-> <<>>]
        ELSE IF running THEN Ready ELSE Off]

(* _execute_single_task returned: the effect is staged in the session, and  *)
(* the callback hears of success at once.  An update takes the id out of    *)
(* its data, and without an id it does nothing.                             *)
Succeeds(t, i) ==
    LET w == hand[t].batch[i] IN
    /\ Executing(t) /\ IsNext(t, i)
    /\ hand' = [hand EXCEPT ![t].seen = @ \cup {i},
                            ![t].staged = IF task[w].named
                                         THEN Append(@, Staged(t, w)) ELSE @]
    /\ task' = [task EXCEPT ![w].named = @ /\ task[w].op # "update"]
    /\ told' = [told EXCEPT ![w] = @ \cup {"ok"}]
    /\ tries' = [tries EXCEPT ![w] = @ + 1]
    /\ UNCHANGED <<lists, prod, holder, life, acked, applied>>

(* The default upsert: building the instance fails, db.rollback() empties   *)
(* the session, and the row is updated if there is one.                     *)
FallsBack(t, i) ==
    LET w == hand[t].batch[i] IN
    /\ "raise" \in Faults
    /\ Executing(t) /\ IsNext(t, i)
    /\ task[w].op = "upsert"
    /\ \E staged \in {<<>>, <<Staged(t, w)>>} :
          hand' = [hand EXCEPT ![t].seen = @ \cup {i}, ![t].staged = staged]
    /\ told' = [told EXCEPT ![w] = @ \cup {"ok"}]
    /\ tries' = [tries EXCEPT ![w] = @ + 1]
    /\ UNCHANGED <<task, lists, prod, holder, life, acked, applied>>

(* Wrong on purpose: one retry too many.                                    *)
UsedUpLate(was) == was.retry > MaxRetries

UsedUp(was) == was.retry >= MaxRetries

(* Wrong on purpose: one step up, whatever the priority is.                 *)
BoostedByOne(prio) == prio + 1

Boosted(prio) == IF prio < WritePriority.high THEN WritePriority.high ELSE prio

(* Wrong on purpose: a task whose retries are used up is dropped silently.  *)
RetrySilent(w, was) ==
    /\ task' = [task EXCEPT ![w] = was]
    /\ queue' = [queue EXCEPT ![w] = IF UsedUp(was) THEN @ ELSE @ + 1]
    /\ UNCHANGED told

(* _retry_task for w, whose record is was with one more retry counted: it   *)
(* goes back, at least at high priority, and past the limit of the queue.   *)
Retry(w, was) ==
    IF UsedUp(was)
    THEN /\ told' = [told EXCEPT ![w] = @ \cup {"failed"}]
         /\ task' = [task EXCEPT ![w] = was]
         /\ UNCHANGED queue
    ELSE /\ queue' = [queue EXCEPT ![w] = @ + 1]
         /\ task' = [task EXCEPT ![w] = [was EXCEPT !.prio = Boosted(@)]]
         /\ UNCHANGED told

(* An exception in _execute_single_task; that of an upsert may come after   *)
(* its rollback.                                                            *)
Raises(t, i) ==
    LET w == hand[t].batch[i] IN
    /\ "raise" \in Faults
    /\ Executing(t) /\ IsNext(t, i)
    /\ task[w].named
    /\ LockFree
    /\ Retry(w, [task[w] EXCEPT !.retry = @ + 1,
                                !.named = task[w].op # "update"])
    /\ \E rolledback \in BOOLEAN :
          /\ rolledback => task[w].op = "upsert"
          /\ hand' = [hand EXCEPT ![t].seen = @ \cup {i},
                                  ![t].staged = IF rolledback THEN <<>> ELSE @]
    /\ tries' = [tries EXCEPT ![w] = @ + 1]
    /\ UNCHANGED <<cache, prod, holder, life, acked, applied>>

(* The end of get_db_session: commit, or roll back and retry every task of  *)
(* the group, those that have been retried already included.                *)
Commit(t) ==
    /\ Executing(t) /\ Coming(t) = {}
    /\ applied' = applied \o hand[t].staged
    /\ NextGroup(t)
    /\ UNCHANGED <<task, lists, prod, holder, life, acked, told, tries>>

(* Wrong on purpose: the rolled-back group is logged and forgotten. *)
CommitFailsLogged(t) ==
    /\ "commit" \in Faults
    /\ Executing(t) /\ Coming(t) = {}
    /\ hand[t].staged # <<>>
    /\ NextGroup(t)
    /\ UNCHANGED <<task, lists, prod, holder, life, history>>

CommitFails(t) ==
    /\ "commit" \in Faults
    /\ Executing(t) /\ Coming(t) = {}
    /\ hand[t].staged # <<>>
    /\ hand' = [hand EXCEPT ![t].pc = "retry", ![t].seen = {}, ![t].staged = <<>>]
    /\ UNCHANGED <<task, lists, prod, holder, life, history>>

RetryGroup(t, i) ==
    LET w == hand[t].batch[i] IN
    /\ hand[t].pc = "retry"
    /\ LockFree
    /\ IsNext(t, i)
    /\ Retry(w, [task[w] EXCEPT !.retry = @ + 1])
    /\ IF Coming(t) # {i} THEN hand' = [hand EXCEPT ![t].seen = @ \cup {i}]
                          ELSE NextGroup(t)
    /\ UNCHANGED <<cache, prod, holder, life, acked, applied, tries>>

(* A model nobody registered fails its group for good. *)
RejectGroup(t) ==
    /\ hand[t].pc = "exec" /\ ~Executing(t) /\ hand[t].seen = {}
    /\ told' = [w \in Writes |-> IF \E i \in Group(t) : hand[t].batch[i] = w
                                 THEN told[w] \cup {"failed"} ELSE told[w]]
    /\ NextGroup(t)
    /\ UNCHANGED <<task, lists, prod, holder, life, acked, applied, tries>>

-----------------------------------------------------------------------------
(* start, stop and clear, called from one thread. *)

Start ==
    /\ ~running /\ ~joining
    /\ task # <<>> => "restart" \in Control
    /\ \E new \in SUBSET {t \in Threads : hand[t].pc = "off"} :
          /\ Cardinality(new) = MaxWorkers
          /\ hand' = [t \in Threads |-> IF t \in new THEN Ready ELSE hand[t]]
    /\ running' = TRUE
    /\ UNCHANGED <<task, lists, prod, holder, joining, history>>

Stop ==
    /\ "stop" \in Control
    /\ running
    /\ running' = FALSE /\ joining' = TRUE
    /\ UNCHANGED <<task, lists, prod, hand, holder, history>>

(* Every worker has been joined, or given up on after 5 seconds. *)
Stopped ==
    /\ joining
    /\ "slow" \notin Control => \A t \in Threads : hand[t].pc = "off"
    /\ joining' = FALSE
    /\ UNCHANGED <<task, lists, prod, hand, holder, running, history>>

(* clear does not take the lock of the merge cache: a submit that has just  *)
(* found its key there may look it up in vain and raise KeyError.           *)
Clear ==
    /\ "clear" \in Control
    /\ LockFree
    /\ queue' = [w \in Writes |-> 0]
    /\ cache' = [k \in Keys |-> NoWrite]
    /\ told' = [w \in Writes |-> IF Queued(w) THEN told[w] \cup {"cleared"}
                                              ELSE told[w]]
    /\ \E lost \in SUBSET {p \in Producers : /\ prod[p].pc = "merge"
                                             /\ cache[prod[p].key] # NoWrite} :
          /\ Cardinality(lost) <= 1
          /\ prod' = [p \in Producers |-> IF p \in lost THEN AtRest ELSE prod[p]]
    /\ UNCHANGED <<task, hand, holder, life, acked, applied, tries>>

-----------------------------------------------------------------------------
ProducerStep(p) == Submit(p) \/ Merge(p) \/ Remember(p) \/ Push(p)

WorkerStep(t) ==
    \/ Pop(t) \/ Wait(t) \/ Take(t) \/ Leave(t)
    \/ \E i \in Coming(t) : Succeeds(t, i) \/ FallsBack(t, i) \/ Raises(t, i)
                           \/ RetryGroup(t, i)
    \/ Commit(t) \/ CommitFails(t) \/ RejectGroup(t)

Next ==
    \/ \E p \in Producers : ProducerStep(p)
    \/ \E t \in Threads : WorkerStep(t)
    \/ Start \/ Stop \/ Stopped \/ Clear

Spec == Init /\ [][Next]_vars

(* Threads get their turns, in a call of submit once it has begun and in    *)
(* the worker loop.  Nobody has to submit, start or stop.                   *)
Fairness ==
    /\ \A p \in Producers : WF_vars(Merge(p) \/ Remember(p) \/ Push(p))
    /\ \A t \in Threads : WF_vars(WorkerStep(t))

LiveSpec == Spec /\ Fairness

-----------------------------------------------------------------------------
(* The inductive invariants behind TypeOK and AckedKept. *)

(* What has been acknowledged or tried, and what is in the queue, the cache *)
(* or a call of submit, is a task there is, ...                             *)
Tasks == 1 .. Len(task)

TasksKnown ==
    /\ acked \subseteq Tasks
    /\ \A w \in Writes : Queued(w) \/ tries[w] > 0 => w \in Tasks
    /\ \A k \in Keys : cache[k] # NoWrite => cache[k] \in Tasks
    /\ \A p \in Producers : prod[p].pc # "idle" => prod[p].w \in Tasks

(* ... a worker has such tasks only while it collects and executes a batch, *)
(* has been at tasks of the present group only, and staged nothing else,    *)
HandSound(t) ==
    /\ hand[t].left \subseteq 1 .. Len(hand[t].batch)
    /\ Len(hand[t].batch) <= BatchSize
    /\ \A i \in hand[t].left : hand[t].batch[i] \in Tasks
    /\ hand[t].pc = "off" => hand[t].left = {}
    /\ hand[t].pc \in {"off", "get"} => hand[t].seen = {}
    /\ hand[t].pc # "exec" => hand[t].staged = <<>>
    /\ hand[t].seen \subseteq Group(t)

HandsSound == \A t \in Threads : HandSound(t)

(* ... and a call of submit has a task of its own, nowhere else yet.        *)
Untouched(v) ==
    /\ task[v].retry = 0 /\ tries[v] = 0
    /\ \A t \in Threads : \A i \in hand[t].left : hand[t].batch[i] # v

OnItsOwn(p) ==
    /\ prod[p].w \notin acked /\ ~Queued(prod[p].w) /\ Untouched(prod[p].w)
    /\ \A q \in Producers : q # p => prod[q].pc = "idle" \/ prod[q].w # prod[p].w
    /\ prod[p].pc = "merge" => prod[p].key # NoKey
    /\ prod[p].key = NoKey \/ prod[p].pc = "merge" =>
          /\ \A k \in Keys : cache[k] # prod[p].w
          /\ task[prod[p].w].writes = {prod[p].w}

SubmitsApart ==
    /\ \A p \in Producers : prod[p].pc # "idle" => OnItsOwn(p)
    /\ \A k \in Keys : cache[k] # NoWrite => Untouched(cache[k])

(* A task is executed again only where a retry has been counted: executions *)
(* and places in the queue and in hands together stay within the limit.     *)
Open(t) == IF hand[t].pc = "retry" THEN hand[t].left \ Group(t)
                                   ELSE hand[t].left \ hand[t].seen
ToRun(w)   == {r \in Threads \X (1 .. BatchSize) :
                  r[2] \in Open(r[1]) /\ hand[r[1]].batch[r[2]] = w}
Entered(w) == IF \E p \in Producers : prod[p].pc # "idle" /\ prod[p].w = w THEN 1 ELSE 0
Allowed(w) == IF task[w].retry < MaxRetries THEN task[w].retry + 1 ELSE MaxRetries

TriesCounted ==
    \A w \in Tasks :
        /\ IsFiniteSet(ToRun(w))
        /\ tries[w] + queue[w] + Cardinality(ToRun(w)) + Entered(w) <= Allowed(w)

Sound == Types /\ TasksKnown /\ HandsSound /\ SubmitsApart
Counted == Sound /\ TriesCounted

(* Where inserts and deletes only are submitted, an acknowledged write is   *)
(* in the database, in a session, in a task that is to be executed or       *)
(* retried, or in one whose owner has been told; and what is in a session   *)
(* is in a task that its worker has been at and would retry.                *)
Undone(v) ==
    \/ Queued(v)
    \/ \E p \in Producers : prod[p].pc = "push" /\ prod[p].w = v
    \/ \E t \in Threads : \E i \in hand[t].left \ hand[t].seen : hand[t].batch[i] = v
GivenUp(v) == told[v] \cap {"failed", "cleared"} # {}
Kept(v)    == Undone(v) \/ GivenUp(v)
Secured(w) ==
    \/ \E n \in 1 .. Len(applied) : w \in applied[n].writes
    \/ \E t \in Threads : \E n \in 1 .. Len(hand[t].staged) : w \in hand[t].staged[n].writes
    \/ \E v \in Tasks : w \in task[v].writes /\ Kept(v)

StagedSeen(t) ==
    \A n \in 1 .. Len(hand[t].staged) :
        LET e == hand[t].staged[n] IN
        /\ e.writes \subseteq task[e.task].writes
        /\ \E i \in hand[t].seen : hand[t].batch[i] = e.task

CachedWaits ==
    \A k \in Keys : cache[k] # NoWrite =>
        \/ Queued(cache[k])
        \/ \E p \in Producers : prod[p].pc = "push" /\ prod[p].w = cache[k]

AllSecured ==
    /\ \A t \in Threads : StagedSeen(t)
    /\ CachedWaits
    /\ \A v \in Tasks : task[v].named /\ v \in task[v].writes
    /\ \A w \in acked : Secured(w)

(* What AckedKept needs besides: a full queue refuses no task that the      *)
(* merge cache has got already (line 279).                                  *)
Roomy == \A p \in Producers : prod[p].pc = "push" /\ prod[p].key # NoKey => ~Full

(* Behind InOrder: a task at a place of a batch that is not open has been   *)
(* tried, and only tried ones are retried and committed; ...                *)
Tried ==
    /\ \A t \in Threads : \A i \in hand[t].left \ Open(t) : tries[hand[t].batch[i]] > 0
    /\ \A v \in Tasks : tries[v] = 0 => task[v].retry = 0
    /\ \A n \in 1 .. Len(applied) : tries[applied[n].task] > 0

(* ... a session has effects of its worker, of tasks it has been at; ...    *)
SessionOwn(t) ==
    \A n \in 1 .. Len(hand[t].staged) :
        /\ hand[t].staged[n].worker = t
        /\ \E i \in hand[t].seen : hand[t].batch[i] = hand[t].staged[n].task

Committed(t, v) == \E n \in 1 .. Len(applied) : applied[n].worker = t /\ applied[n].task = v
InSession(t, v) == \E n \in 1 .. Len(hand[t].staged) : hand[t].staged[n].task = v

(* ... what takes effect at the first try is nowhere else then; ...         *)
Nowhere(v) ==
    ~Queued(v) /\ \A t \in Threads : \A i \in hand[t].left : hand[t].batch[i] # v
OnlySeen(t, v) ==
    /\ ~Queued(v)
    /\ \A s \in Threads : \A i \in hand[s].left :
          hand[s].batch[i] = v => s = t /\ i \in hand[t].seen

Settled ==
    \A t \in Threads, v \in Writes : tries[v] = 1 =>
        /\ Committed(t, v) => Nowhere(v)
        /\ InSession(t, v) => OnlySeen(t, v)

(* ... a call of submit has the newest task of its producer; ...            *)
NewestCalled ==
    \A p \in Producers : prod[p].pc # "idle" =>
        /\ task[prod[p].w].by = p
        /\ \A v \in Tasks : task[v].by = p => v <= prod[p].w

(* ... and of tasks that are alike, those committed go before those in the  *)
(* session, these before those in hand, and all before those in the queue.  *)
Alike(v, w) ==
    task[v].by = task[w].by /\ task[v].prio = task[w].prio /\ task[v].model = task[w].model
Ahead(t, v) == tries[v] = 1 /\ (Committed(t, v) \/ InSession(t, v))
InHandNew(t, v) == tries[v] = 0 /\ \E i \in hand[t].left : hand[t].batch[i] = v

SessionOrder(t) ==
    /\ \A n, m \in 1 .. Len(hand[t].staged) :
          LET v == hand[t].staged[n].task  w == hand[t].staged[m].task IN
          n < m /\ tries[v] = 1 /\ tries[w] = 1 /\ Alike(v, w) => v < w
    /\ \A v, w \in Writes :
          Committed(t, v) /\ InSession(t, w) /\ tries[v] = 1 /\ tries[w] = 1 /\ Alike(v, w)
          => v < w
HandOrder(t) ==
    /\ \A v, w \in Writes : Ahead(t, v) /\ InHandNew(t, w) /\ Alike(v, w) => v < w
    /\ \A i, j \in hand[t].left :
          LET v == hand[t].batch[i]  w == hand[t].batch[j] IN
          i < j /\ tries[v] = 0 /\ tries[w] = 0 /\ Alike(v, w) => v < w
QueueOrder(t) ==
    \A v, w \in Writes :
        /\ Ahead(t, v) \/ InHandNew(t, v)
        /\ Queued(w) /\ tries[w] = 0 /\ Alike(v, w)
        => v < w

AllOrdered ==
    /\ Tried /\ Settled /\ NewestCalled
    /\ \A t \in Threads :
          SessionOwn(t) /\ SessionOrder(t) /\ HandOrder(t) /\ QueueOrder(t)

-----------------------------------------------------------------------------
(* Properties. *)

InHand(w)   == \E t \in Threads : \E i \in hand[t].left : hand[t].batch[i] = w
Entering(w) == \E p \in Producers : prod[p].pc = "push" /\ prod[p].w = w
Pending(w)  == Queued(w) \/ InHand(w) \/ Entering(w)

(* A write whose submit has returned an id is in the database, or in a task *)
(* on its way there, or its task has been reported failed or cleared:       *)
(* merging, batching, rollbacks, retries, stop and restart lose none, as    *)
(* the class promises of merging and retrying (db_write_queue.py:104-105).  *)
AckedKept ==
    \A w \in acked :
        \/ \E i \in 1 .. Len(applied) : w \in applied[i].writes
        \/ \E v \in Tasks :
              /\ w \in task[v].writes
              /\ Pending(v) \/ told[v] \cap {"failed", "cleared"} # {}

(* The writes of a producer at one priority to one model that one worker    *)
(* commits at their first try take effect in the order they were submitted  *)
(* (db_write_queue.py:50, FIFO within a priority), through batching,        *)
(* grouping by model and the retries of others.  Two workers commit two     *)
(* batches in either order.                                                 *)
InOrder ==
    \A i, j \in DOMAIN applied :
        LET x == applied[i]  y == applied[j]
            v == task[x.task]  w == task[y.task] IN
        /\ i < j
        /\ x.worker = y.worker
        /\ v.by = w.by /\ v.prio = w.prio /\ v.model = w.model
        /\ tries[x.task] = 1 /\ tries[y.task] = 1
        => x.task < y.task

(* While the queue runs, an acknowledged write comes to rest: its task has  *)
(* been reported on, and no copy of it is left to execute.                  *)
AckedSettles ==
    <>[]running => \A w \in Writes :
        w \in acked ~> \E v \in DOMAIN task :
            w \in task[v].writes /\ ~Pending(v) /\ told[v] # {}
=============================================================================

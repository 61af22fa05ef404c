------------------------------ MODULE TieredCache ----------------------------
(****************************************************************************)
(* TieredCache (app/services/tiered_cache.py) over its memory level, an     *)
(* LRUCache, and its disk level (app/services/disk_cache.py), an SQLite     *)
(* table under an asyncio lock.  Redis, the third level, is off by default  *)
(* and left out.                                                            *)
(*                                                                          *)
(* set() writes the memory and queues the rest for a worker.  The calls of  *)
(* the disk wait for its lock in the order in which they came; what lies    *)
(* between two awaits is one step.                                          *)
(****************************************************************************)
EXTENDS Naturals, Sequences, FiniteSets, LRU

CONSTANTS
    Keys,
    Clients,     \* calls of get, delete and clear
    Workers,     \* write workers: every start() makes one
    L1Max,       \* l1_max_size
    MaxWrites,   \* bound: calls of set
    Faults       \* "crash": the process ends; "disk": a call of the disk fails

TieredAssumption ==
    /\ L1Max \in Nat \ {0} /\ MaxWrites \in Nat
    /\ Clients \cap Workers = {}
    /\ Faults \subseteq {"crash", "disk"}

VARIABLES
    memory,      \* _l1_cache
    table,       \* cache_entries: the number of the set that wrote a key, or 0
    queue,       \* _write_queue
    lock,        \* who has the lock of the disk, and who waits for it
    op,          \* what each client and each worker does
    task,        \* _write_task: the newest worker, or none
    newest       \* the last set (or delete: 0) of each key, and whether the disk
                 \* need not have it

vars == <<memory, table, queue, lock, op, task, newest>>

Numbers == 0 .. MaxWrites
Actors  == Clients \cup Workers

Op == [at : {"none", "idle", "get", "fill", "warm", "delete", "clear", "write"},
       key : Keys, val : Numbers]

(* What needs no key has any.                                               *)
Doing(at) == [at |-> at, key |-> CHOOSE k \in Keys : TRUE, val |-> 0]

TypeOK ==
    /\ memory \in Seq([key : Keys, val : Numbers \ {0}, age : 0 .. 1])
    /\ Len(memory) <= L1Max
    /\ table \in [Keys -> Numbers]
    /\ queue \in Seq(Keys \X (Numbers \ {0}))
    /\ lock \in Seq(Actors) /\ IsInjective(lock)
    /\ op \in [Actors -> Op]
    /\ task \subseteq Workers /\ Cardinality(task) <= 1
    /\ newest \in [Keys -> [n : Numbers, lost : BOOLEAN]]

Init ==
    /\ memory = <<>> /\ queue = <<>> /\ lock = <<>>
    /\ table = [k \in Keys |-> 0]
    /\ op = [a \in Actors |-> Doing(IF a \in Clients THEN "idle" ELSE "none")]
    /\ task = {}
    /\ newest = [k \in Keys |-> [n |-> 0, lost |-> FALSE]]

-----------------------------------------------------------------------------
Goes(a, at, k, n) == op' = [op EXCEPT ![a] = [at |-> at, key |-> k, val |-> n]]
Returns(c)        == op' = [op EXCEPT ![c] = Doing("idle")]

(* Wrong on purpose: the lock lets the last one in first.                   *)
WaitsFirst(a) == IF lock = <<>> THEN <<a>> ELSE <<lock[1], a>> \o Tail(lock)

Waits(a) == Append(lock, a)

HasDisk(a) == lock # <<>> /\ Head(lock) = a

(* Wrong on purpose: who waits is not woken.                                *)
ReleasedForNone == <<>>

Released == Tail(lock)

(* A number that no set has had yet.                                        *)
Fresh(n) ==
    /\ n <= MaxWrites
    /\ \A k \in Keys : newest[k].n < n /\ table[k] < n
    /\ \A i \in DOMAIN queue : queue[i][2] < n
    /\ \A a \in Actors : op[a].val < n
    /\ \A i \in DOMAIN memory : memory[i].val < n

(* set(): there is no await in it that waits, as the queue has no limit.    *)
set(k, persist) ==
    \E n \in 1 .. MaxWrites :
        /\ Fresh(n) /\ \A m \in 1 .. (n - 1) : ~Fresh(m)
        /\ memory' = Write(memory, k, n, L1Max)
        /\ queue' = IF persist THEN Append(queue, <<k, n>>) ELSE queue
        /\ newest' = [newest EXCEPT ![k] = [n |-> n, lost |-> ~persist]]
        /\ UNCHANGED <<table, lock, op, task>>

-----------------------------------------------------------------------------
(* get(), which asks the disk when the memory has nothing.                  *)
Hit(k) ==
    /\ Readable(memory, k, 0)
    /\ memory' = Read(memory, k, 0)
    /\ UNCHANGED <<table, queue, lock, op, task, newest>>

Miss(c, k) ==
    /\ op[c].at = "idle"
    /\ ~Readable(memory, k, 0)
    /\ memory' = Read(memory, k, 0)
    /\ Goes(c, "get", k, 0)
    /\ lock' = Waits(c)
    /\ UNCHANGED <<table, queue, task, newest>>

(* The row is read; the lock is kept while its counters are written.        *)
Fetch(c) ==
    /\ op[c].at = "get" /\ HasDisk(c)
    /\ IF table[op[c].key] = 0
       THEN Returns(c) /\ lock' = Released
       ELSE Goes(c, "fill", op[c].key, table[op[c].key]) /\ UNCHANGED lock
    /\ UNCHANGED <<memory, table, queue, task, newest>>

Fill(c) ==
    /\ op[c].at = "fill"
    /\ memory' = Write(memory, op[c].key, op[c].val, L1Max)
    /\ Returns(c)
    /\ lock' = Released
    /\ UNCHANGED <<table, queue, task, newest>>

(* warmup() of all keys, in the order in which the disk gives the rows.     *)
warmup(c) ==
    /\ op[c].at = "idle"
    /\ op' = [op EXCEPT ![c] = Doing("warm")]
    /\ lock' = Waits(c)
    /\ UNCHANGED <<memory, table, queue, task, newest>>

Warm(c) ==
    /\ op[c].at = "warm" /\ HasDisk(c)
    /\ \E rows \in SetToSeqs({k \in Keys : table[k] # 0}) :
        memory' = FoldLeft(LAMBDA m, k : Write(m, k, table[k], L1Max), memory, rows)
    /\ Returns(c)
    /\ lock' = Released
    /\ UNCHANGED <<table, queue, task, newest>>

-----------------------------------------------------------------------------
(* delete() and clear(): what is queued stays queued.                       *)
delete(c, k) ==
    /\ op[c].at = "idle"
    /\ memory' = Deleted(memory, k)
    /\ Goes(c, "delete", k, 0)
    /\ lock' = Waits(c)
    /\ newest' = [newest EXCEPT ![k] = [n |-> 0, lost |-> FALSE]]
    /\ UNCHANGED <<table, queue, task>>

clear(c) ==
    /\ op[c].at = "idle"
    /\ memory' = <<>>
    /\ op' = [op EXCEPT ![c] = Doing("clear")]
    /\ lock' = Waits(c)
    /\ newest' = [k \in Keys |-> [n |-> 0, lost |-> FALSE]]
    /\ UNCHANGED <<table, queue, task>>

Erased(c) ==
    /\ op[c].at \in {"delete", "clear"} /\ HasDisk(c)
    /\ table' = [k \in Keys |-> IF op[c].at = "clear" \/ k = op[c].key
                                THEN 0 ELSE table[k]]
    /\ Returns(c)
    /\ lock' = Released
    /\ UNCHANGED <<memory, queue, task, newest>>

-----------------------------------------------------------------------------
(* _async_write_worker                                                      *)
Take(w) ==
    /\ op[w].at = "idle"
    /\ queue # <<>>
    /\ Goes(w, "write", Head(queue)[1], Head(queue)[2])
    /\ queue' = Tail(queue)
    /\ lock' = Waits(w)
    /\ UNCHANGED <<memory, table, task, newest>>

(* Wrong on purpose: what the memory has now is written.                    *)
WrittenFromMemory(w) ==
    [table EXCEPT ![op[w].key] =
        IF Holds(memory, op[w].key) THEN Lookup(memory, op[w].key).val ELSE @]

Written(w) == [table EXCEPT ![op[w].key] = op[w].val]

Commit(w) ==
    /\ op[w].at = "write" /\ HasDisk(w)
    /\ table' = Written(w)
    /\ Returns(w)
    /\ lock' = Released
    /\ UNCHANGED <<memory, queue, task, newest>>

(* If the write that is given up is the last one of its key, it is lost.    *)
LosesAll(ws) ==
    [k \in Keys |->
        IF \E w \in ws : op[w].at = "write" /\ op[w].key = k
                         /\ op[w].val = newest[k].n
        THEN [newest[k] EXCEPT !.lost = TRUE] ELSE newest[k]]

(* A method of the disk that fails returns False or nothing; who called it  *)
(* does not look.                                                           *)
DiskFails(a) ==
    /\ "disk" \in Faults
    /\ HasDisk(a)
    /\ newest' = IF op[a].at \in {"delete", "clear"}
                 THEN [k \in Keys |-> [newest[k] EXCEPT !.lost = @ \/ newest[k].n = 0]]
                 ELSE LosesAll({a})
    /\ Returns(a)
    /\ lock' = Released
    /\ UNCHANGED <<memory, table, queue, task>>

-----------------------------------------------------------------------------
(* start(), by whoever takes a backend adapter: the worker of an earlier    *)
(* start goes on, but is forgotten.                                         *)
start ==
    /\ \E w \in Workers :
        /\ op[w].at = "none"
        /\ op' = [op EXCEPT ![w] = Doing("idle")]
        /\ task' = {w}
    /\ UNCHANGED <<memory, table, queue, lock, newest>>

(* Wrong on purpose: a cancelled worker keeps the lock it has.              *)
HeldBy(w) == lock

(* stop() cancels the newest worker; a write under way is broken off, with  *)
(* or without effect, and what is queued waits for the next start.          *)
LeftBy(w) == SelectSeq(lock, LAMBDA a : a # w)

stop ==
    \E w \in task :
        /\ \/ newest' = LosesAll({w}) /\ UNCHANGED table
           \/ op[w].at = "write" /\ HasDisk(w) /\ table' = Written(w)
              /\ UNCHANGED newest
        /\ op' = [op EXCEPT ![w] = Doing("none")]
        /\ lock' = LeftBy(w)
        /\ task' = {}
        /\ UNCHANGED <<memory, queue>>

(* The process ends: the disk has what has been committed.                  *)
Crash ==
    /\ "crash" \in Faults
    /\ task # {} \/ queue # <<>>
    /\ memory' = <<>> /\ queue' = <<>> /\ lock' = <<>> /\ task' = {}
    /\ op' = [a \in Actors |-> Doing(IF a \in Clients THEN "idle" ELSE "none")]
    /\ newest' = [k \in Keys |-> [newest[k] EXCEPT !.lost = newest[k].n # table[k]]]
    /\ UNCHANGED table

(* Times pass: an entry expires in the memory, or a row on the disk.        *)
ExpireMemory ==
    /\ \E i \in DOMAIN memory : memory' = [memory EXCEPT ![i].age = 1]
    /\ UNCHANGED <<table, queue, lock, op, task, newest>>

ExpireRow(k) ==
    /\ table[k] # 0 /\ lock = <<>>
    /\ table' = [table EXCEPT ![k] = 0]
    /\ newest' = [newest EXCEPT ![k].lost = @ \/ newest[k].n = table[k]]
    /\ UNCHANGED <<memory, queue, lock, op, task>>

-----------------------------------------------------------------------------
ClientStep(c) == Fetch(c) \/ Fill(c) \/ Warm(c) \/ Erased(c) \/ DiskFails(c)
WorkerStep(w) == Take(w) \/ Commit(w) \/ DiskFails(w)

Next ==
    \/ \E k \in Keys, persist \in BOOLEAN : set(k, persist)
    \/ \E k \in Keys : Hit(k) \/ ExpireRow(k)
    \/ \E c \in Clients, k \in Keys : Miss(c, k) \/ delete(c, k)
    \/ \E c \in Clients : clear(c) \/ warmup(c) \/ ClientStep(c)
    \/ \E w \in Workers : WorkerStep(w)
    \/ start \/ stop \/ Crash \/ ExpireMemory

Spec == Init /\ [][Next]_vars

Fairness ==
    /\ \A c \in Clients : WF_vars(ClientStep(c))
    /\ \A w \in Workers : WF_vars(WorkerStep(w))

-----------------------------------------------------------------------------
(* Of a key the disk never goes back to an older value, however many        *)
(* workers there are.                                                       *)
DiskMovesForward ==
    [][\A k \in Keys : table'[k] # 0 => table'[k] >= table[k]]_vars

(* What was last set is on the disk or on its way there, unless it was not  *)
(* to be persisted, or its time, a crash, a failing or a broken off write   *)
(* took it: a delete or clear called before never does.                     *)
Pending(k) == {queue[i][2] : i \in {j \in DOMAIN queue : queue[j][1] = k}}
              \cup {op[w].val : w \in {v \in Workers : op[v].at = "write"
                                                     /\ op[v].key = k}}

OnItsWay ==
    \A k \in Keys : newest[k].n # 0 /\ ~newest[k].lost =>
        newest[k].n \in Pending(k) \cup {table[k]}

(* While there is a worker, every queued write is dealt with, and so is     *)
(* every call.                                                              *)
WritesDrain ==
    \A n \in 1 .. MaxWrites :
        (\E k \in Keys : n \in Pending(k)) ~>
            (\A k \in Keys : n \notin Pending(k)) \/ \A w \in Workers : op[w].at = "none"

(* "delete the cache (all levels)" (app/services/tiered_cache.py:252): what *)
(* has been deleted, and not been set since, is not there when no call and  *)
(* no write is under way.                                                   *)
DeletedStays ==
    queue = <<>> /\ lock = <<>> =>
        \A k \in Keys : newest[k].n = 0 /\ ~newest[k].lost =>
            table[k] = 0 /\ ~Readable(memory, k, 0)
=============================================================================

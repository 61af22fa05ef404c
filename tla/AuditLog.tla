-------------------------------- MODULE AuditLog -----------------------------
(****************************************************************************)
(* AuditLogger (app/core/audit_log.py): log() puts a record in a queue of   *)
(* limited size, and writes it itself when the queue is full; a worker      *)
(* writes what is queued, one record after the other under a lock.          *)
(*                                                                          *)
(* A record is the number of its log().  Writing suspends between taking    *)
(* the lock and giving it back.                                             *)
(****************************************************************************)
EXTENDS Naturals, Sequences, FiniteSets, SequencesExt

CONSTANTS
    MaxRecords,   \* bound: calls of log()
    QueueSize     \* async_queue_size

AuditAssumption == MaxRecords \in Nat /\ QueueSize \in Nat \ {0}

VARIABLES
    made,      \* calls of log() so far
    queue,     \* _queue
    undone,    \* records put in the queue for which task_done is to come
    lock,      \* the records whose writers have the lock or wait for it
    direct,    \* those of them that a log() writes itself
    worker,    \* the record the worker has, 0, or no worker
    file,      \* the records written, of all files
    failed,    \* records whose write has failed, which is logged
    stop       \* stop()

vars == <<made, queue, undone, lock, direct, worker, file, failed, stop>>

Records == 1 .. MaxRecords
NoWorker == MaxRecords + 1

TypeOK ==
    /\ made \in 0 .. MaxRecords /\ undone \in 0 .. MaxRecords
    /\ queue \in Seq(Records) /\ Len(queue) <= QueueSize
    /\ lock \in Seq(Records) /\ IsInjective(lock)
    /\ direct \subseteq Records /\ failed \subseteq Records
    /\ worker \in 0 .. NoWorker
    /\ file \in Seq(Records) /\ IsInjective(file)
    /\ stop \in {"none", "join", "cancel"}

Init ==
    /\ made = 0 /\ undone = 0
    /\ queue = <<>> /\ lock = <<>> /\ file = <<>>
    /\ direct = {} /\ failed = {}
    /\ worker = NoWorker
    /\ stop = "none"

-----------------------------------------------------------------------------
(* log(): the lock of a full queue's writer is asked for at once.           *)
Queued ==
    /\ made < MaxRecords /\ Len(queue) < QueueSize
    /\ made' = made + 1
    /\ queue' = Append(queue, made + 1)
    /\ undone' = undone + 1
    /\ UNCHANGED <<lock, direct, worker, file, failed, stop>>

Overflow ==
    /\ made < MaxRecords /\ Len(queue) = QueueSize
    /\ made' = made + 1
    /\ lock' = Append(lock, made + 1)
    /\ direct' = direct \cup {made + 1}
    /\ UNCHANGED <<queue, undone, worker, file, failed, stop>>

-----------------------------------------------------------------------------
(* start() makes a worker; that nobody starts a second one is assumed.      *)
start ==
    /\ worker = NoWorker /\ stop = "none"
    /\ worker' = 0
    /\ UNCHANGED <<made, queue, undone, lock, direct, file, failed, stop>>

(* Wrong on purpose: the worker takes the newest record.                    *)
NewestFirst == /\ worker' = Last(queue)
               /\ queue' = Front(queue)

OldestFirst == /\ worker' = Head(queue)
               /\ queue' = Tail(queue)

Get ==
    /\ stop # "cancel"
    /\ worker = 0 /\ queue # <<>>
    /\ OldestFirst
    /\ lock' = Append(lock, worker')
    /\ UNCHANGED <<made, undone, direct, file, failed, stop>>

(* Wrong on purpose: a record whose write failed is not counted as done.    *)
DoneIfWritten == IF file' = file THEN undone ELSE undone - 1

Done == undone - 1

(* _write_record: an error is logged, and the record counts as done.        *)
Write ==
    /\ lock # <<>>
    /\ \/ file' = Append(file, Head(lock)) /\ UNCHANGED failed
       \/ failed' = failed \cup {Head(lock)} /\ UNCHANGED file
    /\ lock' = Tail(lock)
    /\ IF Head(lock) \in direct
       THEN direct' = direct \ {Head(lock)} /\ UNCHANGED <<worker, undone>>
       ELSE worker' = 0 /\ undone' = Done /\ UNCHANGED direct
    /\ UNCHANGED <<made, queue, stop>>

-----------------------------------------------------------------------------
stop_ ==
    /\ stop = "none"
    /\ stop' = "join"
    /\ UNCHANGED <<made, queue, undone, lock, direct, worker, file, failed>>

(* Wrong on purpose: the worker is cancelled without a look at the queue.   *)
JoinedAnyway == TRUE

Joined == undone = 0

Join ==
    /\ stop = "join" /\ Joined
    /\ stop' = "cancel"
    /\ UNCHANGED <<made, queue, undone, lock, direct, worker, file, failed>>

(* stop() has been woken: a record that came since stays in the queue, as   *)
(* the worker is woken after it.                                            *)
Cancel ==
    /\ stop = "cancel"
    /\ stop' = "none"
    /\ worker' = NoWorker
    /\ UNCHANGED <<made, queue, undone, lock, direct, file, failed>>

Next == Queued \/ Overflow \/ start \/ Get \/ Write \/ stop_ \/ Join \/ Cancel

Spec == Init /\ [][Next]_vars

Fairness == WF_vars(Get \/ Write) /\ WF_vars(Join) /\ WF_vars(Cancel)

-----------------------------------------------------------------------------
(* Every record is written, about to be, or known to have failed: stop()    *)
(* loses none, and leaves none half done.                                   *)
NothingLost ==
    /\ \A r \in 1 .. made :
          r \in ToSet(queue) \cup ToSet(lock) \cup ToSet(file) \cup failed
    /\ worker = NoWorker => ToSet(lock) \subseteq direct

(* Records that went through the queue are written in their order.          *)
InOrder ==
    [][\A r \in Records : worker = r /\ file' = Append(file, r) =>
        \A q \in ToSet(queue) : r < q]_vars

(* stop() returns, unless records are queued and nobody writes them.        *)
StopReturns == stop = "join" ~> stop # "join" \/ worker = NoWorker
=============================================================================

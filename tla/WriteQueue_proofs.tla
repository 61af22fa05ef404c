------------------------- MODULE WriteQueue_proofs -------------------------
(****************************************************************************)
(* Proofs about the write queue, for any producers, workers, merge keys,    *)
(* limits and faults: no task is executed more often than max_retries       *)
(* allows (TriesBounded), where inserts and deletes are submitted no        *)
(* acknowledged write is lost (Acknowledged), and first tries take effect   *)
(* in order (Ordered).                                                      *)
(*                                                                          *)
(* The first lemmas say what each action does to the task and the hand it   *)
(* touches; later ones use them and not the actions.  Then every part of    *)
(* the invariant Counted has a lemma by which a step keeps it, and so has   *)
(* every part of AllSecured.  For AllOrdered the steps are sorted first:    *)
(* all but a push, a pop, a try and a commit leave the order as it is.      *)
(****************************************************************************)
EXTENDS WriteQueue, FiniteSetTheorems, TLAPS

USE QueueAssumption

(* What a worker has taken is tasks there are.                              *)
LEMMA InBatch ==
    ASSUME Types, HandsSound, NEW t \in Threads, NEW i \in hand[t].left
    PROVE  /\ i \in 1 .. Len(hand[t].batch)
           /\ i \in 1 .. BatchSize
           /\ hand[t].batch[i] \in Writes /\ hand[t].batch[i] \in Tasks
           /\ task[hand[t].batch[i]] \in TaskRec
<1>1. hand[t] \in HandRec
  BY DEF Types
<1>2. i \in 1 .. Len(hand[t].batch) /\ Len(hand[t].batch) <= BatchSize
  BY DEF HandsSound, HandSound
<1>3. hand[t].batch \in Seq(Writes)
  BY <1>1 DEF HandRec
<1>4. hand[t].batch[i] \in Writes
  BY <1>2, <1>3
<1>5. hand[t].batch[i] \in Tasks
  BY DEF HandsSound, HandSound
<1>6. task[hand[t].batch[i]] \in TaskRec
  BY <1>5 DEF Types, Tasks
<1> QED
  BY <1>2, <1>3, <1>4, <1>5, <1>6

LEMMA GroupInHand ==
    ASSUME NEW t \in Threads
    PROVE  Group(t) \subseteq hand[t].left /\ Coming(t) \subseteq Group(t)
  BY DEF Group, Coming

(* And so is what a call of submit works on, and what the cache knows.      *)
LEMMA ActiveSubmit ==
    ASSUME Types, TasksKnown, SubmitsApart, NEW p \in Producers, prod[p].pc # "idle"
    PROVE  /\ prod[p].w \in Tasks /\ prod[p].w \in Writes
           /\ task[prod[p].w] \in TaskRec
           /\ prod[p].pc = "merge" => /\ prod[p].key \in Keys
                                     /\ cache[prod[p].key] \in Writes \cup {NoWrite}
<1>1. prod[p] \in ProdRec
  BY DEF Types
<1>2. prod[p].w \in Tasks
  BY DEF TasksKnown
<1>3. prod[p].w \in Writes /\ task[prod[p].w] \in TaskRec
  BY <1>2 DEF Types, Tasks, Writes
<1>4. prod[p].pc = "merge" => prod[p].key \in Keys
  BY <1>1 DEF SubmitsApart, OnItsOwn, ProdRec
<1> QED
  BY <1>2, <1>3, <1>4 DEF Types

LEMMA CachedTask ==
    ASSUME Types, TasksKnown, NEW k \in Keys, cache[k] # NoWrite
    PROVE  cache[k] \in Tasks /\ cache[k] \in Writes /\ task[cache[k]] \in TaskRec
  BY DEF Types, TasksKnown, Tasks, Writes

-----------------------------------------------------------------------------
(* Types is kept by submit, ...                                             *)
LEMMA TypesOfProducers ==
    ASSUME Sound, NEW p \in Producers, ProducerStep(p)
    PROVE  Types'
<1>s. Types /\ TasksKnown /\ SubmitsApart
  BY DEF Sound
<1> USE <1>s DEF Types, lists, life, history
<1>a. prod[p] \in ProdRec /\ AtRest \in ProdRec
  BY DEF ProdRec, AtRest, NoWrite
<1>1. CASE Submit(p)
  <2> DEFINE w == Len(task) + 1
  <2>1. w \in Writes
    BY <1>1 DEF Submit, Writes
  <2>2. PICK op \in Ops, prio \in Priorities, m \in Models, k \in Keys \cup {NoKey} :
          /\ task' = Append(task,
                [op |-> op, prio |-> WritePriority[prio], model |-> m, by |-> p,
                 retry |-> 0, named |-> TRUE, writes |-> {w}])
          /\ prod' = [prod EXCEPT ![p] =
                [pc |-> IF k = NoKey THEN "push" ELSE "merge", w |-> w, key |-> k]]
    BY <1>1 DEF Submit
  <2>3. WritePriority[prio] \in 0 .. 3
    BY DEF WritePriority
  <2>4. [op |-> op, prio |-> WritePriority[prio], model |-> m, by |-> p,
         retry |-> 0, named |-> TRUE, writes |-> {w}] \in TaskRec
    BY <2>1, <2>3 DEF TaskRec
  <2>5. task' \in Seq(TaskRec) /\ Len(task') <= MaxWrites
    BY <1>1, <2>2, <2>4 DEF Submit
  <2>6. prod' \in [Producers -> ProdRec]
    BY <2>1, <2>2, <1>a DEF ProdRec
  <2> QED
    BY <1>1, <2>5, <2>6 DEF Submit
<1>2. CASE Merge(p)
  <2> DEFINE old == cache[prod[p].key]
  <2>1. prod[p].w \in Writes /\ prod[p].key \in Keys /\ old # NoWrite
    BY <1>2, ActiveSubmit DEF Merge
  <2>2. task[old] \in TaskRec /\ old \in 1 .. Len(task)
    BY <2>1, CachedTask DEF Tasks
  <2>3. [task[old] EXCEPT !.writes = @ \cup {prod[p].w}, !.named = TRUE, !.retry = 0] \in TaskRec
    BY <2>1, <2>2 DEF TaskRec
  <2>4. task' = [task EXCEPT ![old] = [task[old] EXCEPT
            !.writes = @ \cup {prod[p].w}, !.named = TRUE, !.retry = 0]]
    BY <1>2, <2>2 DEF Merge
  <2>5. task' \in Seq(TaskRec) /\ Len(task') = Len(task)
    BY <2>2, <2>3, <2>4
  <2> QED
    BY <1>2, <2>1, <2>5, <1>a DEF Merge
<1>3. CASE Remember(p)
  BY <1>3, <1>a, ActiveSubmit DEF Remember, ProdRec
<1>4. CASE Push(p)
  <2>1. prod[p].w \in Writes /\ prod' \in [Producers -> ProdRec]
    BY <1>4, <1>a, ActiveSubmit DEF Push
  <2>2. queue' \in [Writes -> Nat] /\ acked' \subseteq Writes
    BY <1>4, <2>1 DEF Push
  <2> QED
    BY <1>4, <2>1, <2>2 DEF Push
<1> QED
  BY <1>1, <1>2, <1>3, <1>4 DEF ProducerStep

-----------------------------------------------------------------------------
(* What the steps of a worker change. *)

Elsewhere(t) == \A s \in Threads : s # t => hand'[s] = hand[s]

SameButOf(w) ==
    /\ task' \in Seq(TaskRec) /\ Len(task') = Len(task)
    /\ \A v \in Tasks : v # w => task'[v] = task[v]
    /\ \A v \in Tasks : /\ task'[v].model = task[v].model
                        /\ task'[v].by = task[v].by
                        /\ task'[v].writes = task[v].writes
                        /\ task'[v].op = task[v].op

(* A task may change whether it names its row, ...                          *)
LEMMA NamedSet ==
    ASSUME NEW r \in TaskRec, NEW b \in BOOLEAN, NEW q, q = [r EXCEPT !.named = b]
    PROVE  /\ q \in TaskRec /\ q.model = r.model /\ q.by = r.by /\ q.prio = r.prio
           /\ q.writes = r.writes /\ q.op = r.op
           /\ q.retry = r.retry /\ q.named = b
  BY DEF TaskRec

(* ... and in what else is not its model, its operation or its writes.      *)
LEMMA TaskSet ==
    ASSUME Types, NEW w \in Tasks, NEW q \in TaskRec, task' = [task EXCEPT ![w] = q],
           q.model = task[w].model, q.by = task[w].by,
           q.writes = task[w].writes, q.op = task[w].op
    PROVE  SameButOf(w) /\ task'[w] = q
  BY DEF Types, Tasks, SameButOf

(* _retry_task queues the task once more, or it tells the owner.            *)
LEMMA RetryIs ==
    ASSUME Types, NEW w \in Tasks, NEW was \in TaskRec, Retry(w, was),
           was.model = task[w].model, was.by = task[w].by,
           was.writes = task[w].writes, was.op = task[w].op
    PROVE  /\ SameButOf(w)
           /\ task'[w].retry = was.retry /\ task'[w].named = was.named
           /\ \/ /\ UsedUp(was)
                 /\ queue' = queue
                 /\ told' = [told EXCEPT ![w] = @ \cup {"failed"}]
              \/ /\ ~UsedUp(was)
                 /\ queue' = [queue EXCEPT ![w] = @ + 1]
                 /\ told' = told
<1> DEFINE up == [was EXCEPT !.prio = Boosted(@)]
<1>1. w \in 1 .. Len(task) /\ task \in Seq(TaskRec)
  BY DEF Types, Tasks
<1>2. up \in TaskRec /\ up.model = was.model /\ up.by = was.by /\ up.writes = was.writes
      /\ up.op = was.op /\ up.retry = was.retry /\ up.named = was.named
  BY DEF TaskRec, Boosted, WritePriority
<1> HIDE DEF up
<1>4. CASE UsedUp(was)
  <2>1. task' = [task EXCEPT ![w] = was] /\ UNCHANGED queue
        /\ told' = [told EXCEPT ![w] = @ \cup {"failed"}]
    BY <1>4 DEF Retry
  <2> QED
    BY TaskSet, <1>4, <2>1
<1>5. CASE ~UsedUp(was)
  <2>1. task' = [task EXCEPT ![w] = up] /\ UNCHANGED told
        /\ queue' = [queue EXCEPT ![w] = @ + 1]
    BY <1>5 DEF Retry, up
  <2> QED
    BY <1>2, TaskSet, <1>5, <2>1
<1> QED
  BY <1>4, <1>5

(* The end of a group leaves the rest of the batch, or no batch.            *)
LEMMA NextGroupIs ==
    ASSUME Types, NEW t \in Threads, NextGroup(t)
    PROVE  /\ hand' \in [Threads -> HandRec] /\ Elsewhere(t)
           /\ hand'[t].left = hand[t].left \ Group(t)
           /\ hand'[t].seen = {} /\ hand'[t].staged = <<>>
           /\ \/ hand'[t].pc = "exec" /\ hand'[t].batch = hand[t].batch
              \/ hand'[t].pc \in {"get", "off"} /\ hand'[t].batch = <<>> /\ hand'[t].left = {}
<1> DEFINE rest == hand[t].left \ Group(t)
           on == [pc |-> "exec", batch |-> hand[t].batch, left |-> rest,
                  seen |-> {}, staged |-> <<>>]
<1>1. hand \in [Threads -> HandRec] /\ hand[t] \in HandRec
  BY DEF Types
<1>2. Off \in HandRec /\ Ready \in HandRec
  <2>1. <<>> \in Seq(Writes) /\ <<>> \in Seq(Effect) /\ {} \in SUBSET Nat
    OBVIOUS
  <2>2. Off \in HandRec
    BY <2>1 DEF Off, HandRec
  <2>3. Ready \in HandRec
    BY <2>2 DEF Ready, HandRec
  <2> QED
    BY <2>2, <2>3
<1>3. on \in HandRec /\ on.pc = "exec" /\ on.batch = hand[t].batch /\ on.left = rest
      /\ on.seen = {} /\ on.staged = <<>>
  <2>1. <<>> \in Seq(Effect) /\ {} \in SUBSET Nat /\ rest \in SUBSET Nat
    BY <1>1 DEF HandRec
  <2> HIDE DEF rest
  <2> QED
    BY <1>1, <2>1 DEF HandRec, on
<1>4. Ready.pc = "get" /\ Off.pc = "off" /\ Ready.batch = <<>> /\ Off.batch = <<>>
      /\ Ready.left = {} /\ Off.left = {} /\ Ready.seen = {} /\ Off.seen = {}
      /\ Ready.staged = <<>> /\ Off.staged = <<>>
  BY DEF Ready, Off
<1>5. hand' = [hand EXCEPT ![t] = IF rest # {} THEN on ELSE IF running THEN Ready ELSE Off]
  BY DEF NextGroup
<1> HIDE DEF on, rest
<1>6. hand' \in [Threads -> HandRec] /\ Elsewhere(t)
      /\ hand'[t] = IF rest # {} THEN on ELSE IF running THEN Ready ELSE Off
  BY <1>1, <1>2, <1>3, <1>5 DEF Elsewhere
<1> QED
  BY <1>3, <1>4, <1>6 DEF rest

(* At a task, a worker notes that it was there and what it has staged.      *)
LEMMA HandAt ==
    ASSUME Types, NEW t \in Threads, NEW S \in SUBSET Nat, NEW Q \in Seq(Effect),
           hand' = [hand EXCEPT ![t].seen = S, ![t].staged = Q]
    PROVE  /\ hand' \in [Threads -> HandRec] /\ Elsewhere(t)
           /\ hand'[t].pc = hand[t].pc /\ hand'[t].batch = hand[t].batch
           /\ hand'[t].left = hand[t].left
           /\ hand'[t].seen = S /\ hand'[t].staged = Q
<1>1. hand \in [Threads -> HandRec] /\ hand[t] \in HandRec
  BY DEF Types
<1>2. \A s \in Threads : s # t => hand'[s] = hand[s]
  BY <1>1
<1> QED
  BY <1>1, <1>2 DEF HandRec, Elsewhere

(* A worker is at the task at position i of its batch. *)
At(t, i) == Succeeds(t, i) \/ FallsBack(t, i) \/ Raises(t, i)

LEMMA AtOneTask ==
    ASSUME Types, TasksKnown, HandsSound, NEW t \in Threads, NEW i \in Coming(t), At(t, i),
           NEW w, w = hand[t].batch[i]
    PROVE  /\ hand[t].pc = "exec"
           /\ hand' \in [Threads -> HandRec] /\ Elsewhere(t)
           /\ hand'[t].pc = "exec" /\ hand'[t].batch = hand[t].batch
           /\ hand'[t].left = hand[t].left /\ hand'[t].seen = hand[t].seen \cup {i}
           /\ SameButOf(w)
           /\ tries' = [tries EXCEPT ![w] = @ + 1]
           /\ UNCHANGED <<cache, prod, holder, running, joining, acked, applied>>
           /\ \/ task'[w].retry = task[w].retry /\ queue' = queue
                 /\ told' = [told EXCEPT ![w] = @ \cup {"ok"}]
              \/ task'[w].retry = task[w].retry + 1 /\ task[w].retry + 1 >= MaxRetries
                 /\ queue' = queue /\ told' = [told EXCEPT ![w] = @ \cup {"failed"}]
              \/ task'[w].retry = task[w].retry + 1 /\ task[w].retry + 1 < MaxRetries
                 /\ queue' = [queue EXCEPT ![w] = @ + 1] /\ told' = told
<1>1. hand[t] \in HandRec /\ i \in hand[t].left /\ hand[t].seen \cup {i} \in SUBSET Nat
  BY GroupInHand DEF Types, HandRec
<1>2. w \in Writes /\ w \in Tasks /\ w \in 1 .. Len(task) /\ task[w] \in TaskRec
  BY <1>1, InBatch DEF Tasks
<1>3. Staged(t, w) \in Effect
  BY <1>2 DEF Staged, Effect, TaskRec
<1>4. CASE Succeeds(t, i)
  <2>1. (IF task[w].named THEN Append(hand[t].staged, Staged(t, w)) ELSE hand[t].staged)
            \in Seq(Effect)
    BY <1>1, <1>3 DEF HandRec
  <2>2. hand' = [hand EXCEPT ![t].seen = hand[t].seen \cup {i},
                     ![t].staged = IF task[w].named THEN Append(hand[t].staged, Staged(t, w))
                                   ELSE hand[t].staged]
    BY <1>4, <1>1, <1>2 DEF Succeeds, Types
  <2>3. /\ hand' \in [Threads -> HandRec] /\ Elsewhere(t)
        /\ hand'[t].pc = hand[t].pc /\ hand'[t].batch = hand[t].batch
        /\ hand'[t].left = hand[t].left /\ hand'[t].seen = hand[t].seen \cup {i}
    BY <2>1, <2>2, <1>1, HandAt
  <2> DEFINE b == task[w].named /\ task[w].op # "update"
             q == [task[w] EXCEPT !.named = b]
  <2>4. task' = [task EXCEPT ![w] = q]
    BY <1>4, <1>2 DEF Succeeds
  <2>5. b \in BOOLEAN
    OBVIOUS
  <2> HIDE DEF b
  <2>6. SameButOf(w) /\ task'[w].retry = task[w].retry
    <3>1. /\ q \in TaskRec /\ q.model = task[w].model /\ q.by = task[w].by
          /\ q.writes = task[w].writes
          /\ q.op = task[w].op /\ q.retry = task[w].retry
      <4>1. q = [task[w] EXCEPT !.named = b]
        OBVIOUS
      <4> HIDE DEF q
      <4> QED
        BY <2>5, <1>2, <4>1, NamedSet
    <3> HIDE DEF q
    <3>2. SameButOf(w) /\ task'[w] = q
      BY ZenonT(40), <2>4, <3>1, <1>2, TaskSet
    <3> QED
      BY <3>1, <3>2
  <2>7. hand[t].pc = "exec"
    BY <1>4 DEF Succeeds, Executing
  <2>8. /\ told' = [told EXCEPT ![w] = @ \cup {"ok"}]
        /\ tries' = [tries EXCEPT ![w] = @ + 1] /\ queue' = queue
        /\ UNCHANGED <<cache, prod, holder, running, joining, acked, applied>>
    BY <1>4 DEF Succeeds, lists, life
  <2> QED
    BY <2>3, <2>6, <2>7, <2>8
<1>5. CASE FallsBack(t, i)
  <2>1. PICK staged \in {<<>>, <<Staged(t, w)>>} :
            hand' = [hand EXCEPT ![t].seen = hand[t].seen \cup {i}, ![t].staged = staged]
    BY <1>5, <1>1, <1>2 DEF FallsBack, Types
  <2>2. staged \in Seq(Effect)
    <3>1. <<>> \in Seq(Effect)
      OBVIOUS
    <3>2. <<Staged(t, w)>> \in Seq(Effect)
      BY <1>3
    <3> QED
      BY <3>1, <3>2
  <2>3. /\ hand' \in [Threads -> HandRec] /\ Elsewhere(t)
        /\ hand'[t].pc = hand[t].pc /\ hand'[t].batch = hand[t].batch
        /\ hand'[t].left = hand[t].left /\ hand'[t].seen = hand[t].seen \cup {i}
    BY <2>1, <2>2, <1>1, HandAt
  <2>4. /\ told' = [told EXCEPT ![w] = @ \cup {"ok"}]
        /\ tries' = [tries EXCEPT ![w] = @ + 1] /\ queue' = queue
        /\ UNCHANGED <<task, cache, prod, holder, running, joining, acked, applied>>
    BY <1>5 DEF FallsBack, lists, life
  <2>5. SameButOf(w) /\ task'[w].retry = task[w].retry
    BY <2>4 DEF SameButOf, Types
  <2>6. hand[t].pc = "exec"
    BY <1>5 DEF FallsBack, Executing
  <2> QED
    BY <2>3, <2>4, <2>5, <2>6
<1>6. CASE Raises(t, i)
  <2> DEFINE b == task[w].op # "update"
             n == task[w].retry + 1
             was == [task[w] EXCEPT !.retry = n, !.named = b]
  <2>0. b \in BOOLEAN /\ n \in Nat
    BY <1>2 DEF TaskRec
  <2>2. Retry(w, was)
    <3>1. Retry(hand[t].batch[i], [task[hand[t].batch[i]] EXCEPT !.retry = @ + 1,
                !.named = task[hand[t].batch[i]].op # "update"])
      BY <1>6 DEF Raises
    <3> QED
      BY <3>1
  <2> HIDE DEF b, n
  <2>b. was = [task[w] EXCEPT !.retry = n, !.named = b]
    OBVIOUS
  <2> HIDE DEF was
  <2>a. /\ was \in TaskRec /\ was.model = task[w].model
        /\ was.by = task[w].by /\ was.writes = task[w].writes
        /\ was.op = task[w].op /\ was.retry = n
    BY <2>0, <2>b, <1>2 DEF TaskRec
  <2>1. /\ was \in TaskRec /\ was.model = task[w].model
        /\ was.by = task[w].by /\ was.writes = task[w].writes
        /\ was.op = task[w].op /\ was.retry = task[w].retry + 1
    BY <2>a DEF n
  <2>3. SameButOf(w) /\ task'[w].retry = was.retry
        /\ \/ /\ UsedUp(was)
              /\ queue' = queue
              /\ told' = [told EXCEPT ![w] = @ \cup {"failed"}]
           \/ /\ ~UsedUp(was)
              /\ queue' = [queue EXCEPT ![w] = @ + 1]
              /\ told' = told
    BY <2>1, <2>2, <1>2, RetryIs
  <2>4. PICK rolledback \in BOOLEAN :
            hand' = [hand EXCEPT ![t].seen = hand[t].seen \cup {i},
                         ![t].staged = IF rolledback THEN <<>> ELSE hand[t].staged]
    BY <1>6, <1>1, <1>2 DEF Raises, Types
  <2>5. (IF rolledback THEN <<>> ELSE hand[t].staged) \in Seq(Effect)
    BY <1>1 DEF HandRec
  <2>6. /\ hand' \in [Threads -> HandRec] /\ Elsewhere(t)
        /\ hand'[t].pc = hand[t].pc /\ hand'[t].batch = hand[t].batch
        /\ hand'[t].left = hand[t].left /\ hand'[t].seen = hand[t].seen \cup {i}
    BY <2>4, <2>5, <1>1, HandAt
  <2>7. tries' = [tries EXCEPT ![w] = @ + 1]
    BY <1>6 DEF Raises
  <2>10. /\ UNCHANGED <<cache, prod, holder, running, joining, acked, applied>>
         /\ hand[t].pc = "exec"
    BY <1>6 DEF Raises, life, Executing
  <2>8. UsedUp(was) <=> task[w].retry + 1 >= MaxRetries
    BY <2>1 DEF UsedUp
  <2>9. task[w].retry \in Nat
    BY <1>2 DEF TaskRec
  <2>11. \/ task'[w].retry = task[w].retry + 1 /\ task[w].retry + 1 >= MaxRetries
            /\ queue' = queue /\ told' = [told EXCEPT ![w] = @ \cup {"failed"}]
         \/ task'[w].retry = task[w].retry + 1 /\ task[w].retry + 1 < MaxRetries
            /\ queue' = [queue EXCEPT ![w] = @ + 1] /\ told' = told
    BY <2>1, <2>3, <2>8, <2>9
  <2> QED
    BY <2>3, <2>6, <2>7, <2>10, <2>11
<1> QED
  BY <1>4, <1>5, <1>6 DEF At

(* After a failed commit, a worker retries the task at position i.          *)
LEMMA RetryOneTask ==
    ASSUME Types, TasksKnown, HandsSound, NEW t \in Threads, NEW i \in Coming(t),
           RetryGroup(t, i), NEW w, w = hand[t].batch[i]
    PROVE  /\ hand[t].pc = "retry"
           /\ SameButOf(w)
           /\ UNCHANGED <<cache, prod, holder, running, joining, acked, applied, tries>>
           /\ task'[w].retry = task[w].retry + 1
           /\ task'[w].named = task[w].named
           /\ \/ task[w].retry + 1 >= MaxRetries
                 /\ queue' = queue /\ told' = [told EXCEPT ![w] = @ \cup {"failed"}]
              \/ task[w].retry + 1 < MaxRetries
                 /\ queue' = [queue EXCEPT ![w] = @ + 1] /\ told' = told
           /\ \/ /\ Coming(t) # {i}
                 /\ hand' \in [Threads -> HandRec] /\ Elsewhere(t)
                 /\ hand'[t].pc = "retry" /\ hand'[t].batch = hand[t].batch
                 /\ hand'[t].left = hand[t].left /\ hand'[t].seen = hand[t].seen \cup {i}
                 /\ hand'[t].staged = hand[t].staged
              \/ Coming(t) = {i} /\ NextGroup(t)
<1>1. hand[t] \in HandRec /\ i \in hand[t].left /\ hand[t].seen \cup {i} \in SUBSET Nat
  BY GroupInHand DEF Types, HandRec
<1>2. w \in Writes /\ w \in Tasks /\ task[w] \in TaskRec
  BY <1>1, InBatch
<1> DEFINE was == [task[w] EXCEPT !.retry = @ + 1]
<1>3. /\ was \in TaskRec /\ was.model = task[w].model
      /\ was.by = task[w].by /\ was.writes = task[w].writes
      /\ was.op = task[w].op /\ was.retry = task[w].retry + 1 /\ was.named = task[w].named
  BY <1>2 DEF TaskRec
<1>4. Retry(w, was)
  BY DEF RetryGroup
<1> HIDE DEF was
<1>5. SameButOf(w) /\ task'[w].retry = was.retry /\ task'[w].named = was.named
      /\ \/ /\ UsedUp(was)
            /\ queue' = queue
            /\ told' = [told EXCEPT ![w] = @ \cup {"failed"}]
         \/ /\ ~UsedUp(was)
            /\ queue' = [queue EXCEPT ![w] = @ + 1]
            /\ told' = told
  BY <1>2, <1>3, <1>4, RetryIs
<1>6. UsedUp(was) <=> task[w].retry + 1 >= MaxRetries
  BY <1>3 DEF UsedUp
<1>7. task[w].retry \in Nat
  BY <1>2 DEF TaskRec
<1>u. /\ hand[t].pc = "retry"
      /\ UNCHANGED <<cache, prod, holder, running, joining, acked, applied, tries>>
      /\ Coming(t) = {i} => NextGroup(t)
  BY DEF RetryGroup, life
<1>v. /\ task'[w].retry = task[w].retry + 1 /\ task'[w].named = task[w].named
      /\ \/ task[w].retry + 1 >= MaxRetries
            /\ queue' = queue /\ told' = [told EXCEPT ![w] = @ \cup {"failed"}]
         \/ task[w].retry + 1 < MaxRetries
            /\ queue' = [queue EXCEPT ![w] = @ + 1] /\ told' = told
  BY <1>3, <1>5, <1>6, <1>7
<1>8. CASE Coming(t) # {i}
  <2>1. hand' = [hand EXCEPT ![t].seen = hand[t].seen \cup {i}]
    BY <1>8, <1>1 DEF RetryGroup, Types
  <2>2. hand' \in [Threads -> HandRec] /\ Elsewhere(t)
        /\ hand'[t].pc = hand[t].pc /\ hand'[t].batch = hand[t].batch
        /\ hand'[t].left = hand[t].left /\ hand'[t].seen = hand[t].seen \cup {i}
        /\ hand'[t].staged = hand[t].staged
    BY <2>1, <1>1 DEF Types, HandRec, Elsewhere
  <2> QED
    BY <1>5, <1>8, <1>u, <1>v, <2>2
<1>9. CASE Coming(t) = {i}
  BY <1>5, <1>9, <1>u, <1>v
<1> QED
  BY <1>8, <1>9

(* The other steps of a worker, ...                                         *)
LEMMA PopIs ==
    ASSUME Types, NEW t \in Threads, Pop(t)
    PROVE  \E w \in Writes :
             /\ First(w) /\ queue[w] > 0
             /\ queue' = [queue EXCEPT ![w] = @ - 1]
             /\ cache' = Forgotten(w)
             /\ hand[t].pc = "get" /\ Len(hand[t].batch) < BatchSize
             /\ hand' \in [Threads -> HandRec] /\ Elsewhere(t)
             /\ hand'[t].pc = "get" /\ hand'[t].batch = Append(hand[t].batch, w)
             /\ hand'[t].left = hand[t].left \cup {Len(hand[t].batch) + 1}
             /\ hand'[t].seen = hand[t].seen /\ hand'[t].staged = hand[t].staged
             /\ holder' = t
             /\ UNCHANGED <<task, prod, running, joining, acked, told, applied, tries>>
<1>1. hand \in [Threads -> HandRec] /\ hand[t] \in HandRec
  BY DEF Types
<1>2. PICK w \in Writes :
          /\ First(w)
          /\ queue' = [queue EXCEPT ![w] = @ - 1]
          /\ hand' = [hand EXCEPT ![t].batch = Append(@, w),
                                  ![t].left = @ \cup {Len(hand[t].batch) + 1}]
          /\ cache' = Forgotten(w)
  BY DEF Pop
<1>3. Append(hand[t].batch, w) \in Seq(Writes)
      /\ hand[t].left \cup {Len(hand[t].batch) + 1} \in SUBSET Nat
  BY <1>1 DEF HandRec
<1>4. hand' = [hand EXCEPT ![t].batch = Append(hand[t].batch, w),
                           ![t].left = hand[t].left \cup {Len(hand[t].batch) + 1}]
  BY <1>1, <1>2
<1>5. /\ hand' \in [Threads -> HandRec] /\ Elsewhere(t)
      /\ hand'[t].pc = hand[t].pc /\ hand'[t].batch = Append(hand[t].batch, w)
      /\ hand'[t].left = hand[t].left \cup {Len(hand[t].batch) + 1}
      /\ hand'[t].seen = hand[t].seen /\ hand'[t].staged = hand[t].staged
  BY <1>1, <1>3, <1>4 DEF HandRec, Elsewhere
<1> QED
  BY <1>2, <1>5 DEF Pop, CanCollect, First, Queued, life, history

LEMMA TakeIs ==
    ASSUME Types, NEW t \in Threads, Take(t)
    PROVE  /\ hand[t].pc = "get"
           /\ hand' \in [Threads -> HandRec] /\ Elsewhere(t)
           /\ hand'[t].pc = "exec" /\ hand'[t].batch = hand[t].batch
           /\ hand'[t].left = hand[t].left /\ hand'[t].seen = hand[t].seen
           /\ hand'[t].staged = hand[t].staged
           /\ UNCHANGED <<task, queue, cache, prod, running, joining,
                          acked, told, applied, tries>>
<1>1. hand \in [Threads -> HandRec] /\ hand[t] \in HandRec
  BY DEF Types
<1> QED
  BY <1>1 DEF Take, CanCollect, HandRec, Elsewhere, lists, life, history

LEMMA CommitFailsIs ==
    ASSUME Types, NEW t \in Threads, CommitFails(t)
    PROVE  /\ hand[t].pc = "exec" /\ Coming(t) = {}
           /\ hand' \in [Threads -> HandRec] /\ Elsewhere(t)
           /\ hand'[t].pc = "retry" /\ hand'[t].batch = hand[t].batch
           /\ hand'[t].left = hand[t].left /\ hand'[t].seen = {} /\ hand'[t].staged = <<>>
           /\ UNCHANGED <<task, queue, cache, prod, holder, running, joining,
                          acked, told, applied, tries>>
<1>1. hand \in [Threads -> HandRec] /\ hand[t] \in HandRec
  BY DEF Types
<1>2. {} \in SUBSET Nat /\ <<>> \in Seq(Effect)
  OBVIOUS
<1>3. hand' = [hand EXCEPT ![t].pc = "retry", ![t].seen = {}, ![t].staged = <<>>]
  BY DEF CommitFails
<1>4. /\ hand' \in [Threads -> HandRec] /\ Elsewhere(t)
      /\ hand'[t].pc = "retry" /\ hand'[t].batch = hand[t].batch
      /\ hand'[t].left = hand[t].left /\ hand'[t].seen = {} /\ hand'[t].staged = <<>>
  BY <1>1, <1>2, <1>3 DEF HandRec, Elsewhere
<1> QED
  BY <1>4 DEF CommitFails, Executing, lists, life, history

LEMMA LeaveIs ==
    ASSUME Types, NEW t \in Threads, Leave(t)
    PROVE  /\ hand' \in [Threads -> HandRec] /\ Elsewhere(t)
           /\ hand[t] = Ready /\ hand'[t] = Off
           /\ UNCHANGED <<task, queue, cache, prod, holder, running, joining,
                          acked, told, applied, tries>>
<1>1. Off \in HandRec
  <2>1. <<>> \in Seq(Writes) /\ <<>> \in Seq(Effect) /\ {} \in SUBSET Nat
    OBVIOUS
  <2> QED
    BY <2>1 DEF Off, HandRec
<1> QED
  BY <1>1 DEF Leave, Types, Elsewhere, lists, life, history

(* ... and start, which gives an idle thread an empty hand.                 *)
LEMMA StartIs ==
    ASSUME Types, Start
    PROVE  /\ hand' \in [Threads -> HandRec]
           /\ \A t \in Threads : \/ hand'[t] = hand[t]
                                 \/ hand[t].pc = "off" /\ hand'[t] = Ready
           /\ running' = TRUE
           /\ UNCHANGED <<task, queue, cache, prod, holder, joining,
                          acked, told, applied, tries>>
<1>1. Ready \in HandRec
  <2>1. <<>> \in Seq(Writes) /\ <<>> \in Seq(Effect) /\ {} \in SUBSET Nat
    OBVIOUS
  <2>2. Off \in HandRec
    BY <2>1 DEF Off, HandRec
  <2> QED
    BY <2>2 DEF Ready, HandRec
<1>2. PICK new \in SUBSET {t \in Threads : hand[t].pc = "off"} :
          hand' = [t \in Threads |-> IF t \in new THEN Ready ELSE hand[t]]
  BY DEF Start
<1> QED
  BY <1>1, <1>2 DEF Start, Types, lists, history

-----------------------------------------------------------------------------
(* ... by the workers ...                                                   *)
LEMMA TypesOfWorkers ==
    ASSUME Sound, NEW t \in Threads, WorkerStep(t)
    PROVE  Types'
<1>s. Types /\ TasksKnown /\ HandsSound
  BY DEF Sound
<1>h. hand[t] \in HandRec
  BY <1>s DEF Types
<1>t. /\ queue \in [Writes -> Nat] /\ tries \in [Writes -> Nat]
      /\ told \in [Writes -> SUBSET {"ok", "failed", "cleared"}]
  BY <1>s DEF Types
<1>r. ASSUME NextGroup(t), UNCHANGED <<task, queue, cache, prod, holder, running, joining,
                                       acked, tries>>,
             told' \in [Writes -> SUBSET {"ok", "failed", "cleared"}], applied' \in Seq(Effect)
      PROVE  Types'
  <2>1. hand' \in [Threads -> HandRec]
    BY <1>s, <1>r, NextGroupIs
  <2> QED
    BY <1>s, <1>r, <2>1 DEF Types
<1>1. CASE Pop(t)
  <2>1. PICK w \in Writes :
           /\ queue[w] > 0 /\ queue' = [queue EXCEPT ![w] = @ - 1]
           /\ cache' = Forgotten(w) /\ hand' \in [Threads -> HandRec] /\ holder' = t
           /\ UNCHANGED <<task, prod, running, joining, acked, told, applied, tries>>
    BY <1>1, <1>s, PopIs
  <2>2. queue' \in [Writes -> Nat]
    BY <2>1, <1>s DEF Types
  <2>3. cache' \in [Keys -> Writes \cup {NoWrite}]
    BY <2>1, <1>s DEF Types, Forgotten
  <2> QED
    BY <2>1, <2>2, <2>3, <1>s DEF Types
<1>2. CASE Wait(t)
  BY <1>2, <1>s DEF Wait, Types, lists, life, history
<1>3. CASE Take(t)
  <2>1. holder' = NoThread
    BY <1>3 DEF Take
  <2> QED
    BY <1>3, <1>s, <2>1, TakeIs DEF Types
<1>4. CASE Leave(t)
  BY <1>4, <1>s, LeaveIs DEF Types
<1>5. ASSUME NEW i \in Coming(t), At(t, i), NEW w, w = hand[t].batch[i] PROVE Types'
  <2>1. w \in Writes
    BY <1>5, <1>s, GroupInHand, InBatch
  <2>2. /\ hand' \in [Threads -> HandRec] /\ SameButOf(w)
        /\ tries' = [tries EXCEPT ![w] = @ + 1]
        /\ UNCHANGED <<cache, prod, holder, running, joining, acked, applied>>
    BY <1>5, <1>s, AtOneTask
  <2>5. \/ task'[w].retry = task[w].retry /\ queue' = queue
           /\ told' = [told EXCEPT ![w] = @ \cup {"ok"}]
        \/ task'[w].retry = task[w].retry + 1 /\ task[w].retry + 1 >= MaxRetries
           /\ queue' = queue /\ told' = [told EXCEPT ![w] = @ \cup {"failed"}]
        \/ task'[w].retry = task[w].retry + 1 /\ task[w].retry + 1 < MaxRetries
           /\ queue' = [queue EXCEPT ![w] = @ + 1] /\ told' = told
    BY <1>5, <1>s, AtOneTask
  <2>3. queue' \in [Writes -> Nat] /\ tries' \in [Writes -> Nat]
    BY <1>t, <2>1, <2>2, <2>5
  <2>4. told' \in [Writes -> SUBSET {"ok", "failed", "cleared"}]
    BY <1>t, <2>1, <2>5
  <2> QED
    BY <1>s, <2>2, <2>3, <2>4 DEF Types, SameButOf
<1>6. ASSUME NEW i \in Coming(t), RetryGroup(t, i) PROVE Types'
  <2> DEFINE w == hand[t].batch[i]
  <2>1. w \in Writes
    BY <1>s, GroupInHand, InBatch
  <2> HIDE DEF w
  <2>2. /\ hand' \in [Threads -> HandRec] \/ NextGroup(t)
        /\ SameButOf(w)
        /\ UNCHANGED <<cache, prod, holder, running, joining, acked, applied, tries>>
        /\ queue' = queue \/ queue' = [queue EXCEPT ![w] = @ + 1]
        /\ told' = told \/ told' = [told EXCEPT ![w] = @ \cup {"failed"}]
    BY <1>6, <1>s, RetryOneTask DEF w
  <2>3. hand' \in [Threads -> HandRec]
    BY <1>s, <2>2, NextGroupIs
  <2>4. queue' \in [Writes -> Nat]
    BY <1>t, <2>1, <2>2
  <2>5. told' \in [Writes -> SUBSET {"ok", "failed", "cleared"}]
    BY <1>t, <2>1, <2>2
  <2> QED
    BY <1>s, <2>2, <2>3, <2>4, <2>5 DEF Types, SameButOf
<1>7. CASE Commit(t)
  <2>1. applied \o hand[t].staged \in Seq(Effect)
    BY <1>s, <1>h DEF Types, HandRec
  <2> QED
    BY <1>7, <1>r, <1>s, <2>1 DEF Commit, Types, lists, life
<1>8. CASE CommitFails(t)
  BY <1>8, <1>s, CommitFailsIs DEF Types
<1>9. CASE RejectGroup(t)
  <2>1. told' \in [Writes -> SUBSET {"ok", "failed", "cleared"}]
    BY <1>9, <1>s DEF RejectGroup, Types
  <2> QED
    BY <1>9, <1>r, <1>s, <2>1 DEF RejectGroup, Types, lists, life
<1> QED
  BY <1>1, <1>2, <1>3, <1>4, <1>5, <1>6, <1>7, <1>8, <1>9 DEF WorkerStep, At

Owner == Start \/ Stop \/ Stopped \/ Clear

(* ... and by the owner.                                                    *)
LEMMA TypesOfOwner ==
    ASSUME Types, Owner
    PROVE  Types'
<1>1. CASE Start
  BY <1>1, StartIs DEF Types
<1>2. CASE Stop
  BY <1>2 DEF Stop, Types, lists, history
<1>3. CASE Stopped
  BY <1>3 DEF Stopped, Types, lists, history
<1>4. CASE Clear
  <2>1. AtRest \in ProdRec
    BY DEF AtRest, ProdRec
  <2>2. prod' \in [Producers -> ProdRec]
    BY <1>4, <2>1 DEF Clear, Types
  <2>3. /\ queue' \in [Writes -> Nat] /\ cache' \in [Keys -> Writes \cup {NoWrite}]
        /\ told' \in [Writes -> SUBSET {"ok", "failed", "cleared"}]
    BY <1>4 DEF Clear, Types
  <2> QED
    BY <1>4, <2>2, <2>3 DEF Clear, Types, life
<1> QED
  BY <1>1, <1>2, <1>3, <1>4 DEF Owner

-----------------------------------------------------------------------------
(* No step takes a task away, gives it another model or takes writes out of *)
(* it.                                                                      *)
TasksStay ==
    /\ Tasks \subseteq Tasks'
    /\ \A v \in Tasks : /\ task'[v].model = task[v].model
                        /\ task'[v].by = task[v].by
                        /\ task[v].writes \subseteq task'[v].writes

(* Tasks stay: they keep their model, and never lose a write.               *)
LEMMA SameStay ==
    ASSUME NEW w, SameButOf(w)
    PROVE  TasksStay /\ Tasks' = Tasks
  BY DEF SameButOf, TasksStay, Tasks

LEMMA UnchangedStay ==
    ASSUME UNCHANGED task
    PROVE  TasksStay /\ Tasks' = Tasks
  BY DEF TasksStay, Tasks

Others(w) == \A v \in Tasks : v # w => task'[v] = task[v]

(* Merging enters the write into the task the cache has, ...                *)
LEMMA MergeIs ==
    ASSUME Sound, NEW p \in Producers, Merge(p), NEW old, old = cache[prod[p].key]
    PROVE  /\ prod[p].pc = "merge" /\ prod[p].key \in Keys
           /\ prod[p].w \in Writes /\ prod[p].w \in Tasks
           /\ old # NoWrite /\ old \in Tasks /\ old \in Writes /\ task[old].retry = 0
           /\ Tasks' = Tasks /\ Others(old)
           /\ task'[old].writes = task[old].writes \cup {prod[p].w}
           /\ task'[old].named = TRUE /\ task'[old].retry = 0
           /\ task'[old].model = task[old].model /\ task'[old].op = task[old].op
           /\ task'[old].by = task[old].by /\ task'[old].prio = task[old].prio
           /\ acked' = acked \cup {prod[p].w}
           /\ prod' = [prod EXCEPT ![p] = AtRest]
           /\ UNCHANGED <<queue, cache, hand, holder, running, joining, told, applied, tries>>
<1>s. Types /\ TasksKnown /\ SubmitsApart
  BY DEF Sound
<1>1. prod[p].w \in Writes /\ prod[p].w \in Tasks /\ prod[p].key \in Keys /\ old # NoWrite
  BY <1>s, ActiveSubmit DEF Merge
<1>2. task[old] \in TaskRec /\ old \in 1 .. Len(task) /\ old \in Tasks /\ old \in Writes
  BY <1>1, <1>s, CachedTask DEF Tasks
<1> DEFINE q == [task[old] EXCEPT !.writes = @ \cup {prod[p].w}, !.named = TRUE, !.retry = 0]
<1>3. q \in TaskRec /\ q.writes = task[old].writes \cup {prod[p].w} /\ q.named = TRUE
      /\ q.retry = 0 /\ q.model = task[old].model /\ q.op = task[old].op
      /\ q.by = task[old].by /\ q.prio = task[old].prio
  BY <1>1, <1>2 DEF TaskRec
<1>4. task' = [task EXCEPT ![old] = q]
  BY <1>2 DEF Merge
<1> HIDE DEF q
<1>5. task' \in Seq(TaskRec) /\ Len(task') = Len(task) /\ task'[old] = q
      /\ Others(old)
  BY <1>s, <1>2, <1>3, <1>4 DEF Types, Tasks, Others
<1>7. Tasks' = Tasks
  BY <1>5 DEF Tasks
<1>6. task[old].retry = 0
  BY <1>s, <1>1 DEF SubmitsApart, Untouched
<1> QED
  BY <1>1, <1>2, <1>3, <1>5, <1>6, <1>7 DEF Merge, lists, life

Enters(p, w) ==
    \E k \in Keys \cup {NoKey} : prod' = [prod EXCEPT ![p] =
        [pc |-> IF k = NoKey THEN "push" ELSE "merge", w |-> w, key |-> k]]

(* ... and submitting makes a task that nobody knows yet.                   *)
LEMMA SubmitIs ==
    ASSUME Types, NEW p \in Producers, Submit(p), NEW w, w = Len(task) + 1
    PROVE  /\ prod[p].pc = "idle" /\ w \in Writes /\ w \notin Tasks
           /\ Tasks' = Tasks \cup {w}
           /\ \A v \in Tasks : task'[v] = task[v]
           /\ task'[w].retry = 0 /\ task'[w].named = TRUE /\ task'[w].writes = {w}
           /\ task'[w].op \in Ops /\ task'[w].by = p
           /\ Enters(p, w)
           /\ UNCHANGED <<queue, cache, hand, holder, running, joining,
                          acked, told, applied, tries>>
<1>1. PICK op \in Ops, prio \in Priorities, m \in Models, k \in Keys \cup {NoKey} :
          /\ task' = Append(task,
                [op |-> op, prio |-> WritePriority[prio], model |-> m, by |-> p,
                 retry |-> 0, named |-> TRUE, writes |-> {w}])
          /\ prod' = [prod EXCEPT ![p] =
                [pc |-> IF k = NoKey THEN "push" ELSE "merge", w |-> w, key |-> k]]
  BY DEF Submit
<1> DEFINE q == [op |-> op, prio |-> WritePriority[prio], model |-> m, by |-> p,
                 retry |-> 0, named |-> TRUE, writes |-> {w}]
<1>2. q.retry = 0 /\ q.named = TRUE /\ q.writes = {w} /\ q.op = op /\ q.by = p
  OBVIOUS
<1>3. task' = Append(task, q)
  BY <1>1
<1> HIDE DEF q
<1>4. task \in Seq(TaskRec) /\ Len(task) \in Nat
  BY DEF Types
<1>5. Len(task') = w /\ task'[w] = q /\ \A v \in Tasks : task'[v] = task[v]
  BY <1>3, <1>4 DEF Tasks
<1>7. w <= MaxWrites
  BY DEF Submit
<1>6. w \in Writes /\ w \notin Tasks /\ Tasks' = Tasks \cup {w}
  BY <1>4, <1>5, <1>7 DEF Tasks, Writes
<1>8. Enters(p, w)
  BY <1>1 DEF Enters
<1>9. /\ prod[p].pc = "idle"
      /\ UNCHANGED <<queue, cache, hand, holder, running, joining,
                     acked, told, applied, tries>>
  BY DEF Submit, lists, life, history
<1>10. /\ task'[w].retry = 0 /\ task'[w].named = TRUE /\ task'[w].writes = {w}
       /\ task'[w].op \in Ops /\ task'[w].by = p
  BY <1>2, <1>5
<1> QED
  BY <1>5, <1>6, <1>8, <1>9, <1>10

LEMMA StepsStay ==
    ASSUME Sound, Next
    PROVE  TasksStay
<1>s. Types /\ TasksKnown /\ HandsSound /\ SubmitsApart
  BY DEF Sound
<1>1. ASSUME NEW p \in Producers, Submit(p), NEW w, w = Len(task) + 1 PROVE TasksStay
  <2>1. Tasks' = Tasks \cup {w} /\ \A v \in Tasks : task'[v] = task[v]
    BY <1>1, <1>s, SubmitIs
  <2> QED
    BY <2>1 DEF TasksStay
<1>2. ASSUME NEW p \in Producers, Merge(p), NEW old, old = cache[prod[p].key]
      PROVE  TasksStay
  <2>1. /\ Tasks' = Tasks /\ old \in Tasks /\ Others(old)
        /\ task'[old].writes = task[old].writes \cup {prod[p].w}
        /\ task'[old].model = task[old].model /\ task'[old].by = task[old].by
    BY ZenonT(60), <1>2, MergeIs
  <2> QED
    BY <2>1 DEF TasksStay, Others
<1>3. ASSUME NEW p \in Producers, Remember(p) \/ Push(p) PROVE TasksStay
  BY <1>3, UnchangedStay DEF Remember, Push
<1>4. ASSUME NEW t \in Threads, NEW i \in Coming(t), At(t, i) PROVE TasksStay
  <2>1. SameButOf(hand[t].batch[i])
    BY <1>4, <1>s, AtOneTask
  <2> QED
    BY <2>1, SameStay
<1>7. ASSUME NEW t \in Threads, NEW i \in Coming(t), RetryGroup(t, i) PROVE TasksStay
  <2>1. SameButOf(hand[t].batch[i])
    BY <1>7, <1>s, RetryOneTask
  <2> QED
    BY <2>1, SameStay
<1>5. ASSUME NEW t \in Threads,
             \/ Pop(t) \/ Wait(t) \/ Take(t) \/ Leave(t)
             \/ Commit(t) \/ CommitFails(t) \/ RejectGroup(t)
      PROVE  TasksStay
  BY <1>5, UnchangedStay DEF Pop, Wait, Take, Leave, Commit, CommitFails, RejectGroup
<1>6. ASSUME Start \/ Stop \/ Stopped \/ Clear PROVE TasksStay
  BY <1>6, UnchangedStay DEF Start, Stop, Stopped, Clear
<1> QED
  BY <1>1, <1>2, <1>3, <1>4, <1>5, <1>6, <1>7 DEF Next, ProducerStep, WorkerStep, At

(* Retries change neither the present group nor what a worker has, ...      *)
LEMMA GroupKept ==
    ASSUME TasksStay, NEW t \in Threads, HandSound(t),
           hand'[t].left = hand[t].left, hand'[t].batch = hand[t].batch
    PROVE  Group(t)' = Group(t)
<1>1. \A i \in hand[t].left : Model(t, i)' = Model(t, i)
  BY DEF Model, HandSound, TasksStay
<1> QED
  BY <1>1 DEF Group

LEMMA HandKept ==
    ASSUME TasksStay, NEW t \in Threads, HandSound(t), hand'[t] = hand[t]
    PROVE  HandSound(t)'
  BY GroupKept DEF HandSound, TasksStay

(* ... and the next group is as sound as this one.                          *)
LEMMA HandLets ==
    ASSUME TasksStay, Types, NEW t \in Threads, HandSound(t), NextGroup(t)
    PROVE  HandSound(t)'
<1>1. Group(t)' \subseteq hand'[t].left
  BY DEF Group
<1>2. hand[t] \in HandRec
  BY DEF Types
<1> QED
  BY <1>1, <1>2, NextGroupIs DEF HandSound, TasksStay, HandRec

(* TasksKnown and HandsSound are kept.                                      *)
LEMMA TasksStep ==
    ASSUME Sound, Next
    PROVE  TasksKnown'
<1>s. Types /\ TasksKnown /\ HandsSound /\ SubmitsApart
  BY DEF Sound
<1>z. Tasks \subseteq Tasks'
  BY StepsStay DEF TasksStay
<1>t. /\ acked \subseteq Tasks
      /\ \A w \in Writes : queue[w] > 0 \/ tries[w] > 0 => w \in Tasks
      /\ \A k \in Keys : cache[k] # NoWrite => cache[k] \in Tasks
      /\ \A p \in Producers : prod[p].pc # "idle" => prod[p].w \in Tasks
      /\ queue \in [Writes -> Nat] /\ tries \in [Writes -> Nat]
      /\ cache \in [Keys -> Writes \cup {NoWrite}] /\ prod \in [Producers -> ProdRec]
  BY <1>s DEF Types, TasksKnown, Queued
<1>a. AtRest.pc = "idle"
  BY DEF AtRest
<1>1. ASSUME NEW p \in Producers, Submit(p) PROVE TasksKnown'
  <2>1. PICK w : w = Len(task) + 1
    OBVIOUS
  <2>2. /\ Tasks' = Tasks \cup {w}
        /\ UNCHANGED <<queue, cache, acked, tries>>
    BY <1>1, <1>s, <2>1, SubmitIs
  <2>3. PICK k \in Keys \cup {NoKey} : prod' = [prod EXCEPT ![p] =
                [pc |-> IF k = NoKey THEN "push" ELSE "merge", w |-> w, key |-> k]]
    <3>1. Enters(p, w)
      BY <1>1, <1>s, <2>1, SubmitIs
    <3> QED
      BY <3>1 DEF Enters
  <2>4. \A q \in Producers : q # p => prod'[q] = prod[q]
    BY <2>3, <1>t
  <2>5. prod'[p].w = w
    BY <2>3, <1>t
  <2> QED
    BY <1>t, <2>2, <2>4, <2>5 DEF TasksKnown, Queued
<1>2. ASSUME NEW p \in Producers, Merge(p) PROVE TasksKnown'
  <2>1. prod' = [prod EXCEPT ![p] = AtRest] /\ prod[p].w \in Tasks
        /\ acked' = acked \cup {prod[p].w} /\ UNCHANGED <<queue, cache, tries>>
    BY ZenonT(60), <1>2, MergeIs
  <2>2. \A q \in Producers : prod'[q].pc # "idle" => prod'[q] = prod[q]
    BY <1>a, <1>t, <2>1
  <2> QED
    BY <1>t, <1>z, <2>1, <2>2 DEF TasksKnown, Queued
<1>3. ASSUME NEW p \in Producers, Remember(p) PROVE TasksKnown'
  <2>1. prod[p].w \in Tasks /\ prod[p].key \in Keys
    BY <1>3, <1>s, ActiveSubmit DEF Remember
  <2>2. \A q \in Producers : prod'[q].w = prod[q].w /\ (prod'[q].pc # "idle" => prod[q].pc # "idle")
    BY <1>3, <1>t DEF Remember, ProdRec
  <2>3. \A k \in Keys : cache'[k] = cache[k] \/ cache'[k] = prod[p].w
    BY <1>3, <1>t DEF Remember
  <2> QED
    BY <1>3, <1>t, <1>z, <2>1, <2>2, <2>3 DEF Remember, history, TasksKnown, Queued
<1>4. ASSUME NEW p \in Producers, Push(p) PROVE TasksKnown'
  <2>1. prod[p].w \in Tasks /\ prod[p].w \in Writes
    BY <1>4, <1>s, ActiveSubmit DEF Push
  <2>2. \A q \in Producers : prod'[q].pc # "idle" => prod'[q] = prod[q]
    BY <1>4, <1>a, <1>t DEF Push
  <2>3. acked' \subseteq acked \cup {prod[p].w}
    BY <1>4 DEF Push
  <2>4. \A w \in Writes : queue'[w] = queue[w] \/ w = prod[p].w
    BY <1>4, <1>t, <2>1 DEF Push
  <2> QED
    BY <1>4, <1>t, <1>z, <2>1, <2>2, <2>3, <2>4 DEF Push, TasksKnown, Queued
<1>5. ASSUME NEW t \in Threads, Pop(t) PROVE TasksKnown'
  <2>1. PICK v \in Writes :
           /\ queue[v] > 0 /\ queue' = [queue EXCEPT ![v] = @ - 1]
           /\ cache' = Forgotten(v) /\ UNCHANGED <<task, prod, acked, tries>>
    BY <1>5, <1>s, PopIs
  <2>2. \A w \in Writes : queue'[w] > 0 => queue[w] > 0
    BY <1>t, <2>1
  <2>3. \A k \in Keys : cache'[k] # NoWrite => cache'[k] = cache[k]
    BY <1>t, <2>1 DEF Forgotten
  <2> QED
    BY <1>t, <1>z, <2>1, <2>2, <2>3 DEF TasksKnown, Queued
<1>6. ASSUME NEW t \in Threads, NEW i \in Coming(t), At(t, i), NEW v, v = hand[t].batch[i]
      PROVE  TasksKnown'
  <2>1. v \in Tasks /\ v \in Writes
    BY <1>6, <1>s, GroupInHand, InBatch
  <2>2. /\ tries' = [tries EXCEPT ![v] = @ + 1]
        /\ UNCHANGED <<cache, prod, acked>>
        /\ queue' = queue \/ queue' = [queue EXCEPT ![v] = @ + 1]
    BY <1>6, <1>s, AtOneTask
  <2>3. \A w \in Writes : w # v => tries'[w] = tries[w] /\ queue'[w] = queue[w]
    BY <1>t, <2>1, <2>2
  <2> QED
    BY <1>t, <1>z, <2>1, <2>2, <2>3 DEF TasksKnown, Queued
<1>7. ASSUME NEW t \in Threads, NEW i \in Coming(t), RetryGroup(t, i),
             NEW v, v = hand[t].batch[i]
      PROVE  TasksKnown'
  <2>1. v \in Tasks /\ v \in Writes
    BY <1>7, <1>s, GroupInHand, InBatch
  <2>2. /\ UNCHANGED <<cache, prod, acked, tries>>
        /\ queue' = queue \/ queue' = [queue EXCEPT ![v] = @ + 1]
    BY <1>7, <1>s, RetryOneTask
  <2>3. \A w \in Writes : w # v => queue'[w] = queue[w]
    BY <1>t, <2>1, <2>2
  <2> QED
    BY <1>t, <1>z, <2>1, <2>2, <2>3 DEF TasksKnown, Queued
<1>8. ASSUME NEW t \in Threads,
             \/ Wait(t) \/ Take(t) \/ Leave(t)
             \/ Commit(t) \/ CommitFails(t) \/ RejectGroup(t)
      PROVE  TasksKnown'
  <2>1. UNCHANGED <<task, queue, cache, prod, acked, tries>>
    BY <1>8 DEF Wait, Take, Leave, Commit, CommitFails, RejectGroup, lists, history
  <2> QED
    BY <1>t, <1>z, <2>1 DEF TasksKnown, Queued
<1>9. ASSUME Start \/ Stop \/ Stopped PROVE TasksKnown'
  <2>1. UNCHANGED <<task, queue, cache, prod, acked, tries>>
    BY <1>9 DEF Start, Stop, Stopped, lists, history
  <2> QED
    BY <1>t, <1>z, <2>1 DEF TasksKnown, Queued
<1>10. ASSUME Clear PROVE TasksKnown'
  <2>1. /\ UNCHANGED <<task, acked, tries>>
        /\ queue' = [w \in Writes |-> 0] /\ cache' = [k \in Keys |-> NoWrite]
        /\ \A p \in Producers : prod'[p].pc # "idle" => prod'[p] = prod[p]
    BY <1>10, <1>a, <1>t DEF Clear
  <2> QED
    BY <1>t, <1>z, <2>1 DEF TasksKnown, Queued
<1> QED
  BY <1>1, <1>2, <1>3, <1>4, <1>5, <1>6, <1>7, <1>8, <1>9, <1>10
     DEF Next, ProducerStep, WorkerStep, At

LEMMA HandsStep ==
    ASSUME Sound, Next
    PROVE  HandsSound'
<1>s. Types /\ TasksKnown /\ HandsSound
  BY DEF Sound
<1>z. TasksStay
  BY StepsStay
<1>h. \A t \in Threads : HandSound(t)
  BY <1>s DEF HandsSound
<1>u. ASSUME hand' = hand PROVE HandsSound'
  BY <1>u, <1>z, <1>h, HandKept DEF HandsSound
<1>e. ASSUME NEW t \in Threads, Elsewhere(t), HandSound(t)'
      PROVE  HandsSound'
  <2>1. \A s \in Threads : s # t => HandSound(s)'
    BY <1>e, <1>z, <1>h, HandKept DEF Elsewhere
  <2> QED
    BY <1>e, <2>1 DEF HandsSound
<1>n. ASSUME NEW t \in Threads, NextGroup(t) PROVE HandsSound'
  BY <1>e, <1>h, <1>n, <1>s, <1>z, HandLets, NextGroupIs
<1>1. ASSUME NEW p \in Producers, ProducerStep(p) PROVE HandsSound'
  BY <1>1, <1>u DEF ProducerStep, Submit, Merge, Remember, Push
<1>2. ASSUME NEW t \in Threads, Pop(t) PROVE HandsSound'
  <2>1. PICK w \in Writes :
             /\ queue[w] > 0
             /\ hand[t].pc = "get" /\ Len(hand[t].batch) < BatchSize
             /\ hand' \in [Threads -> HandRec] /\ Elsewhere(t)
             /\ hand'[t].pc = "get" /\ hand'[t].batch = Append(hand[t].batch, w)
             /\ hand'[t].left = hand[t].left \cup {Len(hand[t].batch) + 1}
             /\ hand'[t].seen = hand[t].seen /\ hand'[t].staged = hand[t].staged
    BY <1>2, <1>s, PopIs
  <2>2. hand[t].batch \in Seq(Writes) /\ hand[t].left \in SUBSET Nat /\ w \in Tasks
    BY <1>s, <2>1 DEF Types, HandRec, TasksKnown, Queued
  <2>3. /\ Len(hand'[t].batch) = Len(hand[t].batch) + 1
        /\ hand'[t].batch[Len(hand[t].batch) + 1] = w
        /\ \A i \in 1 .. Len(hand[t].batch) : hand'[t].batch[i] = hand[t].batch[i]
    BY <2>1, <2>2
  <2>4. HandSound(t)'
    <3>1. hand'[t].left \subseteq 1 .. Len(hand'[t].batch) /\ Len(hand'[t].batch) <= BatchSize
      BY <1>h, <2>1, <2>2, <2>3 DEF HandSound
    <3>2. \A i \in hand'[t].left : hand'[t].batch[i] \in Tasks
      BY <1>h, <2>1, <2>2, <2>3 DEF HandSound
    <3> QED
      BY <1>h, <1>z, <2>1, <3>1, <3>2 DEF HandSound, TasksStay
  <2> QED
    BY <1>e, <2>1, <2>4
<1>3. ASSUME NEW t \in Threads, Wait(t) PROVE HandsSound'
  BY <1>3, <1>u DEF Wait
<1>4. ASSUME NEW t \in Threads, Take(t) PROVE HandsSound'
  <2>1. HandSound(t)'
    BY <1>4, <1>h, <1>s, <1>z, TakeIs, GroupKept DEF HandSound, TasksStay
  <2> QED
    BY <1>4, <1>e, <1>s, <2>1, TakeIs
<1>5. ASSUME NEW t \in Threads, Leave(t) PROVE HandsSound'
  <2>1. /\ Off.left = {} /\ Off.seen = {} /\ Off.staged = <<>> /\ Off.pc = "off"
        /\ Len(Off.batch) = 0
    BY DEF Off
  <2>2. HandSound(t)'
    BY <1>5, <1>s, <2>1, LeaveIs DEF HandSound
  <2> QED
    BY <1>5, <1>e, <1>s, <2>2, LeaveIs
<1>6. ASSUME NEW t \in Threads, NEW i \in Coming(t), At(t, i), NEW w, w = hand[t].batch[i]
      PROVE  HandsSound'
  <2>1. /\ Elsewhere(t)
        /\ hand'[t].pc = "exec" /\ hand'[t].batch = hand[t].batch
        /\ hand'[t].left = hand[t].left /\ hand'[t].seen = hand[t].seen \cup {i}
    BY <1>6, <1>s, AtOneTask
  <2>2. Group(t)' = Group(t) /\ i \in Group(t)
    BY <1>h, <1>z, <2>1, GroupKept, GroupInHand
  <2>3. HandSound(t)'
    BY <1>h, <1>z, <2>1, <2>2 DEF HandSound, TasksStay
  <2> QED
    BY <1>e, <2>1, <2>3
<1>7. ASSUME NEW t \in Threads, NEW i \in Coming(t), RetryGroup(t, i),
             NEW w, w = hand[t].batch[i]
      PROVE  HandsSound'
  <2>1. CASE NextGroup(t)
    BY <1>n, <2>1
  <2>2. CASE ~NextGroup(t)
    <3>1. /\ Elsewhere(t) /\ hand[t].pc = "retry"
          /\ hand'[t].pc = "retry" /\ hand'[t].batch = hand[t].batch
          /\ hand'[t].left = hand[t].left /\ hand'[t].seen = hand[t].seen \cup {i}
          /\ hand'[t].staged = hand[t].staged
      BY <1>7, <1>s, <2>2, RetryOneTask
    <3>2. Group(t)' = Group(t) /\ i \in Group(t)
      BY <1>h, <1>z, <3>1, GroupKept, GroupInHand
    <3>3. HandSound(t)'
      BY <1>h, <1>z, <3>1, <3>2 DEF HandSound, TasksStay
    <3> QED
      BY <1>e, <3>1, <3>3
  <2> QED
    BY <2>1, <2>2
<1>8. ASSUME NEW t \in Threads, Commit(t) \/ RejectGroup(t) PROVE HandsSound'
  BY <1>8, <1>n DEF Commit, RejectGroup
<1>9. ASSUME NEW t \in Threads, CommitFails(t) PROVE HandsSound'
  <2>1. HandSound(t)'
    BY <1>9, <1>h, <1>s, <1>z, CommitFailsIs DEF HandSound, TasksStay
  <2> QED
    BY <1>9, <1>e, <1>s, <2>1, CommitFailsIs
<1>10. CASE Start
  <2>1. ASSUME NEW t \in Threads PROVE HandSound(t)'
    <3>1. CASE hand'[t] = hand[t]
      BY <1>h, <1>z, <3>1, HandKept
    <3>2. CASE hand'[t] = Ready
      <4>1. /\ Ready.left = {} /\ Ready.seen = {} /\ Ready.staged = <<>> /\ Ready.pc = "get"
            /\ Len(Ready.batch) = 0
        BY DEF Ready, Off
      <4> QED
        BY <3>2, <4>1 DEF HandSound
    <3> QED
      BY <1>10, <1>s, <3>1, <3>2, StartIs
  <2> QED
    BY <2>1 DEF HandsSound
<1>11. CASE Stop \/ Stopped \/ Clear
  BY <1>11, <1>u DEF Stop, Stopped, Clear
<1> QED
  BY <1>1, <1>2, <1>3, <1>4, <1>5, <1>6, <1>7, <1>8, <1>9, <1>10, <1>11
     DEF Next, WorkerStep, At

-----------------------------------------------------------------------------
(* A task that nobody has been at stays so until it is taken from the queue, *)
(* and then the merge cache forgets it.                                      *)
LEMMA UntouchedKept ==
    ASSUME Sound, Next, NEW v \in Tasks, v \in Writes, Untouched(v)
    PROVE  Untouched(v)' \/ (Queued(v) /\ cache' = Forgotten(v))
<1>s. Types /\ TasksKnown /\ HandsSound
  BY DEF Sound
<1>t. tries \in [Writes -> Nat]
  BY <1>s DEF Types
<1>v. /\ task[v].retry = 0 /\ tries[v] = 0
      /\ \A t \in Threads : \A i \in hand[t].left : hand[t].batch[i] # v
  BY DEF Untouched
<1>e. ASSUME NEW t \in Threads, Elsewhere(t), task'[v].retry = 0, tries'[v] = 0,
             hand'[t].left \subseteq hand[t].left,
             hand'[t].left = {} \/ hand'[t].batch = hand[t].batch
      PROVE  Untouched(v)'
  <2>1. \A i \in hand'[t].left : hand'[t].batch[i] # v
    BY <1>e, <1>v
  <2>2. \A s \in Threads : s # t => \A i \in hand'[s].left : hand'[s].batch[i] # v
    BY <1>e, <1>v DEF Elsewhere
  <2> QED
    BY <1>e, <2>1, <2>2 DEF Untouched
<1>n. ASSUME NEW t \in Threads, NextGroup(t), task'[v].retry = 0, tries'[v] = 0
      PROVE  Untouched(v)'
  BY <1>e, <1>n, <1>s, NextGroupIs
<1>u. ASSUME hand' = hand, tries' = tries, task'[v].retry = 0 PROVE Untouched(v)'
  BY <1>u, <1>v DEF Untouched
<1>1. ASSUME NEW p \in Producers, Submit(p) PROVE Untouched(v)'
  BY <1>1, <1>s, <1>u, <1>v, SubmitIs
<1>2. ASSUME NEW p \in Producers, Merge(p), NEW old, old = cache[prod[p].key]
      PROVE  Untouched(v)'
  <2>1. /\ Others(old) /\ task'[old].retry = 0 /\ UNCHANGED <<hand, tries>>
    BY ZenonT(60), <1>2, MergeIs
  <2> QED
    BY <1>u, <1>v, <2>1 DEF Others
<1>3. ASSUME NEW p \in Producers, Remember(p) \/ Push(p) PROVE Untouched(v)'
  BY <1>3, <1>u, <1>v DEF Remember, Push, history
<1>4. ASSUME NEW t \in Threads, Pop(t) PROVE Untouched(v)' \/ (Queued(v) /\ cache' = Forgotten(v))
  <2>1. PICK w \in Writes :
             /\ queue[w] > 0 /\ cache' = Forgotten(w)
             /\ hand' \in [Threads -> HandRec] /\ Elsewhere(t)
             /\ hand'[t].batch = Append(hand[t].batch, w)
             /\ hand'[t].left = hand[t].left \cup {Len(hand[t].batch) + 1}
             /\ UNCHANGED <<task, tries>>
    BY <1>4, <1>s, PopIs
  <2>2. CASE w = v
    BY <2>1, <2>2 DEF Queued
  <2>3. CASE w # v
    <3>1. hand[t].batch \in Seq(Writes) /\ hand[t].left \subseteq 1 .. Len(hand[t].batch)
      BY <1>s DEF Types, HandRec, HandsSound, HandSound
    <3>2. ASSUME NEW i \in hand'[t].left PROVE hand'[t].batch[i] # v
      <4>1. CASE i = Len(hand[t].batch) + 1
        BY <2>1, <2>3, <3>1, <4>1
      <4>2. CASE i \in hand[t].left
        <5>1. Append(hand[t].batch, w)[i] = hand[t].batch[i]
          BY <3>1, <4>2
        <5> QED
          BY <1>v, <2>1, <4>2, <5>1
      <4> QED
        BY <2>1, <4>1, <4>2
    <3>3. \A s \in Threads : s # t => \A i \in hand'[s].left : hand'[s].batch[i] # v
      BY <1>v, <2>1 DEF Elsewhere
    <3> QED
      BY <1>v, <2>1, <3>2, <3>3 DEF Untouched
  <2> QED
    BY <2>2, <2>3
<1>5. ASSUME NEW t \in Threads, Wait(t) PROVE Untouched(v)'
  BY <1>5, <1>u, <1>v DEF Wait, history
<1>6. ASSUME NEW t \in Threads, Take(t) PROVE Untouched(v)'
  BY <1>6, <1>e, <1>s, <1>v, TakeIs
<1>7. ASSUME NEW t \in Threads, Leave(t) PROVE Untouched(v)'
  <2>1. Off.left = {}
    BY DEF Off
  <2> QED
    BY <1>7, <1>e, <1>s, <1>v, <2>1, LeaveIs
<1>8. ASSUME NEW t \in Threads, NEW i \in Coming(t), At(t, i), NEW w, w = hand[t].batch[i]
      PROVE  Untouched(v)'
  <2>1. /\ Elsewhere(t) /\ hand'[t].batch = hand[t].batch /\ hand'[t].left = hand[t].left
        /\ SameButOf(w) /\ tries' = [tries EXCEPT ![w] = @ + 1]
    BY <1>8, <1>s, AtOneTask
  <2>2. w # v
    BY <1>8, <1>v, GroupInHand
  <2>3. tries'[v] = 0 /\ task'[v].retry = 0
    BY <1>t, <1>v, <2>1, <2>2 DEF SameButOf
  <2> QED
    BY <1>e, <2>1, <2>3
<1>9. ASSUME NEW t \in Threads, NEW i \in Coming(t), RetryGroup(t, i),
             NEW w, w = hand[t].batch[i]
      PROVE  Untouched(v)'
  <2>1. w # v
    BY <1>9, <1>v, GroupInHand
  <2>2. SameButOf(w) /\ tries' = tries
    BY <1>9, <1>s, RetryOneTask
  <2>3. tries'[v] = 0 /\ task'[v].retry = 0
    BY <1>v, <2>1, <2>2 DEF SameButOf
  <2>4. CASE NextGroup(t)
    BY <1>n, <2>3, <2>4
  <2>5. CASE ~NextGroup(t)
    <3>1. Elsewhere(t) /\ hand'[t].batch = hand[t].batch /\ hand'[t].left = hand[t].left
      BY <1>9, <1>s, <2>5, RetryOneTask
    <3> QED
      BY <1>e, <2>3, <3>1
  <2> QED
    BY <2>4, <2>5
<1>10. ASSUME NEW t \in Threads, Commit(t) \/ RejectGroup(t) PROVE Untouched(v)'
  BY <1>10, <1>n, <1>v DEF Commit, RejectGroup
<1>11. ASSUME NEW t \in Threads, CommitFails(t) PROVE Untouched(v)'
  BY <1>11, <1>e, <1>s, <1>v, CommitFailsIs
<1>12. CASE Start
  <2>1. Ready.left = {}
    BY DEF Ready, Off
  <2>2. UNCHANGED <<task, tries>>
    BY <1>12, <1>s, StartIs
  <2>3. \A t \in Threads : hand'[t] = hand[t] \/ hand'[t] = Ready
    BY <1>12, <1>s, StartIs
  <2> QED
    BY <1>v, <2>1, <2>2, <2>3 DEF Untouched
<1>13. CASE Stop \/ Stopped \/ Clear
  <2>1. UNCHANGED <<task, tries, hand>>
    BY <1>13 DEF Stop, Stopped, Clear, history
  <2> QED
    BY <1>u, <1>v, <2>1
<1> QED
  BY <1>1, <1>2, <1>3, <1>4, <1>5, <1>6, <1>7, <1>8, <1>9, <1>10, <1>11, <1>12, <1>13
     DEF Next, ProducerStep, WorkerStep, At

(* A call of submit keeps its task to itself.                               *)
LEMMA ActiveOwn ==
    ASSUME Sound, NEW p \in Producers, prod[p].pc # "idle"
    PROVE  /\ prod[p].w \in Tasks /\ prod[p].w \in Writes
           /\ OnItsOwn(p) /\ Untouched(prod[p].w)
           /\ \A t \in Threads : \A i \in hand[t].left : hand[t].batch[i] # prod[p].w
           /\ \A q \in Producers : q # p => prod[q].pc = "idle" \/ prod[q].w # prod[p].w
  BY ActiveSubmit DEF Sound, SubmitsApart, OnItsOwn, Untouched

LEMMA OwnKept ==
    ASSUME Sound, Next, NEW p \in Producers, prod[p].pc # "idle", prod'[p] = prod[p],
           NEW v, v = prod[p].w,
           v \notin acked', queue'[v] = queue[v],
           \A q \in Producers : q # p => prod'[q].pc = "idle" \/ prod'[q].w # v,
           \A k \in Keys : cache'[k] = cache[k] \/ cache'[k] # v,
           prod[p].key = NoKey \/ prod[p].pc = "merge" => task'[v].writes = task[v].writes
    PROVE  OnItsOwn(p)'
<1>1. v \in Tasks /\ v \in Writes /\ OnItsOwn(p) /\ Untouched(v)
  BY ActiveOwn
<1>2. ~Queued(v) /\ (~Queued(v))'
  BY <1>1 DEF OnItsOwn, Queued
<1>3. Untouched(v)'
  BY <1>1, <1>2, UntouchedKept
<1> QED
  BY <1>1, <1>2, <1>3 DEF OnItsOwn

(* So does the merge cache until the task is popped.                        *)
LEMMA CachedKept ==
    ASSUME Sound, Next, NEW k \in Keys, cache[k] # NoWrite, cache'[k] = cache[k]
    PROVE  Untouched(cache[k])'
<1>1. cache[k] \in Tasks /\ cache[k] \in Writes /\ Untouched(cache[k])
  BY CachedTask DEF Sound, SubmitsApart
<1>2. cache' # Forgotten(cache[k])
  BY DEF Forgotten
<1> QED
  BY <1>1, <1>2, UntouchedKept

LEMMA ApartIf ==
    ASSUME Sound, Next,
           \A p \in Producers : prod'[p].pc # "idle" => OnItsOwn(p)',
           \A k \in Keys : cache'[k] # NoWrite => cache'[k] = cache[k]
    PROVE  SubmitsApart'
<1>1. \A k \in Keys : cache'[k] # NoWrite => Untouched(cache[k])'
  BY CachedKept
<1> QED
  BY <1>1 DEF SubmitsApart

(* SubmitsApart is kept.                                                    *)
LEMMA ApartStep ==
    ASSUME Sound, Next
    PROVE  SubmitsApart'
<1>s. Types /\ TasksKnown /\ HandsSound /\ SubmitsApart
  BY DEF Sound
<1>t. /\ acked \subseteq Tasks
      /\ \A w \in Writes : queue[w] > 0 \/ tries[w] > 0 => w \in Tasks
      /\ queue \in [Writes -> Nat] /\ tries \in [Writes -> Nat]
      /\ cache \in [Keys -> Writes \cup {NoWrite}] /\ prod \in [Producers -> ProdRec]
  BY <1>s DEF Types, TasksKnown, Queued
<1>a. AtRest.pc = "idle"
  BY DEF AtRest
<1>w. ASSUME NEW w, w \in Writes PROVE w # NoWrite
  BY <1>w DEF Writes, NoWrite
(* A step that leaves the calls of submit as they are, or ends some. *)
<1>o. ASSUME \A p \in Producers : prod'[p].pc # "idle" => prod'[p] = prod[p],
             \A k \in Keys : cache'[k] = cache[k] \/ cache'[k] = NoWrite,
             \A p \in Producers : prod[p].pc # "idle" /\ prod'[p].pc # "idle" =>
                /\ prod[p].w \notin acked'
                /\ queue'[prod[p].w] = queue[prod[p].w]
                /\ prod[p].key = NoKey \/ prod[p].pc = "merge" =>
                      task'[prod[p].w].writes = task[prod[p].w].writes
      PROVE  SubmitsApart'
  <2>1. ASSUME NEW p \in Producers, prod'[p].pc # "idle", NEW v, v = prod[p].w
        PROVE  OnItsOwn(p)'
    <3>1. prod[p].pc # "idle" /\ prod'[p] = prod[p]
      BY <1>o, <2>1
    <3>2. v \notin acked' /\ queue'[v] = queue[v]
      BY <1>o, <2>1, <3>1
    <3>3. prod[p].key = NoKey \/ prod[p].pc = "merge" => task'[v].writes = task[v].writes
      BY <1>o, <2>1, <3>1
    <3>4. \A q \in Producers : q # p => prod'[q].pc = "idle" \/ prod'[q].w # v
      BY <1>o, <2>1, <3>1, ActiveOwn
    <3>5. v # NoWrite
      BY <1>w, <2>1, <3>1, ActiveOwn
    <3>6. \A k \in Keys : cache'[k] = cache[k] \/ cache'[k] # v
      BY <1>o, <3>5
    <3> QED
      BY <2>1, <3>1, <3>2, <3>3, <3>4, <3>6, OwnKept
  <2>2. \A k \in Keys : cache'[k] # NoWrite => cache'[k] = cache[k]
    BY <1>o
  <2> QED
    BY <2>1, <2>2, ApartIf
(* ... and one that changes nothing of theirs either. *)
<1>q. ASSUME UNCHANGED <<prod, cache, acked, queue>>,
             \A v \in Tasks : task'[v].writes = task[v].writes
      PROVE  SubmitsApart'
  <2>1. ASSUME NEW p \in Producers, prod[p].pc # "idle"
        PROVE  prod[p].w \notin acked /\ prod[p].w \in Tasks
    BY <2>1, ActiveOwn DEF OnItsOwn
  <2> QED
    BY <1>q, <1>o, <2>1
<1>1. ASSUME NEW p \in Producers, Submit(p), NEW w, w = Len(task) + 1 PROVE SubmitsApart'
  <2>1. /\ prod[p].pc = "idle" /\ w \in Writes /\ w \notin Tasks
        /\ Tasks' = Tasks \cup {w}
        /\ \A v \in Tasks : task'[v] = task[v]
        /\ task'[w].retry = 0 /\ task'[w].writes = {w}
        /\ Enters(p, w)
        /\ UNCHANGED <<queue, cache, hand, acked, tries>>
    BY <1>1, <1>s, SubmitIs
  <2>2. PICK k \in Keys \cup {NoKey} : prod' = [prod EXCEPT ![p] =
                [pc |-> IF k = NoKey THEN "push" ELSE "merge", w |-> w, key |-> k]]
    BY <2>1 DEF Enters
  <2>3. /\ \A q \in Producers : q # p => prod'[q] = prod[q]
        /\ prod'[p].w = w /\ prod'[p].key = k
        /\ prod'[p].pc = IF k = NoKey THEN "push" ELSE "merge"
    BY <2>2, <1>t
  <2>4. ASSUME NEW q \in Producers, q # p, prod'[q].pc # "idle", NEW v, v = prod[q].w
        PROVE  OnItsOwn(q)'
    <3>1. prod[q].pc # "idle" /\ prod'[q] = prod[q] /\ v \in Tasks /\ v # w
      BY <2>1, <2>3, <2>4, ActiveOwn
    <3>2. v \notin acked
      BY <2>4, <3>1, ActiveOwn DEF OnItsOwn
    <3>3. \A r \in Producers : r # q => prod'[r].pc = "idle" \/ prod'[r].w # v
      BY <2>3, <2>4, <3>1, ActiveOwn
    <3> QED
      BY <2>1, <2>4, <3>1, <3>2, <3>3, OwnKept
  <2>5. OnItsOwn(p)'
    <3>1. w \notin acked /\ queue[w] = 0 /\ tries[w] = 0
      BY <1>t, <2>1
    <3>2. \A t \in Threads : \A i \in hand[t].left : hand[t].batch[i] # w
      BY <1>s, <2>1 DEF HandsSound, HandSound
    <3>3. \A r \in Producers : r # p => prod'[r].pc = "idle" \/ prod'[r].w # w
      BY <2>1, <2>3, ActiveOwn
    <3>4. \A x \in Keys : cache[x] # w
      BY <1>s, <1>w, <2>1, CachedTask
    <3>5. (Untouched(prod[p].w))'
      BY <2>1, <2>3, <3>1, <3>2 DEF Untouched
    <3>6. prod'[p].pc = "merge" => prod'[p].key # NoKey
      BY <2>3
    <3>7. (~Queued(prod[p].w))'
      BY <2>1, <2>3, <3>1 DEF Queued
    <3> QED
      BY <2>1, <2>3, <3>1, <3>3, <3>4, <3>5, <3>6, <3>7 DEF OnItsOwn
  <2> QED
    BY <2>1, <2>4, <2>5, ApartIf
<1>2. ASSUME NEW p \in Producers, Merge(p), NEW old, old = cache[prod[p].key]
      PROVE  SubmitsApart'
  <2>1. /\ prod[p].pc = "merge" /\ prod[p].key \in Keys
        /\ Others(old) /\ acked' = acked \cup {prod[p].w}
        /\ prod' = [prod EXCEPT ![p] = AtRest] /\ UNCHANGED <<queue, cache>>
    BY ZenonT(60), <1>2, MergeIs
  <2>2. \A q \in Producers : q # p => prod'[q] = prod[q]
    BY <1>t, <2>1
  <2>3. prod'[p].pc = "idle"
    BY <1>a, <1>t, <2>1
  <2>4. ASSUME NEW q \in Producers, prod[q].pc # "idle", prod'[q].pc # "idle"
        PROVE  /\ prod[q].w \notin acked'
               /\ prod[q].key = NoKey \/ prod[q].pc = "merge" =>
                      task'[prod[q].w].writes = task[prod[q].w].writes
    <3>1. q # p /\ prod[q].w \in Tasks
      BY <2>3, <2>4, ActiveOwn
    <3>2. prod[q].w # prod[p].w /\ prod[q].w \notin acked
      BY <2>1, <2>4, <3>1, ActiveOwn DEF OnItsOwn
    <3>3. prod[q].key = NoKey \/ prod[q].pc = "merge" => prod[q].w # old
      BY <1>2, <2>1, <2>4, ActiveOwn DEF OnItsOwn
    <3> QED
      BY <2>1, <3>1, <3>2, <3>3 DEF Others
  <2> QED
    BY <1>o, <2>1, <2>2, <2>3, <2>4
<1>3. ASSUME NEW p \in Producers, Remember(p) PROVE SubmitsApart'
  <2>1. /\ prod[p].pc = "merge" /\ prod[p].key \in Keys
        /\ UNCHANGED <<task, queue, hand, acked, tries>>
    BY <1>3, <1>s, ActiveSubmit DEF Remember, history
  <2>2. /\ \A q \in Producers : q # p => prod'[q] = prod[q]
        /\ prod'[p].pc = "push" /\ prod'[p].w = prod[p].w /\ prod'[p].key = prod[p].key
    BY <1>3, <1>t DEF Remember, ProdRec
  <2>3. \A k \in Keys : cache'[k] = IF k = prod[p].key THEN prod[p].w ELSE cache[k]
    BY <1>3, <1>t DEF Remember
  <2>4. ASSUME NEW q \in Producers, q # p, prod'[q].pc # "idle", NEW v, v = prod[q].w
        PROVE  OnItsOwn(q)'
    <3>1. prod[q].pc # "idle" /\ prod'[q] = prod[q] /\ v # prod[p].w
      BY <2>1, <2>2, <2>4, ActiveOwn
    <3>2. v \notin acked
      BY <2>4, <3>1, ActiveOwn DEF OnItsOwn
    <3>3. \A r \in Producers : r # q => prod'[r].pc = "idle" \/ prod'[r].w # v
      BY <2>2, <2>4, <3>1, ActiveOwn
    <3>4. \A k \in Keys : cache'[k] = cache[k] \/ cache'[k] # v
      BY <2>3, <3>1
    <3> QED
      BY <2>1, <2>4, <3>1, <3>2, <3>3, <3>4, OwnKept
  <2>5. OnItsOwn(p) /\ prod[p].w \in Tasks /\ prod[p].w \in Writes /\ Untouched(prod[p].w)
        /\ \A q \in Producers : q # p => prod[q].pc = "idle" \/ prod[q].w # prod[p].w
    BY <2>1, ActiveOwn
  <2>6. Untouched(prod[p].w)'
    BY <2>1, <2>2, <2>5 DEF Untouched
  <2>7. OnItsOwn(p)'
    <3>1. prod[p].key # NoKey
      BY <2>1
    <3> QED
      BY <2>1, <2>2, <2>5, <2>6, <3>1 DEF OnItsOwn, Queued
  <2>8. \A k \in Keys : cache'[k] # NoWrite => Untouched(cache[k])'
    <3>1. ASSUME NEW k \in Keys, k = prod[p].key PROVE Untouched(cache[k])'
      BY <2>2, <2>3, <2>6, <3>1
    <3>2. ASSUME NEW k \in Keys, k # prod[p].key, cache'[k] # NoWrite
          PROVE  Untouched(cache[k])'
      BY <2>3, <3>2, CachedKept
    <3> QED
      BY <3>1, <3>2
  <2> QED
    BY <2>4, <2>7, <2>8 DEF SubmitsApart
<1>4. ASSUME NEW p \in Producers, Push(p) PROVE SubmitsApart'
  <2>1. prod[p].pc = "push" /\ prod[p].w \in Writes
        /\ prod' = [prod EXCEPT ![p] = AtRest] /\ UNCHANGED <<task, cache>>
    BY <1>4, ActiveOwn DEF Push
  <2>2. acked' \subseteq acked \cup {prod[p].w}
    BY <1>4 DEF Push
  <2>3. \A w \in Writes : w # prod[p].w => queue'[w] = queue[w]
    BY <1>4, <1>t, <2>1 DEF Push
  <2>4. \A q \in Producers : q # p => prod'[q] = prod[q]
    BY <1>t, <2>1
  <2>5. prod'[p].pc = "idle"
    BY <1>a, <1>t, <2>1
  <2>6. ASSUME NEW q \in Producers, prod[q].pc # "idle", prod'[q].pc # "idle"
        PROVE  prod[q].w \notin acked' /\ queue'[prod[q].w] = queue[prod[q].w]
    <3>1. q # p /\ prod[q].w \in Writes /\ prod[q].w \notin acked
      BY <2>5, <2>6, ActiveOwn DEF OnItsOwn
    <3>2. prod[q].w # prod[p].w
      BY <2>1, <2>6, <3>1, ActiveOwn
    <3> QED
      BY <2>2, <2>3, <3>1, <3>2
  <2> QED
    BY <1>o, <2>1, <2>4, <2>5, <2>6
<1>5. ASSUME NEW t \in Threads, Pop(t) PROVE SubmitsApart'
  <2>1. PICK w \in Writes :
             /\ queue[w] > 0 /\ queue' = [queue EXCEPT ![w] = @ - 1]
             /\ cache' = Forgotten(w)
             /\ UNCHANGED <<task, prod, acked>>
    BY <1>5, <1>s, PopIs
  <2>2. \A k \in Keys : cache'[k] = cache[k] \/ cache'[k] = NoWrite
    BY <2>1 DEF Forgotten
  <2>3. ASSUME NEW q \in Producers, prod[q].pc # "idle"
        PROVE  prod[q].w \notin acked /\ queue'[prod[q].w] = queue[prod[q].w]
    <3>1. prod[q].w \in Writes /\ prod[q].w \notin acked /\ ~(queue[prod[q].w] > 0)
      BY <2>3, ActiveOwn DEF OnItsOwn, Queued
    <3> QED
      BY <1>t, <2>1, <3>1
  <2> QED
    BY <1>o, <2>1, <2>2, <2>3
<1>6. ASSUME NEW w \in Writes, SameButOf(w), UNCHANGED <<cache, prod, acked>>,
             \E t \in Threads : \E i \in hand[t].left : w = hand[t].batch[i],
             queue' = queue \/ queue' = [queue EXCEPT ![w] = @ + 1]
      PROVE  SubmitsApart'
  <2>1. ASSUME NEW q \in Producers, prod[q].pc # "idle"
        PROVE  /\ prod[q].w \notin acked /\ queue'[prod[q].w] = queue[prod[q].w]
               /\ task'[prod[q].w].writes = task[prod[q].w].writes
    <3>1. prod[q].w \in Writes /\ prod[q].w \in Tasks /\ prod[q].w \notin acked
          /\ w # prod[q].w
      BY <1>6, <2>1, ActiveOwn DEF OnItsOwn
    <3>2. queue'[prod[q].w] = queue[prod[q].w]
      BY <1>6, <1>t, <3>1
    <3> QED
      BY <1>6, <3>1, <3>2 DEF SameButOf
  <2> QED
    BY <1>o, <1>6, <2>1
<1>7. ASSUME NEW t \in Threads, NEW i \in Coming(t), At(t, i), NEW w, w = hand[t].batch[i]
      PROVE  SubmitsApart'
  <2>1. i \in hand[t].left /\ w \in Writes
    BY <1>7, <1>s, GroupInHand, InBatch
  <2>2. /\ SameButOf(w) /\ UNCHANGED <<cache, prod, acked>>
        /\ queue' = queue \/ queue' = [queue EXCEPT ![w] = @ + 1]
    BY <1>7, <1>s, AtOneTask
  <2> QED
    BY <1>6, <1>7, <2>1, <2>2
<1>8. ASSUME NEW t \in Threads, NEW i \in Coming(t), RetryGroup(t, i),
             NEW w, w = hand[t].batch[i]
      PROVE  SubmitsApart'
  <2>1. i \in hand[t].left /\ w \in Writes
    BY <1>8, <1>s, GroupInHand, InBatch
  <2>2. /\ SameButOf(w) /\ UNCHANGED <<cache, prod, acked>>
        /\ queue' = queue \/ queue' = [queue EXCEPT ![w] = @ + 1]
    BY <1>8, <1>s, RetryOneTask
  <2> QED
    BY <1>6, <1>8, <2>1, <2>2
<1>9. ASSUME NEW t \in Threads,
             \/ Wait(t) \/ Take(t) \/ Leave(t)
             \/ Commit(t) \/ CommitFails(t) \/ RejectGroup(t)
      PROVE  SubmitsApart'
  <2>1. UNCHANGED <<task, queue, cache, prod, acked>>
    BY <1>9 DEF Wait, Take, Leave, Commit, CommitFails, RejectGroup, lists, history
  <2> QED
    BY <1>q, <2>1
<1>10. CASE Start \/ Stop \/ Stopped
  <2>1. UNCHANGED <<task, queue, cache, prod, acked>>
    BY <1>10 DEF Start, Stop, Stopped, lists, history
  <2> QED
    BY <1>q, <2>1
<1>11. CASE Clear
  <2>1. /\ UNCHANGED <<task, acked>>
        /\ queue' = [w \in Writes |-> 0] /\ cache' = [k \in Keys |-> NoWrite]
    BY <1>11 DEF Clear
  <2>2. \A p \in Producers : prod'[p].pc # "idle" => prod'[p] = prod[p]
    BY <1>11, <1>a, <1>t DEF Clear
  <2>3. ASSUME NEW q \in Producers, prod[q].pc # "idle"
        PROVE  prod[q].w \notin acked /\ queue'[prod[q].w] = queue[prod[q].w]
    <3>1. prod[q].w \in Writes /\ prod[q].w \notin acked /\ ~(queue[prod[q].w] > 0)
      BY <2>3, ActiveOwn DEF OnItsOwn, Queued
    <3> QED
      BY <1>t, <2>1, <3>1
  <2> QED
    BY <1>o, <2>1, <2>2, <2>3
<1> QED
  BY <1>1, <1>2, <1>3, <1>4, <1>5, <1>7, <1>8, <1>9, <1>10, <1>11
     DEF Next, ProducerStep, WorkerStep, At

-----------------------------------------------------------------------------
(* Executions of a task. *)
InBounds(w) ==
    /\ IsFiniteSet(ToRun(w))
    /\ tries[w] + queue[w] + Cardinality(ToRun(w)) + Entered(w) <= Allowed(w)

LEMMA OpenSame ==
    ASSUME TasksStay, NEW t \in Threads, HandSound(t), hand'[t] = hand[t]
    PROVE  Open(t)' = Open(t)
<1>1. Group(t)' = Group(t)
  BY GroupKept
<1> QED
  BY <1>1 DEF Open

LEMMA OpenNext ==
    ASSUME Types, NEW t \in Threads, HandSound(t), NextGroup(t)
    PROVE  Open(t)' \subseteq Open(t)
<1>1. /\ hand'[t].left = hand[t].left \ Group(t)
      /\ hand'[t].seen = {} /\ hand'[t].pc # "retry"
  BY NextGroupIs
<1>2. hand[t].seen \subseteq Group(t)
  BY DEF HandSound
<1> QED
  BY <1>1, <1>2 DEF Open

(* Nothing new is to be executed. *)
NoMore ==
    \A t \in Threads : /\ Open(t)' \subseteq Open(t)
                       /\ Open(t)' = {} \/ hand'[t].batch = hand[t].batch

LEMMA NoMoreElsewhere ==
    ASSUME Sound, TasksStay, NEW t \in Threads, Elsewhere(t), Open(t)' \subseteq Open(t),
           Open(t)' = {} \/ hand'[t].batch = hand[t].batch
    PROVE  NoMore
<1>1. ASSUME NEW s \in Threads, s # t
      PROVE  Open(s)' = Open(s) /\ hand'[s].batch = hand[s].batch
  BY <1>1, OpenSame DEF Elsewhere, Sound, HandsSound
<1> QED
  BY <1>1 DEF NoMore

LEMMA NoMoreSame ==
    ASSUME Sound, TasksStay, hand' = hand
    PROVE  NoMore
  BY OpenSame DEF NoMore, Sound, HandsSound

LEMMA NoMoreNext ==
    ASSUME Sound, TasksStay, NEW t \in Threads, NextGroup(t)
    PROVE  NoMore
<1>1. Types /\ HandSound(t)
  BY DEF Sound, HandsSound
<1>2. Elsewhere(t) /\ (hand'[t].left = {} \/ hand'[t].batch = hand[t].batch)
  BY <1>1, NextGroupIs
<1>3. Open(t)' = {} \/ hand'[t].batch = hand[t].batch
  BY <1>2 DEF Open
<1> QED
  BY <1>1, <1>2, <1>3, OpenNext, NoMoreElsewhere

LEMMA NoMoreRuns ==
    ASSUME NoMore, NEW v
    PROVE  ToRun(v)' \subseteq ToRun(v)
  BY DEF NoMore, ToRun

LEMMA BoundsKept ==
    ASSUME Types, Types', NEW v \in Tasks, v \in Writes, InBounds(v),
           ToRun(v)' \subseteq ToRun(v),
           tries'[v] + queue'[v] + Entered(v)' <= tries[v] + queue[v] + Entered(v),
           task'[v].retry >= task[v].retry, task[v].retry \in Nat, task'[v].retry \in Nat
    PROVE  InBounds(v)'
<1>2. /\ IsFiniteSet(ToRun(v)') /\ Cardinality(ToRun(v)') <= Cardinality(ToRun(v))
      /\ Cardinality(ToRun(v)) \in Nat /\ Cardinality(ToRun(v)') \in Nat
  BY FS_Subset, FS_CardinalityType DEF InBounds
<1>3. Allowed(v)' >= Allowed(v) /\ Allowed(v) \in Nat /\ Allowed(v)' \in Nat
  BY DEF Allowed
<1>4. Entered(v) \in Nat /\ Entered(v)' \in Nat
  BY DEF Entered
<1>5. tries[v] \in Nat /\ queue[v] \in Nat /\ tries'[v] \in Nat /\ queue'[v] \in Nat
  BY DEF Types
<1> QED
  BY <1>2, <1>3, <1>4, <1>5 DEF InBounds

LEMMA EnteredKept ==
    ASSUME \A p \in Producers : prod'[p].pc # "idle" => prod'[p] = prod[p], NEW v
    PROVE  Entered(v)' <= Entered(v) /\ Entered(v) \in Nat /\ Entered(v)' \in Nat
  BY DEF Entered

LEMMA CountStep ==
    ASSUME Counted, Next, Types', TasksKnown'
    PROVE  TriesCounted'
<1>s. Sound /\ Types /\ TasksKnown /\ HandsSound /\ SubmitsApart
  BY DEF Counted, Sound
<1>b. \A v \in Tasks : InBounds(v) /\ v \in Writes
  BY <1>s DEF Counted, TriesCounted, InBounds, Types, Tasks, Writes
<1>t. /\ queue \in [Writes -> Nat] /\ tries \in [Writes -> Nat]
      /\ queue' \in [Writes -> Nat] /\ tries' \in [Writes -> Nat]
      /\ prod \in [Producers -> ProdRec]
  BY <1>s DEF Types
<1>r. \A v \in Tasks : task[v].retry \in Nat
  <2>1. task \in Seq(TaskRec)
    BY <1>s DEF Types
  <2>2. \A v \in Tasks : task[v] \in TaskRec
    BY <2>1 DEF Tasks
  <2> QED
    BY <2>2 DEF TaskRec
<1>z. TasksStay
  BY <1>s, StepsStay
<1>a. AtRest.pc = "idle"
  BY DEF AtRest
<1>g. ASSUME \A v \in Tasks' : InBounds(v)'
      PROVE  TriesCounted'
  BY <1>g DEF TriesCounted, InBounds
(* Steps that add no execution and count no retry. *)
<1>k. ASSUME NoMore, Tasks' = Tasks, \A v \in Tasks : task'[v].retry = task[v].retry,
             \A v \in Tasks : tries'[v] + queue'[v] + Entered(v)'
                                <= tries[v] + queue[v] + Entered(v)
      PROVE  TriesCounted'
  <2>1. ASSUME NEW v \in Tasks PROVE InBounds(v)'
    BY <1>b, <1>k, <1>r, <1>s, BoundsKept, NoMoreRuns
  <2> QED
    BY <1>g, <1>k, <2>1
<1>q. ASSUME NoMore, UNCHANGED <<task, queue, prod, tries>> PROVE TriesCounted'
  <2>1. \A v \in Tasks : Entered(v)' <= Entered(v) /\ Entered(v) \in Nat /\ Entered(v)' \in Nat
    BY <1>q, EnteredKept
  <2>2. \A v \in Tasks : tries'[v] + queue'[v] + Entered(v)' <= tries[v] + queue[v] + Entered(v)
    BY <1>b, <1>q, <1>t, <2>1
  <2>3. Tasks' = Tasks
    BY <1>q, UnchangedStay
  <2> QED
    BY <1>k, <1>q, <2>2, <2>3
<1>1. ASSUME NEW p \in Producers, Submit(p), NEW w, w = Len(task) + 1 PROVE TriesCounted'
  <2>1. /\ w \in Writes /\ w \notin Tasks /\ Tasks' = Tasks \cup {w}
        /\ \A v \in Tasks : task'[v] = task[v]
        /\ task'[w].retry = 0 /\ Enters(p, w)
        /\ UNCHANGED <<queue, hand, tries>>
    BY <1>1, <1>s, SubmitIs
  <2>2. \A q \in Producers : q # p => prod'[q] = prod[q]
    BY <1>t, <2>1 DEF Enters
  <2>3. prod'[p].w = w
    BY <1>t, <2>1 DEF Enters
  <2>4. NoMore
    BY <1>s, <1>z, <2>1, NoMoreSame
  <2>5. ASSUME NEW v \in Tasks PROVE InBounds(v)'
    <3>1. Entered(v)' <= Entered(v) /\ Entered(v)' \in Nat /\ Entered(v) \in Nat
      BY <2>1, <2>2, <2>3 DEF Entered
    <3>2. tries'[v] + queue'[v] + Entered(v)' <= tries[v] + queue[v] + Entered(v)
      BY <1>b, <1>t, <2>1, <3>1
    <3> QED
      BY <1>b, <1>r, <1>s, <2>1, <2>4, <3>2, BoundsKept, NoMoreRuns
  <2>6. InBounds(w)'
    <3>1. tries[w] = 0 /\ queue[w] = 0
      BY <1>s, <1>t, <2>1 DEF TasksKnown, Queued
    <3>2. ToRun(w)' = {}
      <4>1. \A t \in Threads : Open(t)' \subseteq hand[t].left
        BY <2>1 DEF Open
      <4>2. \A t \in Threads : \A i \in hand[t].left : hand[t].batch[i] # w
        BY <1>s, <2>1 DEF HandsSound, HandSound
      <4> QED
        BY <2>1, <4>1, <4>2 DEF ToRun
    <3>3. Entered(w)' \in {0, 1}
      BY DEF Entered
    <3>4. Allowed(w)' >= 1 /\ Allowed(w)' \in Nat
      BY <2>1 DEF Allowed
    <3> QED
      BY <2>1, <3>1, <3>2, <3>3, <3>4, FS_EmptySet DEF InBounds
  <2> QED
    BY <1>g, <2>1, <2>5, <2>6
<1>2. ASSUME NEW p \in Producers, Merge(p), NEW old, old = cache[prod[p].key]
      PROVE  TriesCounted'
  <2>1. /\ old \in Tasks /\ task[old].retry = 0 /\ task'[old].retry = 0
        /\ Tasks' = Tasks /\ Others(old)
        /\ prod' = [prod EXCEPT ![p] = AtRest] /\ UNCHANGED <<queue, hand, tries>>
    BY ZenonT(60), <1>2, <1>s, MergeIs
  <2>2. \A v \in Tasks : task'[v].retry = task[v].retry
    BY <2>1 DEF Others
  <2>3. \A q \in Producers : prod'[q].pc # "idle" => prod'[q] = prod[q]
    BY <1>a, <1>t, <2>1
  <2>4. \A v \in Tasks : tries'[v] + queue'[v] + Entered(v)' <= tries[v] + queue[v] + Entered(v)
    BY <1>b, <1>t, <2>1, <2>3, EnteredKept
  <2>5. NoMore
    BY <1>s, <1>z, <2>1, NoMoreSame
  <2> QED
    BY <1>k, <2>1, <2>2, <2>4, <2>5
<1>3. ASSUME NEW p \in Producers, Remember(p) PROVE TriesCounted'
  <2>1. UNCHANGED <<task, queue, hand, tries>>
    BY <1>3 DEF Remember, history
  <2>2. \A q \in Producers : /\ prod'[q].w = prod[q].w
                             /\ prod'[q].pc # "idle" => prod[q].pc # "idle"
    BY <1>3, <1>t DEF Remember, ProdRec
  <2>3. \A v \in Tasks : Entered(v)' <= Entered(v) /\ Entered(v) \in Nat /\ Entered(v)' \in Nat
    BY <2>2 DEF Entered
  <2>4. \A v \in Tasks : tries'[v] + queue'[v] + Entered(v)' <= tries[v] + queue[v] + Entered(v)
    BY <1>b, <1>t, <2>1, <2>3
  <2>5. NoMore /\ Tasks' = Tasks
    BY <1>s, <1>z, <2>1, NoMoreSame, UnchangedStay
  <2> QED
    BY <1>k, <2>1, <2>4, <2>5
<1>4. ASSUME NEW p \in Producers, Push(p) PROVE TriesCounted'
  <2>1. /\ prod[p].pc = "push" /\ prod' = [prod EXCEPT ![p] = AtRest]
        /\ UNCHANGED <<task, hand, tries>>
        /\ queue' = queue \/ queue' = [queue EXCEPT ![prod[p].w] = @ + 1]
    BY <1>4 DEF Push
  <2>2. \A q \in Producers : prod'[q].pc # "idle" => prod'[q] = prod[q] /\ q # p
    BY <1>a, <1>t, <2>1
  <2>3. prod[p].w \in Writes
        /\ \A q \in Producers : q # p => prod[q].pc = "idle" \/ prod[q].w # prod[p].w
    BY <1>s, <2>1, ActiveOwn
  <2>4. ASSUME NEW v \in Tasks
        PROVE  tries'[v] + queue'[v] + Entered(v)' <= tries[v] + queue[v] + Entered(v)
    <3>1. Entered(v)' <= Entered(v) /\ Entered(v) \in Nat /\ Entered(v)' \in Nat
      BY <2>2, EnteredKept
    <3>2. CASE v = prod[p].w
      <4>1. Entered(v) = 1 /\ Entered(v)' = 0
        BY <2>1, <2>2, <2>3, <3>2 DEF Entered
      <4>2. queue'[v] <= queue[v] + 1
        BY <1>t, <2>1, <2>3, <3>2
      <4> QED
        BY <1>b, <1>t, <2>1, <4>1, <4>2
    <3>3. CASE v # prod[p].w
      <4>1. queue'[v] = queue[v]
        BY <1>b, <1>t, <2>1, <2>3, <3>3
      <4> QED
        BY <1>b, <1>t, <2>1, <3>1, <4>1
    <3> QED
      BY <3>2, <3>3
  <2>5. NoMore /\ Tasks' = Tasks
    BY <1>s, <1>z, <2>1, NoMoreSame, UnchangedStay
  <2> QED
    BY <1>k, <2>1, <2>4, <2>5
<1>5. ASSUME NEW t \in Threads, Pop(t) PROVE TriesCounted'
  <2> DEFINE n == Len(hand[t].batch) + 1
  <2>1. PICK w \in Writes :
             /\ queue[w] > 0 /\ queue' = [queue EXCEPT ![w] = @ - 1]
             /\ hand[t].pc = "get" /\ Len(hand[t].batch) < BatchSize
             /\ Elsewhere(t)
             /\ hand'[t].pc = "get" /\ hand'[t].batch = Append(hand[t].batch, w)
             /\ hand'[t].left = hand[t].left \cup {n}
             /\ hand'[t].seen = hand[t].seen
             /\ UNCHANGED <<task, prod, tries>>
    BY <1>5, <1>s, PopIs
  <2>2. hand[t].batch \in Seq(Writes) /\ hand[t].left \subseteq 1 .. Len(hand[t].batch)
        /\ n \in Nat
    <3>1. hand[t] \in HandRec
      BY <1>s DEF Types
    <3>2. hand[t].batch \in Seq(Writes)
      BY <3>1 DEF HandRec
    <3>3. hand[t].left \subseteq 1 .. Len(hand[t].batch)
      BY <1>s DEF HandsSound, HandSound
    <3> QED
      BY <3>2, <3>3
  <2>3. hand'[t].batch[n] = w /\ \A i \in hand[t].left : hand'[t].batch[i] = hand[t].batch[i]
    BY <2>1, <2>2
  <2> HIDE DEF n
  <2>4. Open(t)' \subseteq Open(t) \cup {n} /\ Open(t) \subseteq hand[t].left
    BY <2>1 DEF Open
  <2>5. \A s \in Threads : s # t => Open(s)' = Open(s) /\ hand'[s].batch = hand[s].batch
    BY <1>s, <1>z, <2>1, OpenSame DEF Elsewhere, HandsSound
  <2>6. \A v : ToRun(v)' \subseteq ToRun(v) \cup {<<t, n>>}
    BY <2>3, <2>4, <2>5 DEF ToRun
  <2>7. \A v : v # w => <<t, n>> \notin ToRun(v)'
    BY <2>3 DEF ToRun
  <2>8. Tasks' = Tasks /\ \A v \in Tasks : Entered(v)' = Entered(v) /\ Entered(v) \in Nat
    BY <2>1, UnchangedStay DEF Entered
  <2>9. ASSUME NEW v \in Tasks, v # w PROVE InBounds(v)'
    <3>1. tries'[v] + queue'[v] + Entered(v)' <= tries[v] + queue[v] + Entered(v)
      BY <1>b, <1>t, <2>1, <2>8, <2>9
    <3>2. ToRun(v)' \subseteq ToRun(v)
      BY <2>6, <2>7, <2>9
    <3> QED
      BY <1>b, <1>r, <1>s, <2>1, <3>1, <3>2, BoundsKept
  <2>10. ASSUME w \in Tasks PROVE InBounds(w)'
    <3>1. /\ IsFiniteSet(ToRun(w)) /\ Cardinality(ToRun(w)) \in Nat
          /\ tries[w] + queue[w] + Cardinality(ToRun(w)) + Entered(w) <= Allowed(w)
      BY <1>b, <2>10, FS_CardinalityType DEF InBounds
    <3>2. /\ IsFiniteSet(ToRun(w) \cup {<<t, n>>})
          /\ Cardinality(ToRun(w) \cup {<<t, n>>}) <= Cardinality(ToRun(w)) + 1
          /\ Cardinality(ToRun(w) \cup {<<t, n>>}) \in Nat
      <4>1. /\ IsFiniteSet(ToRun(w) \cup {<<t, n>>})
            /\ Cardinality(ToRun(w) \cup {<<t, n>>}) =
                 IF <<t, n>> \in ToRun(w) THEN Cardinality(ToRun(w)) ELSE Cardinality(ToRun(w)) + 1
        BY <3>1, FS_AddElement
      <4> QED
        BY <3>1, <4>1
    <3>3. /\ IsFiniteSet(ToRun(w)') /\ Cardinality(ToRun(w)') \in Nat
          /\ Cardinality(ToRun(w)') <= Cardinality(ToRun(w) \cup {<<t, n>>})
      BY <2>6, <3>2, FS_Subset, FS_CardinalityType
    <3>4. /\ queue'[w] = queue[w] - 1 /\ tries'[w] = tries[w]
          /\ queue[w] \in Nat /\ tries[w] \in Nat
      BY <1>t, <2>1
    <3>5. Allowed(w)' = Allowed(w) /\ Allowed(w) \in Nat
      BY <1>r, <2>1, <2>10 DEF Allowed
    <3>6. Entered(w)' = Entered(w) /\ Entered(w) \in Nat
      BY <2>8, <2>10
    <3> QED
      BY <3>1, <3>2, <3>3, <3>4, <3>5, <3>6 DEF InBounds
  <2> QED
    BY <1>g, <2>8, <2>9, <2>10
<1>6. ASSUME NEW t \in Threads, Wait(t) PROVE TriesCounted'
  <2>1. UNCHANGED <<task, queue, prod, tries, hand>>
    BY <1>6 DEF Wait, lists, history
  <2> QED
    BY <1>q, <1>s, <1>z, <2>1, NoMoreSame
<1>7. ASSUME NEW t \in Threads, Take(t) PROVE TriesCounted'
  <2>1. /\ hand[t].pc = "get" /\ Elsewhere(t)
        /\ hand'[t].pc = "exec" /\ hand'[t].batch = hand[t].batch
        /\ hand'[t].left = hand[t].left /\ hand'[t].seen = hand[t].seen
        /\ UNCHANGED <<task, queue, prod, tries>>
    BY <1>7, <1>s, TakeIs
  <2>2. Open(t)' \subseteq Open(t)
    BY <2>1 DEF Open
  <2> QED
    BY <1>q, <1>s, <1>z, <2>1, <2>2, NoMoreElsewhere
<1>8. ASSUME NEW t \in Threads, Leave(t) PROVE TriesCounted'
  <2>1. Elsewhere(t) /\ hand'[t] = Off /\ UNCHANGED <<task, queue, prod, tries>>
    BY <1>8, <1>s, LeaveIs
  <2>2. Open(t)' = {}
    BY <2>1 DEF Open, Off
  <2> QED
    BY <1>q, <1>s, <1>z, <2>1, <2>2, NoMoreElsewhere
<1>9. ASSUME NEW t \in Threads, NEW i \in Coming(t), At(t, i), NEW w, w = hand[t].batch[i]
      PROVE  TriesCounted'
  <2>1. /\ hand[t].pc = "exec" /\ Elsewhere(t)
        /\ hand'[t].pc = "exec" /\ hand'[t].batch = hand[t].batch
        /\ hand'[t].left = hand[t].left /\ hand'[t].seen = hand[t].seen \cup {i}
        /\ SameButOf(w) /\ tries' = [tries EXCEPT ![w] = @ + 1]
        /\ UNCHANGED prod
    BY <1>9, <1>s, AtOneTask
  <2>2. i \in hand[t].left \ hand[t].seen /\ i \in 1 .. BatchSize
        /\ w \in Writes /\ w \in Tasks
    BY <1>9, <1>s, GroupInHand, InBatch DEF Coming
  <2>3. Open(t)' = Open(t) \ {i} /\ i \in Open(t)
    BY <2>1, <2>2 DEF Open
  <2>4. NoMore
    BY <1>s, <1>z, <2>1, <2>3, NoMoreElsewhere
  <2>5. <<t, i>> \in ToRun(w) /\ <<t, i>> \notin ToRun(w)'
    BY <1>9, <2>2, <2>3 DEF ToRun
  <2>6. Tasks' = Tasks /\ \A v \in Tasks : Entered(v)' = Entered(v) /\ Entered(v) \in Nat
    BY <2>1, SameStay DEF Entered
  <2>7. ASSUME NEW v \in Tasks, v # w PROVE InBounds(v)'
    <3>1. queue'[v] = queue[v] /\ tries'[v] = tries[v] /\ task'[v] = task[v]
      <4>1. queue' = queue \/ queue' = [queue EXCEPT ![w] = @ + 1]
        BY <1>9, <1>s, AtOneTask
      <4> QED
        BY <1>b, <1>t, <2>1, <2>2, <2>7, <4>1 DEF SameButOf
    <3>2. tries'[v] + queue'[v] + Entered(v)' <= tries[v] + queue[v] + Entered(v)
      BY <1>b, <1>t, <2>6, <3>1
    <3> QED
      BY <1>b, <1>r, <1>s, <2>4, <3>1, <3>2, BoundsKept, NoMoreRuns
  <2>8. InBounds(w)'
    <3>1. /\ IsFiniteSet(ToRun(w)) /\ Cardinality(ToRun(w)) \in Nat
          /\ tries[w] + queue[w] + Cardinality(ToRun(w)) + Entered(w) <= Allowed(w)
      BY <1>b, <2>2, FS_CardinalityType DEF InBounds
    <3>2. /\ IsFiniteSet(ToRun(w) \ {<<t, i>>})
          /\ Cardinality(ToRun(w) \ {<<t, i>>}) = Cardinality(ToRun(w)) - 1
          /\ Cardinality(ToRun(w) \ {<<t, i>>}) \in Nat
      BY <2>5, <3>1, FS_RemoveElement, FS_CardinalityType
    <3>3. ToRun(w)' \subseteq ToRun(w) \ {<<t, i>>}
      BY <2>4, <2>5, NoMoreRuns
    <3>4. /\ IsFiniteSet(ToRun(w)') /\ Cardinality(ToRun(w)') \in Nat
          /\ Cardinality(ToRun(w)') <= Cardinality(ToRun(w) \ {<<t, i>>})
      BY <3>2, <3>3, FS_Subset, FS_CardinalityType
    <3>5. /\ tries'[w] = tries[w] + 1 /\ queue[w] \in Nat /\ tries[w] \in Nat
          /\ queue'[w] \in Nat
      BY <1>t, <2>1, <2>2
    <3>6. Entered(w)' = Entered(w) /\ Entered(w) \in Nat
      BY <2>2, <2>6
    <3>7. task[w].retry \in Nat /\ Allowed(w) \in Nat
      BY <1>r, <2>2 DEF Allowed
    <3>8. \/ task'[w].retry = task[w].retry /\ queue'[w] = queue[w]
          \/ task'[w].retry = task[w].retry + 1 /\ queue'[w] = queue[w]
          \/ task'[w].retry = task[w].retry + 1 /\ task[w].retry + 1 < MaxRetries
             /\ queue'[w] = queue[w] + 1
      BY <1>9, <1>s, <1>t, <2>2, AtOneTask
    <3>9. queue'[w] + Allowed(w) <= queue[w] + Allowed(w)' /\ Allowed(w)' \in Nat
      BY <3>5, <3>7, <3>8 DEF Allowed
    <3> QED
      BY <3>1, <3>2, <3>4, <3>5, <3>6, <3>7, <3>9 DEF InBounds
  <2> QED
    BY <1>g, <2>6, <2>7, <2>8
<1>10. ASSUME NEW t \in Threads, NEW i \in Coming(t), RetryGroup(t, i),
              NEW w, w = hand[t].batch[i]
       PROVE  TriesCounted'
  <2>1. /\ hand[t].pc = "retry" /\ SameButOf(w) /\ UNCHANGED <<prod, tries>>
    BY <1>10, <1>s, RetryOneTask
  <2>2. w \in Writes /\ w \in Tasks
    BY <1>10, <1>s, GroupInHand, InBatch
  <2>4. NoMore
    <3>1. CASE NextGroup(t)
      BY <1>s, <1>z, <3>1, NoMoreNext
    <3>2. CASE ~NextGroup(t)
      <4>1. /\ Elsewhere(t) /\ hand'[t].pc = "retry" /\ hand'[t].batch = hand[t].batch
            /\ hand'[t].left = hand[t].left
        BY <1>10, <1>s, <3>2, RetryOneTask
      <4>2. Group(t)' = Group(t)
        BY <1>s, <1>z, <4>1, GroupKept DEF HandsSound
      <4>3. Open(t)' = Open(t)
        BY <2>1, <4>1, <4>2 DEF Open
      <4> QED
        BY <1>s, <1>z, <4>1, <4>3, NoMoreElsewhere
    <3> QED
      BY <3>1, <3>2
  <2>6. Tasks' = Tasks /\ \A v \in Tasks : Entered(v)' = Entered(v) /\ Entered(v) \in Nat
    BY <2>1, SameStay DEF Entered
  <2>7. ASSUME NEW v \in Tasks, v # w PROVE InBounds(v)'
    <3>1. queue'[v] = queue[v] /\ tries'[v] = tries[v] /\ task'[v] = task[v]
      <4>1. queue' = queue \/ queue' = [queue EXCEPT ![w] = @ + 1]
        BY <1>10, <1>s, RetryOneTask
      <4> QED
        BY <1>b, <1>t, <2>1, <2>2, <2>7, <4>1 DEF SameButOf
    <3>2. tries'[v] + queue'[v] + Entered(v)' <= tries[v] + queue[v] + Entered(v)
      BY <1>b, <1>t, <2>6, <3>1
    <3> QED
      BY <1>b, <1>r, <1>s, <2>4, <3>1, <3>2, BoundsKept, NoMoreRuns
  <2>8. InBounds(w)'
    <3>1. /\ IsFiniteSet(ToRun(w)) /\ Cardinality(ToRun(w)) \in Nat
          /\ tries[w] + queue[w] + Cardinality(ToRun(w)) + Entered(w) <= Allowed(w)
      BY <1>b, <2>2, FS_CardinalityType DEF InBounds
    <3>3. ToRun(w)' \subseteq ToRun(w)
      BY <2>4, NoMoreRuns
    <3>4. /\ IsFiniteSet(ToRun(w)') /\ Cardinality(ToRun(w)') \in Nat
          /\ Cardinality(ToRun(w)') <= Cardinality(ToRun(w))
      BY <3>1, <3>3, FS_Subset, FS_CardinalityType
    <3>5. /\ tries'[w] = tries[w] /\ queue[w] \in Nat /\ tries[w] \in Nat
          /\ queue'[w] \in Nat
      BY <1>t, <2>1, <2>2
    <3>6. Entered(w)' = Entered(w) /\ Entered(w) \in Nat
      BY <2>2, <2>6
    <3>7. task[w].retry \in Nat /\ Allowed(w) \in Nat
      BY <1>r, <2>2 DEF Allowed
    <3>8. \/ task'[w].retry = task[w].retry + 1 /\ queue'[w] = queue[w]
          \/ task'[w].retry = task[w].retry + 1 /\ task[w].retry + 1 < MaxRetries
             /\ queue'[w] = queue[w] + 1
      BY <1>10, <1>s, <1>t, <2>2, RetryOneTask
    <3>9. queue'[w] + Allowed(w) <= queue[w] + Allowed(w)' /\ Allowed(w)' \in Nat
      BY <3>5, <3>7, <3>8 DEF Allowed
    <3> QED
      BY <3>1, <3>4, <3>5, <3>6, <3>7, <3>9 DEF InBounds
  <2> QED
    BY <1>g, <2>6, <2>7, <2>8
<1>11. ASSUME NEW t \in Threads, Commit(t) \/ RejectGroup(t) PROVE TriesCounted'
  <2>1. NextGroup(t) /\ UNCHANGED <<task, queue, prod, tries>>
    BY <1>11 DEF Commit, RejectGroup, lists
  <2> QED
    BY <1>q, <1>s, <1>z, <2>1, NoMoreNext
<1>12. ASSUME NEW t \in Threads, CommitFails(t) PROVE TriesCounted'
  <2>1. /\ hand[t].pc = "exec" /\ Elsewhere(t)
        /\ hand'[t].pc = "retry" /\ hand'[t].batch = hand[t].batch
        /\ hand'[t].left = hand[t].left
        /\ UNCHANGED <<task, queue, prod, tries>>
    BY <1>12, <1>s, CommitFailsIs
  <2>2. Group(t)' = Group(t) /\ hand[t].seen \subseteq Group(t)
    BY <1>s, <1>z, <2>1, GroupKept DEF HandsSound, HandSound
  <2>3. Open(t)' \subseteq Open(t)
    BY <2>1, <2>2 DEF Open
  <2> QED
    BY <1>q, <1>s, <1>z, <2>1, <2>3, NoMoreElsewhere
<1>13. CASE Start
  <2>1. UNCHANGED <<task, queue, prod, tries>>
    BY <1>13, <1>s, StartIs
  <2>2. NoMore
    <3>1. ASSUME NEW t \in Threads
          PROVE  /\ Open(t)' \subseteq Open(t)
                 /\ Open(t)' = {} \/ hand'[t].batch = hand[t].batch
      <4>1. CASE hand'[t] = hand[t]
        BY <1>s, <1>z, <4>1, OpenSame DEF HandsSound
      <4>2. CASE hand'[t] = Ready
        <5>1. Open(t)' = {}
          BY <4>2 DEF Open, Ready, Off
        <5> QED
          BY <5>1
      <4> QED
        BY <1>13, <1>s, <4>1, <4>2, StartIs
    <3> QED
      BY <3>1 DEF NoMore
  <2> QED
    BY <1>q, <2>1, <2>2
<1>14. CASE Stop \/ Stopped
  <2>1. UNCHANGED <<task, queue, prod, tries, hand>>
    BY <1>14 DEF Stop, Stopped, lists, history
  <2> QED
    BY <1>q, <1>s, <1>z, <2>1, NoMoreSame
<1>15. CASE Clear
  <2>1. /\ UNCHANGED <<task, tries, hand>> /\ queue' = [w \in Writes |-> 0]
        /\ \A p \in Producers : prod'[p].pc # "idle" => prod'[p] = prod[p]
    BY <1>15, <1>a, <1>t DEF Clear
  <2>2. \A v \in Tasks : tries'[v] + queue'[v] + Entered(v)' <= tries[v] + queue[v] + Entered(v)
    BY <1>b, <1>t, <2>1, EnteredKept
  <2>3. NoMore /\ Tasks' = Tasks
    BY <1>s, <1>z, <2>1, NoMoreSame, UnchangedStay
  <2> QED
    BY <1>k, <2>1, <2>2, <2>3
<1> QED
  BY <1>1, <1>2, <1>3, <1>4, <1>5, <1>6, <1>7, <1>8, <1>9, <1>10, <1>11, <1>12, <1>13,
     <1>14, <1>15
     DEF Next, ProducerStep, WorkerStep, At

(* Counted holds at first, ...                                              *)
LEMMA InitCounted ==
    ASSUME Init
    PROVE  Counted
<1> USE DEF Init
<1>1. Types
  <2>1. <<>> \in Seq(Writes) /\ <<>> \in Seq(Effect) /\ <<>> \in Seq(TaskRec)
    OBVIOUS
  <2>2. AtRest \in ProdRec /\ Off \in HandRec
    BY <2>1 DEF AtRest, ProdRec, Off, HandRec
  <2>3. /\ queue \in [Writes -> Nat] /\ tries \in [Writes -> Nat]
        /\ told \in [Writes -> SUBSET {"ok", "failed", "cleared"}]
        /\ cache \in [Keys -> Writes \cup {NoWrite}]
    OBVIOUS
  <2>4. task \in Seq(TaskRec) /\ Len(task) <= MaxWrites /\ applied \in Seq(Effect)
    BY <2>1
  <2>5. prod \in [Producers -> ProdRec] /\ hand \in [Threads -> HandRec]
    BY <2>2
  <2> QED
    BY <2>3, <2>4, <2>5 DEF Types
<1>2. \A p \in Producers : prod[p].pc = "idle"
  BY DEF AtRest
<1>3. \A t \in Threads : /\ hand[t].left = {} /\ hand[t].seen = {} /\ hand[t].staged = <<>>
                         /\ hand[t].batch = <<>> /\ hand[t].pc = "off"
  BY DEF Off
<1>4. Tasks = {}
  BY DEF Tasks
<1>5. TasksKnown
  BY <1>2 DEF TasksKnown, Queued
<1>6. HandsSound
  BY <1>3 DEF HandsSound, HandSound
<1>7. SubmitsApart
  BY <1>2 DEF SubmitsApart
<1>8. TriesCounted
  BY <1>4 DEF TriesCounted
<1> QED
  BY <1>1, <1>5, <1>6, <1>7, <1>8 DEF Counted, Sound

(* ... is kept by every step ...                                            *)
LEMMA SoundStays ==
    ASSUME Sound, UNCHANGED vars
    PROVE  Sound'
<1> USE DEF vars, Sound
<1>1. Types' /\ TasksKnown'
  BY DEF Types, TasksKnown, Tasks, Queued
<1>2. \A t \in Threads : Group(t)' = Group(t)
  BY DEF Group, Model
<1>3. HandsSound'
  BY <1>2 DEF HandsSound, HandSound, Tasks
<1>4. \A v : Untouched(v)' <=> Untouched(v)
  BY DEF Untouched
<1>5. SubmitsApart'
  BY <1>4 DEF SubmitsApart, OnItsOwn, Queued
<1> QED
  BY <1>1, <1>3, <1>5

LEMMA CountedStep ==
    ASSUME Counted, [Next]_vars
    PROVE  Counted'
<1>1. CASE Next
  <2>1. Sound
    BY DEF Counted
  <2>2. Types'
    BY <1>1, <2>1, TypesOfProducers, TypesOfWorkers, TypesOfOwner DEF Next, Owner, Sound
  <2>3. TasksKnown' /\ HandsSound' /\ SubmitsApart'
    BY <1>1, <2>1, TasksStep, HandsStep, ApartStep
  <2>4. TriesCounted'
    BY <1>1, <2>2, <2>3, CountStep
  <2> QED
    BY <2>2, <2>3, <2>4 DEF Counted, Sound
<1>2. CASE UNCHANGED vars
  <2>1. Sound'
    BY <1>2, SoundStays DEF Counted
  <2>2. \A w : ToRun(w)' = ToRun(w) /\ Entered(w)' = Entered(w) /\ Allowed(w)' = Allowed(w)
    BY <1>2 DEF vars, Group, Model, ToRun, Open, Entered, Allowed
  <2>3. TriesCounted'
    BY <1>2, <2>2 DEF vars, TriesCounted, Tasks, Counted
  <2> QED
    BY <2>1, <2>3 DEF Counted
<1> QED
  BY <1>1, <1>2

(* ... and bounds the executions.                                           *)
LEMMA CountedTries ==
    ASSUME Counted
    PROVE  TypeOK
<1>1. ASSUME NEW w \in Writes PROVE tries[w] <= MaxRetries
  <2>1. queue[w] \in Nat /\ tries[w] \in Nat
    BY DEF Counted, Sound, Types
  <2>2. CASE w \in Tasks
    <3>1. /\ Cardinality(ToRun(w)) \in Nat
          /\ tries[w] + queue[w] + Cardinality(ToRun(w)) + Entered(w) <= Allowed(w)
      BY <2>2, FS_CardinalityType DEF Counted, TriesCounted
    <3>2. task[w].retry \in Nat
      <4>1. task \in Seq(TaskRec)
        BY DEF Counted, Sound, Types
      <4>2. task[w] \in TaskRec
        BY <2>2, <4>1 DEF Tasks
      <4> QED
        BY <4>2 DEF TaskRec
    <3>3. Allowed(w) \in Nat /\ Allowed(w) <= MaxRetries /\ Entered(w) \in Nat
      BY <3>2 DEF Allowed, Entered
    <3> QED
      BY <2>1, <3>1, <3>3
  <2>3. CASE w \notin Tasks
    BY <2>1, <2>3 DEF Counted, Sound, TasksKnown
  <2> QED
    BY <2>2, <2>3
<1> QED
  BY <1>1 DEF TypeOK, Counted, Sound

(* TypeOK: the types, and no task is executed more often than max_retries   *)
(* allows, whatever raises, fails to commit, is merged, stopped or cleared  *)
(* (db_write_queue.py:405, 443).  The invariant is Counted: executions,     *)
(* places in the queue and in hands, and a submit under way together stay   *)
(* within the retries counted so far.                                       *)
THEOREM TriesBounded == Spec => []TypeOK
<1>1. Init => Counted
  BY InitCounted
<1>2. Counted /\ [Next]_vars => Counted'
  BY CountedStep
<1>3. Counted => TypeOK
  BY CountedTries
<1> QED
  BY <1>1, <1>2, <1>3, PTL DEF Spec

-----------------------------------------------------------------------------
(* Acknowledged writes. *)
PlainOps == Ops \subseteq {"insert", "delete"}

(* Every task has one of the operations in use.                             *)
LEMMA TaskOp ==
    ASSUME Types, NEW v \in Tasks
    PROVE  task[v] \in TaskRec /\ task[v].op \in Ops
<1>1. task \in Seq(TaskRec)
  BY DEF Types
<1>2. task[v] \in TaskRec
  BY <1>1 DEF Tasks
<1> QED
  BY <1>2 DEF TaskRec

(* An insert or a delete is staged, or it raises and is retried or reported. *)
LEMMA AtPlain ==
    ASSUME Sound, PlainOps, NEW t \in Threads, NEW i \in Coming(t), At(t, i),
           NEW w, w = hand[t].batch[i], task[w].named
    PROVE  /\ task'[w].named
           /\ \A v \in Writes : told[v] \subseteq told'[v]
           /\ \/ hand'[t].staged = Append(hand[t].staged, Staged(t, w))
              \/ hand'[t].staged = hand[t].staged /\ Kept(w)'
<1>s. Types /\ TasksKnown /\ HandsSound
  BY DEF Sound
<1>1. i \in hand[t].left /\ w \in Writes /\ w \in Tasks
  BY <1>s, GroupInHand, InBatch
<1>2. task[w] \in TaskRec /\ task[w].op \notin {"update", "upsert"}
  BY <1>1, <1>s, TaskOp DEF PlainOps
<1>3. ~FallsBack(t, i)
  BY <1>2 DEF FallsBack
<1>t. /\ hand \in [Threads -> HandRec] /\ hand[t] \in HandRec
      /\ queue \in [Writes -> Nat]
      /\ told \in [Writes -> SUBSET {"ok", "failed", "cleared"}]
      /\ hand[t].seen \cup {i} \in SUBSET Nat
  <2>1. hand[t] \in HandRec /\ hand[t].left \in SUBSET Nat /\ hand[t].seen \in SUBSET Nat
    BY <1>s DEF Types, HandRec
  <2> QED
    BY <1>1, <1>s, <2>1 DEF Types
<1>4. \A v \in Writes : told[v] \subseteq told'[v]
  <2>1. CASE Succeeds(t, i)
    BY <1>t, <2>1 DEF Succeeds
  <2>2. CASE Raises(t, i)
    <3>1. told' = told \/ told' = [told EXCEPT ![w] = @ \cup {"failed"}]
      BY <2>2 DEF Raises, Retry
    <3> QED
      BY <1>t, <3>1
  <2> QED
    BY <1>3, <2>1, <2>2 DEF At
<1>5. CASE Succeeds(t, i)
  <2>1. (IF task[w].named THEN Append(hand[t].staged, Staged(t, w)) ELSE hand[t].staged)
          = Append(hand[t].staged, Staged(t, w))
    OBVIOUS
  <2>2. hand' = [hand EXCEPT ![t].seen = hand[t].seen \cup {i},
                     ![t].staged = Append(hand[t].staged, Staged(t, w))]
    BY <1>5, <1>t, <2>1 DEF Succeeds
  <2>3. hand'[t].staged = Append(hand[t].staged, Staged(t, w))
    BY <1>t, <2>2 DEF HandRec
  <2> DEFINE b == task[w].named /\ task[w].op # "update"
             q == [task[w] EXCEPT !.named = b]
  <2>4. task' = [task EXCEPT ![w] = q]
    BY <1>5 DEF Succeeds
  <2>5. b = TRUE
    BY <1>2
  <2> HIDE DEF b
  <2>6. task'[w].named
    <3>1. task \in Seq(TaskRec) /\ w \in 1 .. Len(task)
      BY <1>1, <1>s DEF Types, Tasks
    <3>2. q.named = TRUE
      BY <1>2, <2>5 DEF TaskRec
    <3> HIDE DEF q
    <3>3. task'[w] = q
      BY <2>4, <3>1
    <3> QED
      BY <3>2, <3>3
  <2> QED
    BY <1>4, <2>3, <2>6
<1>6. CASE Raises(t, i)
  <2> DEFINE b == task[w].op # "update"
             n == task[w].retry + 1
             was == [task[w] EXCEPT !.retry = n, !.named = b]
  <2>1. Retry(w, was)
    <3>1. Retry(hand[t].batch[i], [task[hand[t].batch[i]] EXCEPT !.retry = @ + 1,
                !.named = task[hand[t].batch[i]].op # "update"])
      BY <1>6 DEF Raises
    <3> QED
      BY <3>1
  <2>2. b = TRUE /\ n \in Nat
    BY <1>2 DEF TaskRec
  <2>3. was = [task[w] EXCEPT !.retry = n, !.named = b]
    OBVIOUS
  <2> HIDE DEF b, n, was
  <2>4. /\ was \in TaskRec /\ was.model = task[w].model
        /\ was.by = task[w].by /\ was.writes = task[w].writes
        /\ was.op = task[w].op /\ was.named = TRUE
    BY <1>2, <2>2, <2>3 DEF TaskRec
  <2>5. /\ task'[w].named = was.named
        /\ \/ told' = [told EXCEPT ![w] = @ \cup {"failed"}]
           \/ queue' = [queue EXCEPT ![w] = @ + 1]
    BY <1>1, <1>s, <2>1, <2>4, RetryIs
  <2>6. Kept(w)'
    BY <1>1, <1>t, <2>5 DEF Kept, GivenUp, Undone, Queued
  <2>7. PICK rolledback \in BOOLEAN :
           /\ rolledback => task[w].op = "upsert"
           /\ hand' = [hand EXCEPT ![t].seen = @ \cup {i},
                                   ![t].staged = IF rolledback THEN <<>> ELSE @]
    BY <1>6 DEF Raises
  <2>8. rolledback = FALSE
    BY <1>2, <2>7
  <2>9. hand' = [hand EXCEPT ![t].seen = hand[t].seen \cup {i}, ![t].staged = hand[t].staged]
    BY <1>t, <2>7, <2>8
  <2>10. hand'[t].staged = hand[t].staged
    BY <1>t, <2>9 DEF HandRec
  <2> QED
    BY <1>4, <2>4, <2>5, <2>6, <2>10
<1> QED
  BY <1>3, <1>5, <1>6 DEF At

(* Where no update is submitted, no task ever loses its id.                 *)
LEMMA NamedStep ==
    ASSUME Sound, PlainOps, Next, \A v \in Tasks : task[v].named /\ v \in task[v].writes
    PROVE  \A v \in Tasks' : task'[v].named /\ v \in task'[v].writes
<1>s. Types /\ TasksKnown /\ HandsSound
  BY DEF Sound
<1>n. \A v \in Tasks : task[v].named
  OBVIOUS
<1>w. \A v \in Tasks : v \in task'[v].writes
  BY StepsStay DEF TasksStay
<1>u. ASSUME task' = task PROVE \A v \in Tasks' : task'[v].named /\ v \in task'[v].writes
  BY <1>u, UnchangedStay
<1>k. ASSUME NEW w, Tasks' = Tasks, Others(w), task'[w].named
      PROVE  \A v \in Tasks' : task'[v].named /\ v \in task'[v].writes
  <2>1. \A v \in Tasks : task'[v].named
    BY <1>k, <1>n DEF Others
  <2> QED
    BY <1>k, <1>w, <2>1
<1>1. ASSUME NEW p \in Producers, Submit(p), NEW w, w = Len(task) + 1
      PROVE  \A v \in Tasks' : task'[v].named /\ v \in task'[v].writes
  <2>1. Tasks' = Tasks \cup {w} /\ task'[w].named = TRUE /\ task'[w].writes = {w}
    BY <1>1, <1>s, SubmitIs
  <2>2. \A v \in Tasks : task'[v] = task[v]
    BY <1>1, <1>s, SubmitIs
  <2>3. \A v \in Tasks : task'[v].named
    BY <1>n, <2>2
  <2> QED
    BY <1>w, <2>1, <2>3
<1>2. ASSUME NEW p \in Producers, Merge(p), NEW old, old = cache[prod[p].key]
      PROVE  \A v \in Tasks' : task'[v].named /\ v \in task'[v].writes
  <2>1. Tasks' = Tasks /\ Others(old) /\ task'[old].named = TRUE
    BY ZenonT(60), <1>2, MergeIs
  <2> QED
    BY <1>k, <2>1
<1>3. ASSUME NEW t \in Threads, NEW i \in Coming(t), At(t, i), NEW w, w = hand[t].batch[i]
      PROVE  \A v \in Tasks' : task'[v].named /\ v \in task'[v].writes
  <2>1. w \in Tasks
    BY <1>3, <1>s, GroupInHand, InBatch
  <2>2. task'[w].named
    BY <1>3, <1>n, <2>1, AtPlain
  <2>3. SameButOf(w)
    BY <1>3, <1>s, AtOneTask
  <2>4. Tasks' = Tasks /\ Others(w)
    BY <2>3, SameStay DEF SameButOf, Others
  <2> QED
    BY <1>k, <2>2, <2>4
<1>4. ASSUME NEW t \in Threads, NEW i \in Coming(t), RetryGroup(t, i),
             NEW w, w = hand[t].batch[i]
      PROVE  \A v \in Tasks' : task'[v].named /\ v \in task'[v].writes
  <2>1. w \in Tasks
    BY <1>4, <1>s, GroupInHand, InBatch
  <2>2. SameButOf(w) /\ task'[w].named = task[w].named
    BY <1>4, <1>s, RetryOneTask
  <2>3. Tasks' = Tasks /\ Others(w)
    BY <2>2, SameStay DEF SameButOf, Others
  <2> QED
    BY <1>k, <1>n, <2>1, <2>2, <2>3
<1>5. ASSUME NEW p \in Producers, Remember(p) \/ Push(p) PROVE task' = task
  BY <1>5 DEF Remember, Push
<1>6. ASSUME NEW t \in Threads,
             \/ Pop(t) \/ Wait(t) \/ Take(t) \/ Leave(t)
             \/ Commit(t) \/ CommitFails(t) \/ RejectGroup(t)
      PROVE  task' = task
  BY <1>6 DEF Pop, Wait, Take, Leave, Commit, CommitFails, RejectGroup
<1>7. ASSUME Start \/ Stop \/ Stopped \/ Clear PROVE task' = task
  BY <1>7 DEF Start, Stop, Stopped, Clear
<1> QED
  BY <1>u, <1>1, <1>2, <1>3, <1>4, <1>5, <1>6, <1>7 DEF Next, ProducerStep, WorkerStep, At

(* A task that the merge cache knows is waiting, or about to be queued. *)
WaitsOrPushed(v) ==
    \/ Queued(v)
    \/ \E p \in Producers : prod[p].pc = "push" /\ prod[p].w = v

LEMMA WaitsStays ==
    ASSUME NEW v, WaitsOrPushed(v), queue'[v] >= queue[v], queue[v] \in Nat, queue'[v] \in Nat,
           \A p \in Producers : prod[p].pc = "push" => prod'[p] = prod[p]
    PROVE  WaitsOrPushed(v)'
  BY DEF WaitsOrPushed, Queued

(* CachedWaits is kept, where the queue has room.                           *)
LEMMA WaitsStep ==
    ASSUME Sound, Next, Roomy, CachedWaits, Types'
    PROVE  CachedWaits'
<1>s. Types /\ TasksKnown /\ HandsSound /\ SubmitsApart
  BY DEF Sound
<1>t. /\ queue \in [Writes -> Nat] /\ prod \in [Producers -> ProdRec]
      /\ cache \in [Keys -> Writes \cup {NoWrite}] /\ queue' \in [Writes -> Nat]
  BY <1>s DEF Types
<1>c. ASSUME NEW k \in Keys, cache[k] # NoWrite
      PROVE  WaitsOrPushed(cache[k]) /\ cache[k] \in Writes
  BY <1>c, <1>s, CachedTask DEF CachedWaits, WaitsOrPushed
<1>g. ASSUME \A k \in Keys : cache'[k] # NoWrite => WaitsOrPushed(cache[k])'
      PROVE  CachedWaits'
  BY <1>g DEF CachedWaits, WaitsOrPushed
<1>k. ASSUME \A w \in Writes : queue'[w] >= queue[w], cache' = cache,
             \A p \in Producers : prod[p].pc = "push" => prod'[p] = prod[p]
      PROVE  CachedWaits'
  <2>1. ASSUME NEW k \in Keys, cache[k] # NoWrite PROVE WaitsOrPushed(cache[k])'
    <3>1. PICK v : v = cache[k]
      OBVIOUS
    <3>2. v \in Writes /\ WaitsOrPushed(v)
      BY <1>c, <2>1, <3>1
    <3>3. WaitsOrPushed(v)'
      BY <1>k, <1>t, <3>2, WaitsStays
    <3> QED
      BY <1>k, <3>1, <3>3
  <2> QED
    BY <1>g, <1>k, <2>1
<1>q. ASSUME UNCHANGED <<queue, cache, prod>> PROVE CachedWaits'
  BY <1>q DEF CachedWaits, Queued
<1>1. ASSUME NEW p \in Producers, Submit(p) PROVE CachedWaits'
  <2>1. prod[p].pc = "idle" /\ UNCHANGED <<queue, cache>>
    BY <1>1 DEF Submit, lists
  <2>2. PICK w : Enters(p, w)
    BY <1>1, <1>s, SubmitIs
  <2>3. \A q \in Producers : q # p => prod'[q] = prod[q]
    BY <1>t, <2>2 DEF Enters
  <2> QED
    BY <1>k, <1>t, <2>1, <2>3
<1>2. ASSUME NEW p \in Producers, Merge(p) PROVE CachedWaits'
  BY <1>2, <1>k, <1>t DEF Merge, lists
<1>3. ASSUME NEW p \in Producers, Remember(p) PROVE CachedWaits'
  <2>1. prod[p].pc = "merge" /\ queue' = queue
    BY <1>3 DEF Remember
  <2>2. /\ \A q \in Producers : q # p => prod'[q] = prod[q]
        /\ prod'[p].pc = "push" /\ prod'[p].w = prod[p].w
    BY <1>3, <1>t DEF Remember, ProdRec
  <2>3. \A k \in Keys : cache'[k] = cache[k] \/ cache'[k] = prod[p].w
    BY <1>3, <1>t DEF Remember
  <2>4. ASSUME NEW k \in Keys, cache'[k] # NoWrite PROVE WaitsOrPushed(cache[k])'
    <3>1. CASE cache'[k] = prod[p].w
      BY <2>2, <3>1 DEF WaitsOrPushed
    <3>2. CASE cache'[k] = cache[k]
      <4>1. PICK v : v = cache[k]
        OBVIOUS
      <4>2. v \in Writes /\ WaitsOrPushed(v)
        BY <1>c, <2>4, <3>2, <4>1
      <4>3. WaitsOrPushed(v)'
        BY <1>t, <2>1, <2>2, <4>2, WaitsStays
      <4> QED
        BY <3>2, <4>1, <4>3
    <3> QED
      BY <2>3, <3>1, <3>2
  <2> QED
    BY <1>g, <2>4
<1>4. ASSUME NEW p \in Producers, Push(p) PROVE CachedWaits'
  <2>1. /\ prod[p].pc = "push" /\ prod' = [prod EXCEPT ![p] = AtRest] /\ cache' = cache
        /\ Full \/ queue' = [queue EXCEPT ![prod[p].w] = @ + 1]
        /\ Full => queue' = queue
    BY <1>4 DEF Push
  <2>2. prod[p].w \in Writes /\ OnItsOwn(p)
    BY <2>1, ActiveOwn
  <2>3. \A q \in Producers : q # p => prod'[q] = prod[q]
    BY <1>t, <2>1
  <2>4. \A w \in Writes : queue'[w] >= queue[w]
    BY <1>t, <2>1, <2>2
  <2>5. ASSUME NEW k \in Keys, cache[k] # NoWrite PROVE WaitsOrPushed(cache[k])'
    <3>1. PICK v : v = cache[k]
      OBVIOUS
    <3>2. v \in Writes /\ WaitsOrPushed(v)
      BY <1>c, <2>5, <3>1
    <3>3. CASE v = prod[p].w
      <4>1. prod[p].key # NoKey
        BY <2>2, <3>1, <3>3 DEF OnItsOwn
      <4>2. ~Full
        BY <2>1, <4>1 DEF Roomy
      <4>3. queue'[v] > 0
        BY <1>t, <2>1, <2>2, <3>3, <4>2
      <4> QED
        BY <2>1, <3>1, <4>3 DEF WaitsOrPushed, Queued
    <3>4. CASE v # prod[p].w
      <4>1. queue'[v] >= queue[v] /\ queue[v] \in Nat /\ queue'[v] \in Nat
        BY <1>t, <2>4, <3>2
      <4>2. WaitsOrPushed(v)'
        BY <2>1, <2>3, <3>2, <3>4, <4>1 DEF WaitsOrPushed, Queued
      <4> QED
        BY <2>1, <3>1, <4>2
    <3> QED
      BY <3>3, <3>4
  <2> QED
    BY <1>g, <2>1, <2>5
<1>5. ASSUME NEW t \in Threads, Pop(t) PROVE CachedWaits'
  <2>1. PICK w \in Writes :
             /\ queue' = [queue EXCEPT ![w] = @ - 1]
             /\ cache' = Forgotten(w) /\ prod' = prod
    BY <1>5, <1>s, PopIs
  <2>2. ASSUME NEW k \in Keys, cache'[k] # NoWrite PROVE WaitsOrPushed(cache[k])'
    <3>1. PICK v : v = cache[k]
      OBVIOUS
    <3>2. v # w /\ cache'[k] = v
      BY <2>1, <2>2, <3>1 DEF Forgotten
    <3>3. v \in Writes /\ WaitsOrPushed(v)
      BY <1>c, <2>2, <3>1, <3>2
    <3>4. queue'[v] = queue[v] /\ queue[v] \in Nat
      BY <1>t, <2>1, <3>2, <3>3
    <3>5. WaitsOrPushed(v)'
      BY <2>1, <3>3, <3>4 DEF WaitsOrPushed, Queued
    <3> QED
      BY <3>2, <3>5
  <2> QED
    BY <1>g, <2>2
<1>6. ASSUME NEW t \in Threads, NEW i \in Coming(t), At(t, i) PROVE CachedWaits'
  <2>1. UNCHANGED <<cache, prod>>
    BY <1>6, <1>s, AtOneTask
  <2>2. queue' = queue \/ queue' = [queue EXCEPT ![hand[t].batch[i]] = @ + 1]
    BY <1>6, <1>s, AtOneTask
  <2> QED
    BY <1>k, <1>t, <2>1, <2>2
<1>7. ASSUME NEW t \in Threads, NEW i \in Coming(t), RetryGroup(t, i) PROVE CachedWaits'
  <2>1. UNCHANGED <<cache, prod>>
    BY <1>7, <1>s, RetryOneTask
  <2>2. queue' = queue \/ queue' = [queue EXCEPT ![hand[t].batch[i]] = @ + 1]
    BY <1>7, <1>s, RetryOneTask
  <2> QED
    BY <1>k, <1>t, <2>1, <2>2
<1>8. ASSUME NEW t \in Threads,
             \/ Wait(t) \/ Take(t) \/ Leave(t)
             \/ Commit(t) \/ CommitFails(t) \/ RejectGroup(t)
      PROVE  CachedWaits'
  <2>1. UNCHANGED <<queue, cache, prod>>
    BY <1>8 DEF Wait, Take, Leave, Commit, CommitFails, RejectGroup, lists
  <2> QED
    BY <1>q, <2>1
<1>9. CASE Start \/ Stop \/ Stopped
  <2>1. UNCHANGED <<queue, cache, prod>>
    BY <1>9 DEF Start, Stop, Stopped, lists
  <2> QED
    BY <1>q, <2>1
<1>10. CASE Clear
  BY <1>10 DEF Clear, CachedWaits
<1> QED
  BY <1>1, <1>2, <1>3, <1>4, <1>5, <1>6, <1>7, <1>8, <1>9, <1>10
     DEF Next, ProducerStep, WorkerStep, At

(* What is in a session is of a task the worker has been at. *)
LEMMA StagedStays ==
    ASSUME TasksStay, Types, NEW t \in Threads, HandSound(t), StagedSeen(t),
           hand'[t].staged = hand[t].staged, hand'[t].batch = hand[t].batch,
           hand[t].seen \subseteq hand'[t].seen
    PROVE  StagedSeen(t)'
<1>1. ASSUME NEW n \in 1 .. Len(hand[t].staged), NEW e, e = hand[t].staged[n]
      PROVE  /\ e.writes \subseteq task'[e.task].writes
             /\ \E i \in hand'[t].seen : hand'[t].batch[i] = e.task
  <2>1. PICK i \in hand[t].seen : hand[t].batch[i] = e.task
    BY <1>1 DEF StagedSeen
  <2>2. i \in hand[t].left
    BY GroupInHand DEF HandSound
  <2>3. e.task \in Tasks
    BY <2>1, <2>2 DEF HandSound
  <2>4. e.writes \subseteq task[e.task].writes
    BY <1>1 DEF StagedSeen
  <2> QED
    BY <2>1, <2>3, <2>4 DEF TasksStay
<1> QED
  BY <1>1 DEF StagedSeen

LEMMA NothingStaged ==
    ASSUME NEW t \in Threads, hand'[t].staged = <<>>
    PROVE  StagedSeen(t)'
  BY DEF StagedSeen

(* StagedSeen is kept.                                                      *)
LEMMA StagedStep ==
    ASSUME Sound, PlainOps, Next, NEW t \in Threads, StagedSeen(t),
           \A v \in Tasks : task[v].named
    PROVE  StagedSeen(t)'
<1>s. Types /\ TasksKnown /\ HandsSound /\ HandSound(t)
  BY DEF Sound, HandsSound
<1>z. TasksStay
  BY StepsStay
<1>h. hand[t] \in HandRec /\ hand[t].staged \in Seq(Effect)
  BY <1>s DEF Types, HandRec
<1>u. ASSUME hand'[t] = hand[t] PROVE StagedSeen(t)'
  BY <1>s, <1>u, <1>z, StagedStays
<1>e. ASSUME NEW s \in Threads, Elsewhere(s), s = t => StagedSeen(t)'
      PROVE  StagedSeen(t)'
  BY <1>e, <1>u DEF Elsewhere
<1>1. ASSUME NEW p \in Producers, ProducerStep(p) PROVE StagedSeen(t)'
  BY <1>1, <1>u DEF ProducerStep, Submit, Merge, Remember, Push
<1>2. ASSUME NEW s \in Threads, Pop(s) PROVE StagedSeen(t)'
  <2>1. hand[s].pc = "get" /\ Elsewhere(s) /\ hand'[s].staged = hand[s].staged
    BY <1>2, <1>s, PopIs
  <2>2. s = t => hand'[t].staged = <<>>
    BY <1>s, <2>1 DEF HandSound
  <2> QED
    BY <1>e, <2>1, <2>2, NothingStaged
<1>3. ASSUME NEW s \in Threads, Wait(s) PROVE StagedSeen(t)'
  BY <1>3, <1>u DEF Wait
<1>4. ASSUME NEW s \in Threads, Take(s) PROVE StagedSeen(t)'
  <2>1. hand[s].pc = "get" /\ Elsewhere(s) /\ hand'[s].staged = hand[s].staged
    BY <1>4, <1>s, TakeIs
  <2>2. s = t => hand'[t].staged = <<>>
    BY <1>s, <2>1 DEF HandSound
  <2> QED
    BY <1>e, <2>1, <2>2, NothingStaged
<1>5. ASSUME NEW s \in Threads, Leave(s) PROVE StagedSeen(t)'
  <2>1. Elsewhere(s) /\ hand'[s].staged = <<>>
    BY <1>5, <1>s, LeaveIs DEF Off
  <2> QED
    BY <1>e, <2>1, NothingStaged
<1>6. ASSUME NEW s \in Threads, NEW i \in Coming(s), At(s, i), NEW w, w = hand[s].batch[i]
      PROVE  StagedSeen(t)'
  <2>1. /\ Elsewhere(s) /\ hand'[s].batch = hand[s].batch
        /\ hand'[s].seen = hand[s].seen \cup {i} /\ SameButOf(w)
    BY <1>6, <1>s, AtOneTask
  <2>2. w \in Tasks
    BY <1>6, <1>s, GroupInHand, InBatch
  <2>3. CASE hand'[s].staged = hand[s].staged
    BY <1>e, <1>s, <1>z, <2>1, <2>3, StagedStays
  <2>4. CASE hand'[s].staged = Append(hand[s].staged, Staged(s, w)) /\ s = t
    <3> DEFINE m == Len(hand[t].staged) + 1
    <3>1. /\ Len(hand'[t].staged) = m /\ hand'[t].staged[m] = Staged(t, w)
          /\ \A n \in 1 .. Len(hand[t].staged) : hand'[t].staged[n] = hand[t].staged[n]
          /\ 1 .. m = (1 .. Len(hand[t].staged)) \cup {m}
      BY <1>h, <2>4
    <3>2. /\ Staged(t, w).writes \subseteq task'[w].writes
          /\ Staged(t, w).task = w
      BY <2>1, <2>2 DEF Staged, SameButOf
    <3>3. i \in hand'[t].seen /\ hand'[t].batch[i] = w
      BY <1>6, <2>1, <2>4
    <3>4. ASSUME NEW n \in 1 .. Len(hand[t].staged), NEW e, e = hand[t].staged[n]
          PROVE  /\ e.writes \subseteq task'[e.task].writes
                 /\ \E j \in hand'[t].seen : hand'[t].batch[j] = e.task
      <4>1. PICK j \in hand[t].seen : hand[t].batch[j] = e.task
        BY <3>4 DEF StagedSeen
      <4>2. j \in hand[t].left
        BY <1>s, GroupInHand DEF HandSound
      <4>3. e.task \in Tasks
        BY <1>s, <4>1, <4>2 DEF HandSound
      <4>4. e.writes \subseteq task[e.task].writes
        BY <3>4 DEF StagedSeen
      <4>5. j \in hand'[t].seen /\ hand'[t].batch[j] = e.task
        BY <2>1, <2>4, <4>1
      <4> QED
        BY <1>z, <4>3, <4>4, <4>5 DEF TasksStay
    <3> HIDE DEF m
    <3>5. ASSUME NEW n \in 1 .. m
          PROVE  LET e == hand'[t].staged[n] IN
                 /\ e.writes \subseteq task'[e.task].writes
                 /\ \E j \in hand'[t].seen : hand'[t].batch[j] = e.task
      <4>1. CASE n = m
        BY <3>1, <3>2, <3>3, <4>1
      <4>2. CASE n \in 1 .. Len(hand[t].staged)
        BY <3>1, <3>4, <4>2
      <4> QED
        BY <3>1, <4>1, <4>2
    <3> QED
      BY <3>1, <3>5 DEF StagedSeen
  <2>5. task[w].named
    BY <2>2
  <2>6. hand'[s].staged = hand[s].staged \/ hand'[s].staged = Append(hand[s].staged, Staged(s, w))
    BY <1>6, <2>5, AtPlain
  <2> QED
    BY <1>e, <2>1, <2>3, <2>4, <2>6
<1>7. ASSUME NEW s \in Threads, NextGroup(s) PROVE StagedSeen(t)'
  <2>1. Elsewhere(s) /\ hand'[s].staged = <<>>
    BY <1>7, <1>s, NextGroupIs
  <2> QED
    BY <1>e, <2>1, NothingStaged
<1>8. ASSUME NEW s \in Threads, NEW i \in Coming(s), RetryGroup(s, i) PROVE StagedSeen(t)'
  <2>1. CASE NextGroup(s)
    BY <1>7, <2>1
  <2>2. CASE ~NextGroup(s)
    <3>1. /\ Elsewhere(s) /\ hand[s].pc = "retry" /\ hand'[s].staged = hand[s].staged
      BY <1>8, <1>s, <2>2, RetryOneTask
    <3>2. s = t => hand'[t].staged = <<>>
      BY <1>s, <3>1 DEF HandSound
    <3> QED
      BY <1>e, <3>1, <3>2, NothingStaged
  <2> QED
    BY <2>1, <2>2
<1>9. ASSUME NEW s \in Threads, Commit(s) \/ RejectGroup(s) PROVE StagedSeen(t)'
  BY <1>7, <1>9 DEF Commit, RejectGroup
<1>10. ASSUME NEW s \in Threads, CommitFails(s) PROVE StagedSeen(t)'
  <2>1. Elsewhere(s) /\ hand'[s].staged = <<>>
    BY <1>10, <1>s, CommitFailsIs
  <2> QED
    BY <1>e, <2>1, NothingStaged
<1>11. CASE Start
  <2>1. hand'[t] = hand[t] \/ hand'[t] = Ready
    BY <1>11, <1>s, StartIs
  <2>2. Ready.staged = <<>>
    BY DEF Ready, Off
  <2> QED
    BY <1>u, <2>1, <2>2, NothingStaged
<1>12. CASE Stop \/ Stopped \/ Clear
  BY <1>12, <1>u DEF Stop, Stopped, Clear
<1> QED
  BY <1>1, <1>2, <1>3, <1>4, <1>5, <1>6, <1>8, <1>9, <1>10, <1>11, <1>12
     DEF Next, WorkerStep, At

(* Where a task that is kept may have gone. *)
LEMMA KeptQueued ==
    ASSUME NEW v, queue'[v] > 0
    PROVE  Kept(v)'
  BY DEF Kept, Undone, Queued

LEMMA KeptInHand ==
    ASSUME NEW v, NEW t \in Threads, NEW i, i \in hand'[t].left, i \notin hand'[t].seen,
           hand'[t].batch[i] = v
    PROVE  Kept(v)'
  BY DEF Kept, Undone

LEMMA KeptTold ==
    ASSUME NEW v, "failed" \in told'[v] \/ "cleared" \in told'[v]
    PROVE  Kept(v)'
  BY DEF Kept, GivenUp

LEMMA KeptElsewhere ==
    ASSUME NEW t \in Threads, Elsewhere(t), NEW v, Kept(v), told[v] \subseteq told'[v],
           Queued(v) => Kept(v)',
           \A p \in Producers : prod[p].pc = "push" => prod'[p] = prod[p],
           \A i \in hand[t].left \ hand[t].seen : hand[t].batch[i] = v => Kept(v)'
    PROVE  Kept(v)'
<1>1. CASE GivenUp(v)
  BY <1>1 DEF GivenUp, Kept
<1>2. CASE Queued(v)
  BY <1>2
<1>3. CASE \E p \in Producers : prod[p].pc = "push" /\ prod[p].w = v
  BY <1>3 DEF Kept, Undone
<1>4. ASSUME NEW s \in Threads, NEW i \in hand[s].left \ hand[s].seen, hand[s].batch[i] = v
      PROVE  Kept(v)'
  <2>1. CASE s = t
    BY <1>4, <2>1
  <2>2. CASE s # t
    BY <1>4, <2>2, KeptInHand DEF Elsewhere
  <2> QED
    BY <2>1, <2>2
<1> QED
  BY <1>1, <1>2, <1>3, <1>4 DEF Kept, Undone

LEMMA KeptSameHands ==
    ASSUME hand' = hand, NEW v, Kept(v), told[v] \subseteq told'[v], Queued(v) => Kept(v)',
           \A p \in Producers : prod[p].pc = "push" /\ prod[p].w = v =>
                                prod'[p] = prod[p] \/ Kept(v)'
    PROVE  Kept(v)'
<1>1. CASE GivenUp(v)
  BY <1>1 DEF GivenUp, Kept
<1>2. CASE Queued(v)
  BY <1>2
<1>3. CASE \E p \in Producers : prod[p].pc = "push" /\ prod[p].w = v
  BY <1>3 DEF Kept, Undone
<1>4. CASE \E t \in Threads : \E i \in hand[t].left \ hand[t].seen : hand[t].batch[i] = v
  BY <1>4 DEF Kept, Undone
<1> QED
  BY <1>1, <1>2, <1>3, <1>4 DEF Kept, Undone

(* A write stays secured if its task is kept and nothing staged is lost.    *)
LEMMA SecuredIf ==
    ASSUME TasksStay, NEW w, Secured(w), applied' = applied,
           \A t \in Threads : hand'[t].staged = hand[t].staged,
           \A v \in Tasks : w \in task[v].writes /\ Kept(v) => Kept(v)'
    PROVE  Secured(w)'
<1>1. CASE \E v \in Tasks : w \in task[v].writes /\ Kept(v)
  BY <1>1 DEF Secured, TasksStay
<1>2. CASE \E n \in 1 .. Len(applied) : w \in applied[n].writes
  BY <1>2 DEF Secured
<1>3. CASE \E t \in Threads : \E n \in 1 .. Len(hand[t].staged) : w \in hand[t].staged[n].writes
  BY <1>3 DEF Secured
<1> QED
  BY <1>1, <1>2, <1>3 DEF Secured

LEMMA SecuredElsewhere ==
    ASSUME TasksStay, NEW t \in Threads, Elsewhere(t), NEW w, Secured(w),
           \A n \in 1 .. Len(applied) : n \in 1 .. Len(applied') /\ applied'[n] = applied[n],
           \A n \in 1 .. Len(hand[t].staged) : w \in hand[t].staged[n].writes => Secured(w)',
           \A v \in Tasks : w \in task[v].writes /\ Kept(v) => Kept(v)'
    PROVE  Secured(w)'
<1>1. CASE \E v \in Tasks : w \in task[v].writes /\ Kept(v)
  BY <1>1 DEF Secured, TasksStay
<1>2. CASE \E n \in 1 .. Len(applied) : w \in applied[n].writes
  BY <1>2 DEF Secured
<1>3. ASSUME NEW s \in Threads, NEW n \in 1 .. Len(hand[s].staged), w \in hand[s].staged[n].writes
      PROVE  Secured(w)'
  <2>1. CASE s = t
    BY <1>3, <2>1
  <2>2. CASE s # t
    BY <1>3, <2>2 DEF Elsewhere, Secured
  <2> QED
    BY <2>1, <2>2
<1> QED
  BY <1>1, <1>2, <1>3 DEF Secured

LEMMA SecuredTask ==
    ASSUME NEW w, NEW v \in Tasks', w \in task'[v].writes, Kept(v)'
    PROVE  Secured(w)'
  BY DEF Secured

(* Of what a worker has staged, each write is secured by its task again once *)
(* the worker has not been at it.                                            *)
LEMMA StagedTask ==
    ASSUME Sound, NEW t \in Threads, StagedSeen(t), NEW n \in 1 .. Len(hand[t].staged),
           NEW w \in hand[t].staged[n].writes
    PROVE  \E i \in hand[t].seen : /\ i \in hand[t].left /\ hand[t].batch[i] \in Tasks
                                   /\ w \in task[hand[t].batch[i]].writes
<1>1. HandSound(t)
  BY DEF Sound, HandsSound
<1>2. PICK i \in hand[t].seen : hand[t].batch[i] = hand[t].staged[n].task
  BY DEF StagedSeen
<1>3. hand[t].staged[n].writes \subseteq task[hand[t].staged[n].task].writes
  BY DEF StagedSeen
<1>4. i \in hand[t].left
  BY <1>1, GroupInHand DEF HandSound
<1>5. hand[t].batch[i] \in Tasks
  BY <1>1, <1>4 DEF HandSound
<1> QED
  BY <1>2, <1>3, <1>4, <1>5

(* A step keeps every acknowledged write secured: one case per action.      *)
LEMMA SecuredStep ==
    ASSUME Sound, PlainOps, Next, Roomy, AllSecured, Types', NEW w \in acked'
    PROVE  Secured(w)'
<1>s. Types /\ TasksKnown /\ HandsSound /\ SubmitsApart
  BY DEF Sound
<1>z. TasksStay
  BY StepsStay
<1>t. /\ queue \in [Writes -> Nat] /\ prod \in [Producers -> ProdRec]
      /\ queue' \in [Writes -> Nat]
      /\ told \in [Writes -> SUBSET {"ok", "failed", "cleared"}]
      /\ \A v \in Tasks : v \in Writes
  <2>1. Len(task) \in Nat /\ Len(task) <= MaxWrites
    BY <1>s DEF Types
  <2>2. \A v \in Tasks : v \in Writes
    BY <2>1 DEF Tasks, Writes
  <2> QED
    BY <1>s, <2>2 DEF Types
<1>h. \A t \in Threads : HandSound(t) /\ hand[t] \in HandRec
  BY <1>s DEF HandsSound, Types
<1>a. \A v \in acked : Secured(v)
  BY DEF AllSecured
<1>n. \A v \in Tasks : task[v].named /\ v \in task[v].writes
  BY DEF AllSecured
<1>g. \A t \in Threads : StagedSeen(t)
  BY DEF AllSecured
<1>1. ASSUME NEW p \in Producers, Submit(p) PROVE Secured(w)'
  <2>1. prod[p].pc = "idle" /\ UNCHANGED <<queue, hand, acked, told, applied>>
    BY <1>1 DEF Submit, lists, history
  <2>2. PICK x : Enters(p, x)
    BY <1>1, <1>s, SubmitIs
  <2>3. \A q \in Producers : q # p => prod'[q] = prod[q]
    BY <1>t, <2>2 DEF Enters
  <2>4. ASSUME NEW v \in Tasks, Kept(v) PROVE Kept(v)'
    <3>1. Queued(v) => Kept(v)'
      BY <2>1, KeptQueued DEF Queued
    <3> QED
      BY <2>1, <2>3, <2>4, <3>1, KeptSameHands
  <2> QED
    BY <1>a, <1>z, <2>1, <2>4, SecuredIf
<1>2. ASSUME NEW p \in Producers, Merge(p), NEW old, old = cache[prod[p].key]
      PROVE  Secured(w)'
  <2>1. /\ prod[p].pc = "merge" /\ prod[p].key \in Keys
        /\ old # NoWrite /\ old \in Tasks /\ old \in Writes /\ Tasks' = Tasks
        /\ task'[old].writes = task[old].writes \cup {prod[p].w}
        /\ acked' = acked \cup {prod[p].w}
        /\ prod' = [prod EXCEPT ![p] = AtRest]
        /\ UNCHANGED <<queue, hand, told, applied>>
    BY ZenonT(60), <1>2, MergeIs
  <2>2. \A q \in Producers : q # p => prod'[q] = prod[q]
    BY <1>t, <2>1
  <2>3. ASSUME NEW v \in Tasks, Kept(v) PROVE Kept(v)'
    <3>1. Queued(v) => Kept(v)'
      BY <2>1, KeptQueued DEF Queued
    <3> QED
      BY <2>1, <2>2, <2>3, <3>1, KeptSameHands
  <2>4. CASE w \in acked
    BY <1>a, <1>z, <2>1, <2>3, <2>4, SecuredIf
  <2>5. CASE w = prod[p].w
    <3>1. Kept(old)
      BY <1>2, <2>1 DEF AllSecured, CachedWaits, Kept, Undone
    <3>2. Kept(old)'
      <4>1. PICK v \in Tasks : v = old
        BY <2>1
      <4>2. Kept(v)'
        BY <2>3, <3>1, <4>1
      <4> QED
        BY <4>1, <4>2
    <3> QED
      BY <2>1, <2>5, <3>2, SecuredTask
  <2> QED
    BY <2>1, <2>4, <2>5
<1>3. ASSUME NEW p \in Producers, Remember(p) PROVE Secured(w)'
  <2>1. prod[p].pc = "merge" /\ UNCHANGED <<queue, hand, acked, told, applied>>
    BY <1>3 DEF Remember, history
  <2>2. \A q \in Producers : q # p => prod'[q] = prod[q]
    BY <1>3, <1>t DEF Remember
  <2>3. ASSUME NEW v \in Tasks, Kept(v) PROVE Kept(v)'
    <3>1. Queued(v) => Kept(v)'
      BY <2>1, KeptQueued DEF Queued
    <3> QED
      BY <2>1, <2>2, <2>3, <3>1, KeptSameHands
  <2> QED
    BY <1>a, <1>z, <2>1, <2>3, SecuredIf
<1>4. ASSUME NEW p \in Producers, Push(p), NEW x, x = prod[p].w PROVE Secured(w)'
  <2>1. /\ prod[p].pc = "push" /\ prod' = [prod EXCEPT ![p] = AtRest]
        /\ UNCHANGED <<task, hand, told, applied>>
        /\ ~Full => queue' = [queue EXCEPT ![x] = @ + 1] /\ acked' = acked \cup {x}
        /\ Full => queue' = queue /\ acked' = acked
    BY <1>4 DEF Push
  <2>2. x \in Tasks /\ x \in Writes /\ OnItsOwn(p)
    BY <1>4, <2>1, ActiveOwn
  <2>3. \A q \in Producers : q # p => prod'[q] = prod[q]
    BY <1>t, <2>1
  <2>4. \A v \in Writes : queue[v] > 0 => queue'[v] > 0
    BY <1>t, <2>1, <2>2
  <2>5. ASSUME NEW v \in Tasks, Kept(v), v # x \/ ~Full PROVE Kept(v)'
    <3>1. Queued(v) => Kept(v)'
      BY <1>t, <2>4, KeptQueued DEF Queued
    <3>2. CASE v # x
      BY <1>4, <2>1, <2>3, <2>5, <3>1, <3>2, KeptSameHands
    <3>3. CASE v = x /\ ~Full
      <4>1. queue'[v] > 0
        BY <1>t, <2>1, <2>2, <3>3
      <4> QED
        BY <4>1, KeptQueued
    <3> QED
      BY <2>5, <3>2, <3>3
  <2>6. CASE w \in acked
    <3>1. ASSUME NEW v \in Tasks, w \in task[v].writes, Kept(v) PROVE Kept(v)'
      <4>1. CASE v # x \/ ~Full
        BY <2>5, <3>1, <4>1
      <4>2. CASE v = x /\ Full
        <5>1. prod[p].key = NoKey
          BY <2>1, <4>2 DEF Roomy
        <5>2. task[x].writes = {x} /\ x \notin acked
          BY <1>4, <2>2, <5>1 DEF OnItsOwn
        <5> QED
          BY <2>6, <3>1, <4>2, <5>2
      <4> QED
        BY <4>1, <4>2
    <3> QED
      BY <1>a, <1>z, <2>1, <2>6, <3>1, SecuredIf
  <2>7. CASE w \notin acked
    <3>1. w = x /\ ~Full
      BY <2>1, <2>7
    <3>2. queue'[x] > 0
      BY <1>t, <2>1, <2>2, <3>1
    <3>3. Kept(x)'
      <4>1. PICK v : v = x
        OBVIOUS
      <4>2. Kept(v)'
        BY <3>2, <4>1, KeptQueued
      <4> QED
        BY <4>1, <4>2
    <3>4. x \in task'[x].writes /\ x \in Tasks'
      BY <1>n, <2>1, <2>2, UnchangedStay
    <3> QED
      BY <3>1, <3>3, <3>4, SecuredTask
  <2> QED
    BY <2>6, <2>7
<1>q. \A v \in Tasks : queue'[v] >= queue[v] /\ Queued(v) => Kept(v)'
  BY <1>t, KeptQueued DEF Queued
<1>x. \A n \in 1 .. Len(applied) :
          applied' = applied => n \in 1 .. Len(applied') /\ applied'[n] = applied[n]
  OBVIOUS
<1>5. ASSUME NEW t \in Threads, Pop(t) PROVE Secured(w)'
  <2>1. PICK x \in Writes :
             /\ queue' = [queue EXCEPT ![x] = @ - 1]
             /\ Elsewhere(t) /\ hand[t].pc = "get"
             /\ hand'[t].batch = Append(hand[t].batch, x)
             /\ hand'[t].left = hand[t].left \cup {Len(hand[t].batch) + 1}
             /\ hand'[t].seen = hand[t].seen /\ hand'[t].staged = hand[t].staged
             /\ UNCHANGED <<task, prod, acked, told, applied>>
    BY <1>5, <1>s, PopIs
  <2>2. hand[t].seen = {} /\ hand[t].left \subseteq 1 .. Len(hand[t].batch)
    BY <1>h, <2>1 DEF HandSound
  <2>3. hand[t].batch \in Seq(Writes)
    BY <1>h DEF HandRec
  <2>4. /\ hand'[t].batch[Len(hand[t].batch) + 1] = x
        /\ \A i \in 1 .. Len(hand[t].batch) : hand'[t].batch[i] = hand[t].batch[i]
    BY <2>1, <2>3
  <2>5. ASSUME NEW v \in Tasks, Kept(v) PROVE Kept(v)'
    <3>1. CASE v = x
      BY <2>1, <2>2, <2>4, <3>1, KeptInHand
    <3>2. CASE v # x
      <4>1. queue'[v] = queue[v]
        BY <1>t, <2>1, <3>2
      <4>2. Queued(v) => Kept(v)'
        BY <4>1, KeptQueued DEF Queued
      <4>3. ASSUME NEW i \in hand[t].left \ hand[t].seen, hand[t].batch[i] = v PROVE Kept(v)'
        BY <2>1, <2>2, <2>4, <4>3, KeptInHand
      <4> QED
        BY <2>1, <2>5, <4>2, <4>3, KeptElsewhere
    <3> QED
      BY <3>1, <3>2
  <2>6. \A s \in Threads : hand'[s].staged = hand[s].staged
    BY <2>1 DEF Elsewhere
  <2> QED
    BY <1>a, <1>z, <2>1, <2>5, <2>6, SecuredIf
<1>6. ASSUME NEW t \in Threads, Take(t) PROVE Secured(w)'
  <2>1. /\ Elsewhere(t) /\ hand'[t].batch = hand[t].batch /\ hand'[t].left = hand[t].left
        /\ hand'[t].seen = hand[t].seen /\ hand'[t].staged = hand[t].staged
        /\ UNCHANGED <<queue, prod, acked, told, applied>>
    BY <1>6, <1>s, TakeIs
  <2>2. ASSUME NEW v \in Tasks, Kept(v) PROVE Kept(v)'
    <3>1. Queued(v) => Kept(v)'
      BY <2>1, KeptQueued DEF Queued
    <3>2. ASSUME NEW i \in hand[t].left \ hand[t].seen, hand[t].batch[i] = v PROVE Kept(v)'
      BY <2>1, <3>2, KeptInHand
    <3> QED
      BY <2>1, <2>2, <3>1, <3>2, KeptElsewhere
  <2>3. \A s \in Threads : hand'[s].staged = hand[s].staged
    BY <2>1 DEF Elsewhere
  <2> QED
    BY <1>a, <1>z, <2>1, <2>2, <2>3, SecuredIf
<1>7. ASSUME NEW t \in Threads, Leave(t) PROVE Secured(w)'
  <2>1. /\ Elsewhere(t) /\ hand[t].left = {} /\ hand[t].staged = <<>> /\ hand'[t].staged = <<>>
        /\ UNCHANGED <<queue, prod, acked, told, applied>>
    BY <1>7, <1>s, LeaveIs DEF Ready, Off
  <2>2. ASSUME NEW v \in Tasks, Kept(v) PROVE Kept(v)'
    <3>1. Queued(v) => Kept(v)'
      BY <2>1, KeptQueued DEF Queued
    <3> QED
      BY <2>1, <2>2, <3>1, KeptElsewhere
  <2>3. \A s \in Threads : hand'[s].staged = hand[s].staged
    BY <2>1 DEF Elsewhere
  <2> QED
    BY <1>a, <1>z, <2>1, <2>2, <2>3, SecuredIf
<1>8. CASE Start
  <2>1. UNCHANGED <<queue, prod, acked, told, applied>>
    BY <1>8, <1>s, StartIs
  <2>2. \A t \in Threads : hand'[t] = hand[t] \/ (hand[t].pc = "off" /\ hand'[t] = Ready)
    BY <1>8, <1>s, StartIs
  <2>3. \A t \in Threads : hand[t].pc = "off" => hand[t].left = {} /\ hand[t].staged = <<>>
    BY <1>h DEF HandSound
  <2>4. \A t \in Threads : hand'[t].staged = hand[t].staged
    BY <2>2, <2>3 DEF Ready, Off
  <2>5. ASSUME NEW v \in Tasks, Kept(v) PROVE Kept(v)'
    <3>1. \A t \in Threads : \A i \in hand[t].left : hand'[t] = hand[t]
      BY <2>2, <2>3
    <3> QED
      BY <2>1, <2>5, <3>1 DEF Kept, Undone, GivenUp, Queued
  <2> QED
    BY <1>a, <1>z, <2>1, <2>4, <2>5, SecuredIf
<1>9. CASE Stop \/ Stopped \/ \E t \in Threads : Wait(t)
  <2>1. UNCHANGED <<queue, prod, hand, acked, told, applied>>
    BY <1>9 DEF Stop, Stopped, Wait, lists, history
  <2>2. ASSUME NEW v \in Tasks, Kept(v) PROVE Kept(v)'
    BY <2>1, <2>2 DEF Kept, Undone, GivenUp, Queued
  <2> QED
    BY <1>a, <1>z, <2>1, <2>2, SecuredIf
<1>10. CASE Clear
  <2>1. /\ UNCHANGED <<hand, acked, applied>>
        /\ told' = [v \in Writes |-> IF Queued(v) THEN told[v] \cup {"cleared"} ELSE told[v]]
        /\ \A p \in Producers : prod[p].pc = "push" => prod'[p] = prod[p]
    BY <1>10, <1>t DEF Clear
  <2>2. ASSUME NEW v \in Tasks, Kept(v) PROVE Kept(v)'
    <3>1. told'[v] = IF Queued(v) THEN told[v] \cup {"cleared"} ELSE told[v]
      BY <1>t, <2>1
    <3>2. Queued(v) => Kept(v)'
      BY <3>1, KeptTold
    <3> QED
      BY <2>1, <2>2, <3>1, <3>2, KeptSameHands
  <2> QED
    BY <1>a, <1>z, <2>1, <2>2, SecuredIf
<1>11. ASSUME NEW t \in Threads, NEW i \in Coming(t), At(t, i), NEW x, x = hand[t].batch[i]
       PROVE  Secured(w)'
  <2>1. /\ Elsewhere(t) /\ hand'[t].batch = hand[t].batch /\ hand'[t].left = hand[t].left
        /\ hand'[t].seen = hand[t].seen \cup {i}
        /\ UNCHANGED <<prod, acked, applied>>
        /\ queue' = queue \/ queue' = [queue EXCEPT ![x] = @ + 1]
    BY <1>11, <1>s, AtOneTask
  <2>2. i \in hand[t].left /\ x \in Tasks /\ x \in Writes
    BY <1>11, <1>s, GroupInHand, InBatch
  <2>3. task[x].named
    BY <1>n, <2>2
  <2>4. /\ \A v \in Writes : told[v] \subseteq told'[v]
        /\ \/ hand'[t].staged = Append(hand[t].staged, Staged(t, x))
           \/ hand'[t].staged = hand[t].staged /\ Kept(x)'
    BY <1>11, <2>3, AtPlain
  <2>5. \A v \in Tasks : queue'[v] >= queue[v]
    BY <1>t, <2>1, <2>2
  <2>6. ASSUME NEW v \in Tasks, Kept(v), v # x PROVE Kept(v)'
    <3>1. Queued(v) => Kept(v)'
      BY <1>q, <2>5
    <3>2. ASSUME NEW j \in hand[t].left \ hand[t].seen, hand[t].batch[j] = v PROVE Kept(v)'
      <4>1. j # i
        BY <1>11, <2>6, <3>2
      <4> QED
        BY <2>1, <3>2, <4>1, KeptInHand
    <3>3. told[v] \subseteq told'[v]
      BY <1>t, <2>4
    <3> QED
      BY <2>1, <2>6, <3>1, <3>2, <3>3, KeptElsewhere
  <2>7. hand[t].staged \in Seq(Effect)
    BY <1>h DEF HandRec
  <2>8. \A n \in 1 .. Len(hand[t].staged) :
            n \in 1 .. Len(hand'[t].staged) /\ hand'[t].staged[n] = hand[t].staged[n]
    BY <2>4, <2>7
  <2>9. \A n \in 1 .. Len(hand[t].staged) : w \in hand[t].staged[n].writes => Secured(w)'
    BY <2>8 DEF Secured
  <2>10. Secured(w)
    BY <1>a, <2>1
  <2>11. CASE Kept(x)'
    <3>1. ASSUME NEW v \in Tasks, Kept(v) PROVE Kept(v)'
      BY <2>6, <2>11, <3>1
    <3> QED
      BY <1>x, <1>z, <2>1, <2>9, <2>10, <3>1, SecuredElsewhere
  <2>12. CASE hand'[t].staged = Append(hand[t].staged, Staged(t, x)) /\ w \in task[x].writes
    <3> DEFINE m == Len(hand[t].staged) + 1
    <3>1. m \in 1 .. Len(hand'[t].staged) /\ hand'[t].staged[m] = Staged(t, x)
      BY <2>7, <2>12
    <3>2. w \in Staged(t, x).writes
      BY <2>12 DEF Staged
    <3> HIDE DEF m
    <3> QED
      BY <3>1, <3>2 DEF Secured
  <2>13. CASE w \notin task[x].writes
    BY <1>x, <1>z, <2>1, <2>6, <2>9, <2>10, <2>13, SecuredElsewhere
  <2> QED
    BY <2>4, <2>11, <2>12, <2>13
<1>12. ASSUME NEW t \in Threads, NEW i \in Coming(t), RetryGroup(t, i),
              NEW x, x = hand[t].batch[i]
       PROVE  Secured(w)'
  <2>1. /\ hand[t].pc = "retry"
        /\ UNCHANGED <<prod, acked, applied>>
        /\ \/ queue' = queue /\ told' = [told EXCEPT ![x] = @ \cup {"failed"}]
           \/ queue' = [queue EXCEPT ![x] = @ + 1] /\ told' = told
    BY <1>12, <1>s, RetryOneTask
  <2>2. i \in Group(t) /\ i \in hand[t].left /\ x \in Tasks /\ x \in Writes
    BY <1>12, <1>s, GroupInHand, InBatch
  <2>3. Kept(x)'
    <3>1. "failed" \in told'[x] \/ queue'[x] > 0
      BY <1>t, <2>1, <2>2
    <3>2. PICK v : v = x
      OBVIOUS
    <3>3. Kept(v)'
      BY <3>1, <3>2, KeptQueued, KeptTold
    <3> QED
      BY <3>2, <3>3
  <2>4. Elsewhere(t) /\ hand'[t].staged = hand[t].staged
    <3>1. hand[t].staged = <<>>
      BY <1>h, <2>1 DEF HandSound
    <3> QED
      BY <1>12, <1>s, <3>1, RetryOneTask, NextGroupIs
  <2>5. ASSUME NEW j \in hand[t].left \ hand[t].seen, j # i
        PROVE  /\ j \in hand'[t].left /\ j \notin hand'[t].seen
               /\ hand'[t].batch[j] = hand[t].batch[j]
    <3>1. CASE NextGroup(t) /\ Coming(t) = {i}
      <4>1. j \notin Group(t)
        BY <2>5, <3>1 DEF Coming
      <4> QED
        BY <1>s, <2>5, <3>1, <4>1, NextGroupIs
    <3>2. CASE ~(NextGroup(t) /\ Coming(t) = {i})
      <4>1. /\ hand'[t].batch = hand[t].batch
            /\ hand'[t].left = hand[t].left /\ hand'[t].seen = hand[t].seen \cup {i}
        BY <1>12, <1>s, <3>2, RetryOneTask
      <4> QED
        BY <2>5, <4>1
    <3> QED
      BY <3>1, <3>2
  <2>6. ASSUME NEW v \in Tasks, Kept(v) PROVE Kept(v)'
    <3>1. CASE v = x
      BY <2>3, <3>1
    <3>2. CASE v # x
      <4>1. Queued(v) => Kept(v)'
        BY <1>q, <1>t, <2>1, <2>2
      <4>2. ASSUME NEW j \in hand[t].left \ hand[t].seen, hand[t].batch[j] = v PROVE Kept(v)'
        <5>1. j # i
          BY <1>12, <3>2, <4>2
        <5> QED
          BY <2>5, <4>2, <5>1, KeptInHand
      <4>3. told[v] \subseteq told'[v]
        BY <1>t, <2>1, <2>2
      <4> QED
        BY <2>1, <2>4, <2>6, <4>1, <4>2, <4>3, KeptElsewhere
    <3> QED
      BY <3>1, <3>2
  <2>7. \A s \in Threads : hand'[s].staged = hand[s].staged
    BY <2>4 DEF Elsewhere
  <2> QED
    BY <1>a, <1>z, <2>1, <2>6, <2>7, SecuredIf
<1>13. ASSUME NEW t \in Threads, NextGroup(t), NEW v \in Tasks, Kept(v),
              \A x \in Tasks : told[x] \subseteq told'[x],
              \A i \in Group(t) \ hand[t].seen : hand[t].batch[i] = v => Kept(v)',
              UNCHANGED <<queue, prod>>
       PROVE  Kept(v)'
  <2>1. /\ Elsewhere(t) /\ hand'[t].left = hand[t].left \ Group(t) /\ hand'[t].seen = {}
        /\ hand'[t].batch = hand[t].batch \/ hand'[t].left = {}
    BY <1>13, <1>s, NextGroupIs
  <2>2. ASSUME NEW i \in hand[t].left \ hand[t].seen, hand[t].batch[i] = v PROVE Kept(v)'
    <3>1. CASE i \in Group(t)
      BY <1>13, <2>2, <3>1
    <3>2. CASE i \notin Group(t)
      BY <2>1, <2>2, <3>2, KeptInHand
    <3> QED
      BY <3>1, <3>2
  <2>3. Queued(v) => Kept(v)'
    BY <1>13, KeptQueued DEF Queued
  <2> QED
    BY <1>13, <2>1, <2>2, <2>3, KeptElsewhere
<1>14. ASSUME NEW t \in Threads, Commit(t) PROVE Secured(w)'
  <2>1. /\ NextGroup(t) /\ Coming(t) = {} /\ applied' = applied \o hand[t].staged
        /\ UNCHANGED <<queue, prod, acked, told>>
    BY <1>14 DEF Commit, lists
  <2>2. applied \in Seq(Effect) /\ hand[t].staged \in Seq(Effect)
    BY <1>h, <1>s DEF HandRec, Types
  <2>3. \A n \in 1 .. Len(applied) : n \in 1 .. Len(applied') /\ applied'[n] = applied[n]
    BY <2>1, <2>2
  <2>4. ASSUME NEW n \in 1 .. Len(hand[t].staged), w \in hand[t].staged[n].writes
        PROVE  Secured(w)'
    <3> DEFINE m == Len(applied) + n
    <3>1. m \in 1 .. Len(applied') /\ applied'[m] = hand[t].staged[n]
      BY <2>1, <2>2
    <3> HIDE DEF m
    <3> QED
      BY <2>4, <3>1 DEF Secured
  <2>5. Group(t) \ hand[t].seen = {}
    BY <2>1 DEF Coming
  <2>6. ASSUME NEW v \in Tasks, Kept(v) PROVE Kept(v)'
    BY <1>13, <2>1, <2>5, <2>6
  <2>7. Elsewhere(t)
    BY <1>s, <2>1, NextGroupIs
  <2> QED
    BY <1>a, <1>z, <2>1, <2>3, <2>4, <2>6, <2>7, SecuredElsewhere
<1>15. ASSUME NEW t \in Threads, RejectGroup(t) PROVE Secured(w)'
  <2>1. /\ NextGroup(t) /\ hand[t].seen = {}
        /\ told' = [v \in Writes |-> IF \E i \in Group(t) : hand[t].batch[i] = v
                                      THEN told[v] \cup {"failed"} ELSE told[v]]
        /\ UNCHANGED <<queue, prod, acked, applied>>
    BY <1>15 DEF RejectGroup, lists
  <2>2. ASSUME NEW v \in Tasks, Kept(v) PROVE Kept(v)'
    <3>1. told'[v] = IF \E i \in Group(t) : hand[t].batch[i] = v
                     THEN told[v] \cup {"failed"} ELSE told[v]
      BY <1>t, <2>1
    <3>2. \A x \in Tasks : told[x] \subseteq told'[x]
      BY <1>t, <2>1
    <3>3. \A i \in Group(t) \ hand[t].seen : hand[t].batch[i] = v => Kept(v)'
      BY <3>1, KeptTold
    <3> QED
      BY <1>13, <2>1, <2>2, <3>2, <3>3
  <2>3. ASSUME NEW n \in 1 .. Len(hand[t].staged) PROVE FALSE
    BY <1>g, <2>1, <2>3 DEF StagedSeen
  <2>4. Elsewhere(t)
    BY <1>s, <2>1, NextGroupIs
  <2> QED
    BY <1>a, <1>x, <1>z, <2>1, <2>2, <2>3, <2>4, SecuredElsewhere
<1>16. ASSUME NEW t \in Threads, CommitFails(t) PROVE Secured(w)'
  <2>1. /\ Elsewhere(t) /\ hand'[t].batch = hand[t].batch /\ hand'[t].left = hand[t].left
        /\ hand'[t].seen = {}
        /\ UNCHANGED <<task, queue, prod, acked, told, applied>>
    BY <1>16, <1>s, CommitFailsIs
  <2>2. ASSUME NEW v \in Tasks, NEW i \in hand[t].left, hand[t].batch[i] = v PROVE Kept(v)'
    BY <2>1, <2>2, KeptInHand
  <2>3. ASSUME NEW v \in Tasks, Kept(v) PROVE Kept(v)'
    <3>1. Queued(v) => Kept(v)'
      BY <2>1, KeptQueued DEF Queued
    <3> QED
      BY <2>1, <2>2, <2>3, <3>1, KeptElsewhere
  <2>4. ASSUME NEW n \in 1 .. Len(hand[t].staged), w \in hand[t].staged[n].writes
        PROVE  Secured(w)'
    <3>1. PICK i \in hand[t].seen : /\ i \in hand[t].left /\ hand[t].batch[i] \in Tasks
                                    /\ w \in task[hand[t].batch[i]].writes
      BY <1>g, <2>4, StagedTask
    <3>2. PICK v \in Tasks : v = hand[t].batch[i]
      BY <3>1
    <3>3. Kept(v)'
      BY <2>2, <3>1, <3>2
    <3>4. v \in Tasks' /\ w \in task'[v].writes
      BY <2>1, <3>1, <3>2, UnchangedStay
    <3> QED
      BY <3>3, <3>4, SecuredTask
  <2> QED
    BY <1>a, <1>x, <1>z, <2>1, <2>3, <2>4, SecuredElsewhere
<1> QED
  BY <1>1, <1>2, <1>3, <1>4, <1>5, <1>6, <1>7, <1>8, <1>9, <1>10, <1>11, <1>12, <1>14, <1>15, <1>16
     DEF Next, ProducerStep, WorkerStep, At

(* AllSecured is kept, ...                                                  *)
LEMMA SecuredAlways ==
    ASSUME PlainOps, Sound /\ AllSecured, Roomy, [Next]_vars
    PROVE  (Sound /\ AllSecured)'
<1>1. CASE Next
  <2>1. Types'
    BY <1>1, TypesOfProducers, TypesOfWorkers, TypesOfOwner DEF Next, Owner, Sound
  <2>2. Sound'
    BY <1>1, <2>1, TasksStep, HandsStep, ApartStep DEF Sound
  <2>3. CachedWaits'
    BY <1>1, <2>1, WaitsStep DEF AllSecured
  <2>4. \A v \in Tasks : task[v].named /\ v \in task[v].writes
    BY DEF AllSecured
  <2>5. \A v \in Tasks' : task'[v].named /\ v \in task'[v].writes
    BY <1>1, <2>4, NamedStep
  <2>6. ASSUME NEW t \in Threads PROVE StagedSeen(t)'
    BY <1>1, <2>4, StagedStep DEF AllSecured
  <2>7. ASSUME NEW w \in acked' PROVE Secured(w)'
    BY <1>1, <2>1, SecuredStep
  <2> QED
    BY <2>2, <2>3, <2>5, <2>6, <2>7 DEF AllSecured
<1>2. CASE UNCHANGED vars
  <2>1. Sound'
    BY <1>2, SoundStays DEF vars
  <2>2. Tasks' = Tasks
    BY <1>2 DEF vars, Tasks
  <2>3. \A t \in Threads : StagedSeen(t)'
    BY <1>2 DEF vars, AllSecured, StagedSeen
  <2>4. CachedWaits'
    BY <1>2 DEF vars, AllSecured, CachedWaits, Queued
  <2>5. \A v \in Tasks' : task'[v].named /\ v \in task'[v].writes
    BY <1>2, <2>2 DEF vars, AllSecured
  <2>6. \A v : Kept(v)' <=> Kept(v)
    BY <1>2 DEF vars, Kept, Undone, GivenUp, Queued
  <2>7. \A w \in acked' : Secured(w)'
    BY <1>2, <2>2, <2>6 DEF vars, AllSecured, Secured
  <2> QED
    BY <2>1, <2>3, <2>4, <2>5, <2>7 DEF AllSecured
<1> QED
  BY <1>1, <1>2

(* ... implies AckedKept, ...                                               *)
LEMMA SecuredKept ==
    ASSUME Sound, AllSecured
    PROVE  AckedKept
<1>s. HandsSound
  BY DEF Sound
<1>1. ASSUME NEW v, Undone(v) PROVE Pending(v)
  BY <1>1 DEF Undone, Pending, InHand, Entering
<1>2. ASSUME NEW v, Kept(v) PROVE Pending(v) \/ told[v] \cap {"failed", "cleared"} # {}
  BY <1>1, <1>2 DEF Kept, GivenUp
<1>3. ASSUME NEW w \in acked, NEW t \in Threads, NEW n \in 1 .. Len(hand[t].staged),
             w \in hand[t].staged[n].writes
      PROVE  \E v \in Tasks : w \in task[v].writes /\ Pending(v)
  <2>1. StagedSeen(t)
    BY DEF AllSecured
  <2>2. PICK i \in hand[t].seen : /\ i \in hand[t].left /\ hand[t].batch[i] \in Tasks
                                  /\ w \in task[hand[t].batch[i]].writes
    BY <1>3, <2>1, StagedTask
  <2>3. Pending(hand[t].batch[i])
    BY <2>2 DEF Pending, InHand
  <2> QED
    BY <2>2, <2>3
<1>4. \A w \in acked : Secured(w)
  BY DEF AllSecured
<1> QED
  BY <1>2, <1>3, <1>4 DEF AckedKept, Secured

(* ... and holds at first.                                                  *)
LEMMA InitSecured ==
    ASSUME Init
    PROVE  AllSecured
<1>1. Tasks = {}
  BY DEF Init, Tasks
<1>2. \A t \in Threads : hand[t].staged = <<>>
  BY DEF Init, Off
<1> QED
  BY <1>1, <1>2 DEF Init, AllSecured, StagedSeen, CachedWaits

(* An acknowledged write is not lost, AckedKept, for any number of          *)
(* producers and workers and every fault, stop, restart and clear, as long  *)
(* as only inserts and deletes are submitted, and no full queue refuses a   *)
(* task the merge cache has got (db_write_queue.py:245-279).  The invariant *)
(* is AllSecured, which follows an acknowledged write from the queue to a   *)
(* hand, a session and the database and back.                               *)
THEOREM Acknowledged ==
    ASSUME PlainOps
    PROVE  Spec /\ []Roomy => []AckedKept
<1>1. Init => Sound /\ AllSecured
  BY InitCounted, InitSecured DEF Counted
<1>2. Roomy /\ (Sound /\ AllSecured) /\ [Next]_vars => (Sound /\ AllSecured)'
  BY SecuredAlways
<1>3. Sound /\ AllSecured => AckedKept
  BY SecuredKept
<1> QED
  BY <1>1, <1>2, <1>3, PTL DEF Spec

-----------------------------------------------------------------------------
(* The order of effects.  Only being at a task counts a try, ...            *)
LEMMA TriesGrow ==
    ASSUME Sound, Next
    PROVE  /\ \A v \in Writes : tries[v] \in Nat /\ tries'[v] \in Nat /\ tries'[v] >= tries[v]
           /\ \/ tries' = tries
              \/ \E t \in Threads : \E i \in Coming(t) : At(t, i)
<1>s. Types /\ TasksKnown /\ HandsSound
  BY DEF Sound
<1>t. tries \in [Writes -> Nat]
  BY <1>s DEF Types
<1>1. ASSUME NEW t \in Threads, NEW i \in Coming(t), At(t, i), NEW w, w = hand[t].batch[i]
      PROVE  \A v \in Writes : tries'[v] \in Nat /\ tries'[v] >= tries[v]
  <2>1. tries' = [tries EXCEPT ![w] = @ + 1]
    BY <1>1, <1>s, AtOneTask
  <2> QED
    BY <1>t, <2>1
<1>2. ASSUME NEW p \in Producers, ProducerStep(p) PROVE tries' = tries
  BY <1>2 DEF ProducerStep, Submit, Merge, Remember, Push, history
<1>3. ASSUME NEW t \in Threads,
             \/ Pop(t) \/ Wait(t) \/ Take(t) \/ Leave(t)
             \/ Commit(t) \/ CommitFails(t) \/ RejectGroup(t)
      PROVE  tries' = tries
  BY <1>3 DEF Pop, Wait, Take, Leave, Commit, CommitFails, RejectGroup, history
<1>4. ASSUME NEW t \in Threads, NEW i \in Coming(t), RetryGroup(t, i) PROVE tries' = tries
  BY <1>4 DEF RetryGroup
<1>5. ASSUME Start \/ Stop \/ Stopped \/ Clear PROVE tries' = tries
  BY <1>5 DEF Start, Stop, Stopped, Clear, history
<1>6. \/ tries' = tries
      \/ \E t \in Threads : \E i \in Coming(t) : At(t, i)
  BY <1>2, <1>3, <1>4, <1>5 DEF Next, WorkerStep, At
<1> QED
  BY <1>1, <1>6, <1>t

(* ... and only a pop gives a worker a task it has not got.                 *)
Shrink(t) == \A i \in hand'[t].left : i \in hand[t].left /\ hand'[t].batch[i] = hand[t].batch[i]

LEMMA ShrinkNext ==
    ASSUME Types, NEW t \in Threads, NextGroup(t)
    PROVE  Shrink(t)
  BY NextGroupIs DEF Shrink

LEMMA HandsShrink ==
    ASSUME Sound, Next
    PROVE  (\A t \in Threads : Shrink(t)) \/ \E t \in Threads : Pop(t)
<1>s. Types /\ TasksKnown /\ HandsSound
  BY DEF Sound
<1>e. ASSUME NEW t \in Threads, Elsewhere(t), Shrink(t) PROVE \A s \in Threads : Shrink(s)
  BY <1>e DEF Elsewhere, Shrink
<1>u. ASSUME hand' = hand PROVE \A t \in Threads : Shrink(t)
  BY <1>u DEF Shrink
<1>1. ASSUME NEW p \in Producers, ProducerStep(p) PROVE hand' = hand
  BY <1>1 DEF ProducerStep, Submit, Merge, Remember, Push
<1>2. ASSUME NEW t \in Threads, Wait(t) PROVE hand' = hand
  BY <1>2 DEF Wait
<1>3. ASSUME Stop \/ Stopped \/ Clear PROVE hand' = hand
  BY <1>3 DEF Stop, Stopped, Clear
<1>4. CASE Start
  BY <1>4, <1>s, StartIs DEF Shrink, Ready, Off
<1>6. ASSUME NEW t \in Threads, Take(t) PROVE \A s \in Threads : Shrink(s)
  BY <1>6, <1>e, <1>s, TakeIs DEF Shrink
<1>7. ASSUME NEW t \in Threads, Leave(t) PROVE \A s \in Threads : Shrink(s)
  BY <1>7, <1>e, <1>s, LeaveIs DEF Shrink, Off
<1>8. ASSUME NEW t \in Threads, NEW i \in Coming(t), At(t, i), NEW w, w = hand[t].batch[i]
      PROVE  \A s \in Threads : Shrink(s)
  <2>1. Elsewhere(t) /\ hand'[t].batch = hand[t].batch /\ hand'[t].left = hand[t].left
    BY <1>8, <1>s, AtOneTask
  <2> QED
    BY <1>e, <2>1 DEF Shrink
<1>9. ASSUME NEW t \in Threads, NextGroup(t) PROVE \A s \in Threads : Shrink(s)
  BY <1>9, <1>e, <1>s, NextGroupIs, ShrinkNext
<1>10. ASSUME NEW t \in Threads, NEW i \in Coming(t), RetryGroup(t, i),
              NEW w, w = hand[t].batch[i]
       PROVE  \A s \in Threads : Shrink(s)
  <2>1. CASE NextGroup(t)
    BY <1>9, <2>1
  <2>2. CASE ~NextGroup(t)
    <3>1. Elsewhere(t) /\ hand'[t].batch = hand[t].batch /\ hand'[t].left = hand[t].left
      BY <1>10, <1>s, <2>2, RetryOneTask
    <3> QED
      BY <1>e, <3>1 DEF Shrink
  <2> QED
    BY <2>1, <2>2
<1>11. ASSUME NEW t \in Threads, Commit(t) \/ RejectGroup(t) PROVE NextGroup(t)
  BY <1>11 DEF Commit, RejectGroup
<1>12. ASSUME NEW t \in Threads, CommitFails(t) PROVE \A s \in Threads : Shrink(s)
  BY <1>12, <1>e, <1>s, CommitFailsIs DEF Shrink
<1> QED
  BY <1>u, <1>1, <1>2, <1>3, <1>4, <1>6, <1>7, <1>8, <1>9, <1>10, <1>11, <1>12
     DEF Next, WorkerStep, At

(* Tried is kept, first of the batches, ...                                 *)
TriedIn(t) == \A i \in hand[t].left \ Open(t) : tries[hand[t].batch[i]] > 0

LEMMA TriedInStep ==
    ASSUME Sound, Next, NEW t \in Threads, TriedIn(t)
    PROVE  TriedIn(t)'
<1>s. Types /\ TasksKnown /\ HandsSound /\ HandSound(t)
  BY DEF Sound, HandsSound
<1>z. TasksStay
  BY StepsStay
<1>m. \A v \in Writes : tries[v] \in Nat /\ tries'[v] \in Nat /\ tries'[v] >= tries[v]
  BY TriesGrow
<1>b. \A i \in hand[t].left : hand[t].batch[i] \in Writes
  BY <1>s, InBatch
<1>k. ASSUME hand'[t].left = hand[t].left, hand'[t].batch = hand[t].batch,
             Open(t) \subseteq Open(t)'
      PROVE  TriedIn(t)'
  BY <1>b, <1>k, <1>m DEF TriedIn
<1>u. ASSUME hand'[t] = hand[t] PROVE TriedIn(t)'
  BY <1>k, <1>s, <1>u, <1>z, OpenSame
<1>o. ASSUME hand'[t].seen = {}, hand'[t].pc # "retry" PROVE TriedIn(t)'
  BY <1>o DEF TriedIn, Open
<1>e. ASSUME NEW s \in Threads, Elsewhere(s), s = t => TriedIn(t)'
      PROVE  TriedIn(t)'
  BY <1>e, <1>u DEF Elsewhere
<1>1. ASSUME NEW p \in Producers, ProducerStep(p) PROVE TriedIn(t)'
  BY <1>1, <1>u DEF ProducerStep, Submit, Merge, Remember, Push
<1>2. ASSUME NEW s \in Threads, Pop(s) PROVE TriedIn(t)'
  <2>1. hand[s].pc = "get" /\ Elsewhere(s) /\ hand'[s].seen = hand[s].seen /\ hand'[s].pc = "get"
    BY <1>2, <1>s, PopIs
  <2>2. s = t => hand'[t].seen = {}
    BY <1>s, <2>1 DEF HandSound
  <2> QED
    BY <1>e, <1>o, <2>1, <2>2
<1>3. ASSUME NEW s \in Threads, Wait(s) PROVE TriedIn(t)'
  BY <1>3, <1>u DEF Wait
<1>4. ASSUME NEW s \in Threads, Take(s) PROVE TriedIn(t)'
  <2>1. hand[s].pc = "get" /\ Elsewhere(s) /\ hand'[s].seen = hand[s].seen /\ hand'[s].pc = "exec"
    BY <1>4, <1>s, TakeIs
  <2>2. s = t => hand'[t].seen = {}
    BY <1>s, <2>1 DEF HandSound
  <2> QED
    BY <1>e, <1>o, <2>1, <2>2
<1>5. ASSUME NEW s \in Threads, Leave(s) PROVE TriedIn(t)'
  <2>1. Elsewhere(s) /\ hand'[s].seen = {} /\ hand'[s].pc = "off"
    BY <1>5, <1>s, LeaveIs DEF Off
  <2> QED
    BY <1>e, <1>o, <2>1
<1>6. ASSUME NEW s \in Threads, NEW i \in Coming(s), At(s, i), NEW w, w = hand[s].batch[i]
      PROVE  TriedIn(t)'
  <2>1. /\ Elsewhere(s) /\ hand'[s].batch = hand[s].batch /\ hand'[s].left = hand[s].left
        /\ hand'[s].seen = hand[s].seen \cup {i} /\ hand[s].pc = "exec" /\ hand'[s].pc = "exec"
        /\ tries' = [tries EXCEPT ![w] = @ + 1]
    BY <1>6, <1>s, AtOneTask
  <2>2. i \in hand[s].left /\ w \in Writes
    BY <1>6, <1>s, GroupInHand, InBatch
  <2>3. tries'[w] > 0
    BY <1>m, <1>s, <2>1, <2>2 DEF Types
  <2>4. ASSUME s = t, NEW j \in hand[t].left, j \in hand[t].seen \cup {i}
        PROVE  tries'[hand[t].batch[j]] > 0
    <3>1. CASE j = i
      BY <1>6, <2>3, <2>4, <3>1
    <3>2. CASE j # i
      <4>1. j \in hand[t].left \ Open(t)
        BY <2>1, <2>4, <3>2 DEF Open
      <4> QED
        BY <1>b, <1>m, <4>1 DEF TriedIn
    <3> QED
      BY <3>1, <3>2
  <2>5. s = t => TriedIn(t)'
    BY <2>1, <2>4 DEF TriedIn, Open
  <2> QED
    BY <1>e, <2>1, <2>5
<1>7. ASSUME NEW s \in Threads, NextGroup(s) PROVE TriedIn(t)'
  <2>1. Elsewhere(s) /\ hand'[s].seen = {} /\ hand'[s].pc # "retry"
    BY <1>7, <1>s, NextGroupIs
  <2> QED
    BY <1>e, <1>o, <2>1
<1>8. ASSUME NEW s \in Threads, NEW i \in Coming(s), RetryGroup(s, i),
             NEW w, w = hand[s].batch[i]
      PROVE  TriedIn(t)'
  <2>1. CASE NextGroup(s)
    BY <1>7, <2>1
  <2>2. CASE ~NextGroup(s)
    <3>1. /\ Elsewhere(s) /\ hand[s].pc = "retry" /\ hand'[s].pc = "retry"
          /\ hand'[s].left = hand[s].left /\ hand'[s].batch = hand[s].batch
      BY <1>8, <1>s, <2>2, RetryOneTask
    <3>2. s = t => Group(t)' = Group(t)
      BY <1>s, <1>z, <3>1, GroupKept
    <3>3. s = t => Open(t)' = Open(t)
      BY <3>1, <3>2 DEF Open
    <3> QED
      BY <1>e, <1>k, <3>1, <3>3
  <2> QED
    BY <2>1, <2>2
<1>9. ASSUME NEW s \in Threads, Commit(s) \/ RejectGroup(s) PROVE TriedIn(t)'
  BY <1>7, <1>9 DEF Commit, RejectGroup
<1>10. ASSUME NEW s \in Threads, CommitFails(s) PROVE TriedIn(t)'
  <2>1. /\ Elsewhere(s) /\ hand[s].pc = "exec" /\ Coming(s) = {} /\ hand'[s].pc = "retry"
        /\ hand'[s].left = hand[s].left /\ hand'[s].batch = hand[s].batch
    BY <1>10, <1>s, CommitFailsIs
  <2>2. s = t => Group(t)' = Group(t)
    BY <1>s, <1>z, <2>1, GroupKept
  <2>3. s = t => Open(t) \subseteq Open(t)'
    BY <2>1, <2>2 DEF Open, Coming
  <2> QED
    BY <1>e, <1>k, <2>1, <2>3
<1>11. CASE Start
  <2>1. hand'[t] = hand[t] \/ hand'[t] = Ready
    BY <1>11, <1>s, StartIs
  <2>2. Ready.seen = {} /\ Ready.pc = "get"
    BY DEF Ready, Off
  <2> QED
    BY <1>o, <1>u, <2>1, <2>2
<1>12. CASE Stop \/ Stopped \/ Clear
  BY <1>12, <1>u DEF Stop, Stopped, Clear
<1> QED
  BY <1>1, <1>2, <1>3, <1>4, <1>5, <1>6, <1>8, <1>9, <1>10, <1>11, <1>12
     DEF Next, WorkerStep, At

(* Being at a task stages it last, or stages nothing and may empty the      *)
(* session.                                                                 *)
StagesLast(t, w) ==
    /\ \/ hand'[t].staged = Append(hand[t].staged, Staged(t, w))
       \/ hand'[t].staged = <<Staged(t, w)>>
    /\ task'[w].prio = task[w].prio /\ queue' = queue
StagesNone(t) == hand'[t].staged = hand[t].staged \/ hand'[t].staged = <<>>

LEMMA AtStages ==
    ASSUME Sound, NEW t \in Threads, NEW i \in Coming(t), At(t, i),
           NEW w, w = hand[t].batch[i]
    PROVE  StagesLast(t, w) \/ StagesNone(t)
<1>s. Types /\ TasksKnown /\ HandsSound
  BY DEF Sound
<1>1. i \in hand[t].left /\ w \in Writes /\ w \in Tasks
  BY <1>s, GroupInHand, InBatch
<1>2. task[w] \in TaskRec
  BY <1>1, <1>s, InBatch
<1>t. /\ hand \in [Threads -> HandRec] /\ hand[t] \in HandRec
      /\ task \in Seq(TaskRec) /\ w \in 1 .. Len(task)
  BY <1>1, <1>s DEF Types, Tasks
<1>3. CASE Succeeds(t, i)
  <2>1. \/ hand'[t].staged = Append(hand[t].staged, Staged(t, w))
        \/ hand'[t].staged = hand[t].staged
    BY <1>3, <1>t DEF Succeeds, HandRec
  <2> DEFINE b == task[w].named /\ task[w].op # "update"
             q == [task[w] EXCEPT !.named = b]
  <2>2. task' = [task EXCEPT ![w] = q]
    BY <1>3, <1>t DEF Succeeds
  <2>3. b \in BOOLEAN
    OBVIOUS
  <2> HIDE DEF b
  <2>4. q.prio = task[w].prio
    BY <1>2 DEF TaskRec
  <2> HIDE DEF q
  <2>5. task'[w] = q
    BY <1>t, <2>2
  <2>6. queue' = queue
    BY <1>3 DEF Succeeds, lists
  <2> QED
    BY <2>1, <2>4, <2>5, <2>6 DEF StagesLast, StagesNone
<1>4. CASE FallsBack(t, i)
  <2>1. \/ hand'[t].staged = <<Staged(t, w)>>
        \/ hand'[t].staged = <<>>
    BY <1>4, <1>t DEF FallsBack, HandRec
  <2>2. task' = task /\ queue' = queue
    BY <1>4 DEF FallsBack, lists
  <2> QED
    BY <2>1, <2>2 DEF StagesLast, StagesNone
<1>5. CASE Raises(t, i)
  <2>1. hand'[t].staged = hand[t].staged \/ hand'[t].staged = <<>>
    BY <1>5, <1>t DEF Raises, HandRec
  <2> QED
    BY <2>1 DEF StagesNone
<1> QED
  BY <1>3, <1>4, <1>5 DEF At

(* Before its first try, a task is in one place.                            *)
LEMMA OnlyPlace ==
    ASSUME Counted, Tried, NEW v \in Tasks, v \in Writes, tries[v] = 0
    PROVE  /\ queue[v] <= 1
           /\ \A t \in Threads : \A i \in hand[t].left : hand[t].batch[i] = v =>
                 /\ ~Queued(v)
                 /\ \A s \in Threads : \A j \in hand[s].left :
                       hand[s].batch[j] = v => s = t /\ j = i
<1>s. Types /\ HandsSound
  BY DEF Counted, Sound
<1>1. IsFiniteSet(ToRun(v)) /\ tries[v] + queue[v] + Cardinality(ToRun(v)) + Entered(v) <= Allowed(v)
  BY DEF Counted, TriesCounted
<1>2. Allowed(v) = 1
  BY DEF Tried, Allowed
<1>3. Entered(v) \in Nat /\ queue[v] \in Nat /\ Cardinality(ToRun(v)) \in Nat
  BY <1>1, <1>s, FS_CardinalityType DEF Entered, Types
<1>4. queue[v] + Cardinality(ToRun(v)) <= 1
  BY <1>1, <1>2, <1>3
<1>5. ASSUME NEW t \in Threads, NEW i \in hand[t].left, hand[t].batch[i] = v
      PROVE  <<t, i>> \in ToRun(v)
  <2>1. i \in Open(t)
    BY <1>5 DEF Tried
  <2>2. i \in 1 .. BatchSize
    BY <1>s, InBatch
  <2> QED
    BY <1>5, <2>1, <2>2 DEF ToRun
<1>6. ASSUME NEW r \in ToRun(v) PROVE queue[v] = 0 /\ \A q \in ToRun(v) : q = r
  <2>1. IsFiniteSet(ToRun(v) \ {r}) /\ Cardinality(ToRun(v) \ {r}) = Cardinality(ToRun(v)) - 1
    BY <1>1, FS_RemoveElement
  <2>2. Cardinality(ToRun(v) \ {r}) \in Nat
    BY <2>1, FS_CardinalityType
  <2>3. Cardinality(ToRun(v) \ {r}) = 0 /\ queue[v] = 0
    BY <1>3, <1>4, <2>1, <2>2
  <2>4. ToRun(v) \ {r} = {}
    BY <2>1, <2>3, FS_EmptySet
  <2> QED
    BY <2>3, <2>4
<1>7. ASSUME NEW t \in Threads, NEW i \in hand[t].left, hand[t].batch[i] = v,
             NEW s \in Threads, NEW j \in hand[s].left, hand[s].batch[j] = v
      PROVE  s = t /\ j = i
  <2>1. <<t, i>> \in ToRun(v) /\ <<s, j>> \in ToRun(v)
    BY <1>5, <1>7
  <2>2. <<s, j>> = <<t, i>>
    BY <1>6, <2>1
  <2> QED
    BY <2>2
<1>8. ASSUME NEW t \in Threads, NEW i \in hand[t].left, hand[t].batch[i] = v
      PROVE  ~Queued(v)
  <2>1. queue[v] = 0
    BY <1>5, <1>6, <1>8
  <2> QED
    BY <2>1 DEF Queued
<1> QED
  BY <1>3, <1>4, <1>7, <1>8

(* What is in a session has been tried.                                     *)
LEMMA SessionTried ==
    ASSUME Sound, Tried, NEW t \in Threads, SessionOwn(t), NEW v, InSession(t, v)
    PROVE  v \in Writes /\ tries[v] > 0
<1>s. Types /\ HandsSound /\ HandSound(t)
  BY DEF Sound, HandsSound
<1>1. PICK n \in 1 .. Len(hand[t].staged) : hand[t].staged[n].task = v
  BY DEF InSession
<1>2. hand[t] \in HandRec
  BY <1>s DEF Types
<1>3. hand[t].staged \in Seq(Effect)
  BY <1>2 DEF HandRec
<1>4. hand[t].staged[n] \in Effect
  BY <1>1, <1>3
<1>5. v \in Writes
  BY <1>1, <1>4 DEF Effect
<1>6. hand[t].staged # <<>>
  BY <1>1, <1>3
<1>7. hand[t].pc = "exec"
  BY <1>6, <1>s DEF HandSound
<1>8. PICK i \in hand[t].seen : hand[t].batch[i] = v
  BY <1>1 DEF SessionOwn
<1>9. i \in hand[t].left \ Open(t)
  BY <1>7, <1>8, <1>s, GroupInHand DEF HandSound, Open
<1> QED
  BY <1>5, <1>8, <1>9 DEF Tried

-----------------------------------------------------------------------------
(* Most steps neither try a task nor bring one to a place it has not had:   *)
(* but for tasks whose first try is lost they leave everything in its order. *)
Loose(v) == tries[v] > 0 /\ \A t \in Threads : ~Ahead(t, v)
Fixed(v) ==
    task'[v].by = task[v].by /\ task'[v].model = task[v].model /\ task'[v].prio = task[v].prio

HandCalm(t) ==
    \/ hand'[t].staged = <<>>
    \/ /\ hand'[t].staged = hand[t].staged /\ hand'[t].batch = hand[t].batch
       /\ hand[t].seen \subseteq hand'[t].seen
QueueCalm == \A v \in Writes : queue'[v] > 0 => Queued(v) \/ Loose(v)
TasksCalm ==
    /\ \A v \in Tasks : Fixed(v) \/ Loose(v)
    /\ \A v \in Tasks' : \/ task'[v].retry = 0
                         \/ v \in Tasks /\ task'[v].retry = task[v].retry
                         \/ tries[v] > 0
Calm ==
    /\ tries' = tries
    /\ TasksStay
    /\ \A t \in Threads : Shrink(t) /\ HandCalm(t)
    /\ QueueCalm
    /\ TasksCalm

LEMMA SameHandsCalm ==
    ASSUME hand' = hand
    PROVE  \A t \in Threads : HandCalm(t)
  BY DEF HandCalm

LEMMA ElsewhereCalm ==
    ASSUME NEW t \in Threads, Elsewhere(t), HandCalm(t)
    PROVE  \A s \in Threads : HandCalm(s)
  BY DEF Elsewhere, HandCalm

LEMMA SameTasksCalm ==
    ASSUME task' = task
    PROVE  TasksCalm
<1>1. Tasks' = Tasks
  BY UnchangedStay
<1> QED
  BY <1>1 DEF TasksCalm, Fixed

LEMMA SameQueueCalm ==
    ASSUME queue' = queue
    PROVE  QueueCalm
  BY DEF QueueCalm, Queued

LEMMA RetriedLoose ==
    ASSUME Sound, Tried, Settled, NEW t \in Threads, NEW i \in Coming(t),
           hand[t].pc = "retry", NEW w, w = hand[t].batch[i]
    PROVE  w \in Writes /\ w \in Tasks /\ Loose(w)
<1>s. Types /\ HandsSound
  BY DEF Sound
<1>1. i \in hand[t].left /\ i \in Group(t) /\ i \notin hand[t].seen
  BY GroupInHand DEF Coming
<1>2. w \in Writes /\ w \in Tasks
  BY <1>1, <1>s, InBatch
<1>3. tries[w] > 0
  BY <1>1 DEF Tried, Open
<1>4. ASSUME NEW s \in Threads, tries[w] = 1 PROVE ~Committed(s, w) /\ ~InSession(s, w)
  BY <1>1, <1>2, <1>4 DEF Settled, Nowhere, OnlySeen
<1> QED
  BY <1>2, <1>3, <1>4 DEF Loose, Ahead

LEMMA CalmSteps ==
    ASSUME Sound, Next, AllOrdered
    PROVE  \/ Calm /\ applied' = applied
           \/ \E t \in Threads : Commit(t) /\ Calm
           \/ \E p \in Producers : Push(p) /\ ~Full
           \/ \E t \in Threads : Pop(t)
           \/ \E t \in Threads : \E i \in Coming(t) : At(t, i)
<1> DEFINE Done == \/ Calm /\ applied' = applied
                   \/ \E t \in Threads : Commit(t) /\ Calm
                   \/ \E p \in Producers : Push(p) /\ ~Full
                   \/ \E t \in Threads : Pop(t)
                   \/ \E t \in Threads : \E i \in Coming(t) : At(t, i)
<1>s. Types /\ TasksKnown /\ HandsSound /\ SubmitsApart /\ Tried /\ Settled
  BY DEF Sound, AllOrdered
<1>a. (\E t \in Threads : Pop(t)) => Done
  OBVIOUS
<1>b. (\E t \in Threads : \E i \in Coming(t) : At(t, i)) => Done
  OBVIOUS
<1>c. ASSUME Calm, applied' = applied PROVE Done
  BY <1>c
<1>d. ASSUME NEW t \in Threads, Commit(t), Calm PROVE Done
  BY <1>d
<1>e. ASSUME NEW p \in Producers, Push(p), ~Full PROVE Done
  BY <1>e
<1> SUFFICES Done
  OBVIOUS
<1> HIDE DEF Done
<1> SUFFICES ASSUME ~\E t \in Threads : Pop(t) PROVE Done
  BY <1>a
<1>g. TasksStay /\ \A t \in Threads : Shrink(t)
  BY StepsStay, HandsShrink
<1>f. ASSUME tries' = tries, \A t \in Threads : HandCalm(t), QueueCalm, TasksCalm PROVE Calm
  BY <1>f, <1>g DEF Calm
<1>1. ASSUME NEW p \in Producers, Submit(p), NEW w, w = Len(task) + 1 PROVE Done
  <2>1. /\ Tasks' = Tasks \cup {w} /\ \A v \in Tasks : task'[v] = task[v]
        /\ task'[w].retry = 0
        /\ UNCHANGED <<queue, hand, tries, applied>>
    BY <1>1, <1>s, SubmitIs
  <2>2. TasksCalm
    BY <2>1 DEF TasksCalm, Fixed
  <2> QED
    BY <1>c, <1>f, <2>1, <2>2, SameHandsCalm, SameQueueCalm
<1>2. ASSUME NEW p \in Producers, Merge(p), NEW old, old = cache[prod[p].key] PROVE Done
  <2>1. /\ Tasks' = Tasks /\ Others(old) /\ task'[old].retry = 0
        /\ task'[old].model = task[old].model
        /\ task'[old].by = task[old].by /\ task'[old].prio = task[old].prio
        /\ UNCHANGED <<queue, hand, tries, applied>>
    BY ZenonT(60), <1>2, MergeIs
  <2>2. TasksCalm
    BY <2>1 DEF TasksCalm, Fixed, Others
  <2> QED
    BY <1>c, <1>f, <2>1, <2>2, SameHandsCalm, SameQueueCalm
<1>3. ASSUME NEW p \in Producers, Remember(p) PROVE Done
  <2>1. UNCHANGED <<task, queue, hand, tries, applied>>
    BY <1>3 DEF Remember, history
  <2> QED
    BY <1>c, <1>f, <2>1, SameHandsCalm, SameQueueCalm, SameTasksCalm
<1>4. ASSUME NEW p \in Producers, Push(p) PROVE Done
  <2>1. CASE Full
    <3>1. UNCHANGED <<task, queue, hand, tries, applied>>
      BY <1>4, <2>1 DEF Push
    <3> QED
      BY <1>c, <1>f, <3>1, SameHandsCalm, SameQueueCalm, SameTasksCalm
  <2> QED
    BY <1>e, <1>4, <2>1
<1>5. ASSUME NEW t \in Threads, Wait(t) PROVE Done
  <2>1. UNCHANGED <<task, queue, hand, tries, applied>>
    BY <1>5 DEF Wait, lists, history
  <2> QED
    BY <1>c, <1>f, <2>1, SameHandsCalm, SameQueueCalm, SameTasksCalm
<1>6. ASSUME NEW t \in Threads, Take(t) PROVE Done
  <2>1. /\ Elsewhere(t) /\ hand'[t].batch = hand[t].batch /\ hand'[t].seen = hand[t].seen
        /\ hand'[t].staged = hand[t].staged /\ UNCHANGED <<task, queue, tries, applied>>
    BY <1>6, <1>s, TakeIs
  <2>2. HandCalm(t)
    BY <2>1 DEF HandCalm
  <2> QED
    BY <1>c, <1>f, <2>1, <2>2, ElsewhereCalm, SameQueueCalm, SameTasksCalm
<1>7. ASSUME NEW t \in Threads, Leave(t) PROVE Done
  <2>1. /\ Elsewhere(t) /\ hand'[t] = Off /\ UNCHANGED <<task, queue, tries, applied>>
    BY <1>7, <1>s, LeaveIs
  <2>2. HandCalm(t)
    BY <2>1 DEF HandCalm, Off
  <2> QED
    BY <1>c, <1>f, <2>1, <2>2, ElsewhereCalm, SameQueueCalm, SameTasksCalm
<1>n. ASSUME NEW t \in Threads, NextGroup(t) PROVE \A s \in Threads : HandCalm(s)
  <2>1. Elsewhere(t) /\ hand'[t].staged = <<>>
    BY <1>n, <1>s, NextGroupIs
  <2>2. HandCalm(t)
    BY <2>1 DEF HandCalm
  <2> QED
    BY <2>1, <2>2, ElsewhereCalm
<1>8. ASSUME NEW t \in Threads, NEW i \in Coming(t), RetryGroup(t, i),
             NEW w, w = hand[t].batch[i]
      PROVE  Done
  <2>1. /\ hand[t].pc = "retry" /\ SameButOf(w) /\ UNCHANGED <<applied, tries>>
        /\ queue' = queue \/ queue' = [queue EXCEPT ![w] = @ + 1]
        /\ \/ /\ Elsewhere(t) /\ hand'[t].batch = hand[t].batch
              /\ hand'[t].seen = hand[t].seen \cup {i} /\ hand'[t].staged = hand[t].staged
           \/ NextGroup(t)
    BY <1>8, <1>s, RetryOneTask
  <2>2. w \in Writes /\ w \in Tasks /\ Loose(w)
    BY <1>8, <1>s, <2>1, RetriedLoose
  <2>3. \A s \in Threads : HandCalm(s)
    <3>1. CASE NextGroup(t)
      BY <1>n, <3>1
    <3>2. CASE ~NextGroup(t)
      <4>1. Elsewhere(t) /\ HandCalm(t)
        BY <2>1, <3>2 DEF HandCalm
      <4> QED
        BY <4>1, ElsewhereCalm
    <3> QED
      BY <3>1, <3>2
  <2>4. QueueCalm
    <3>1. queue \in [Writes -> Nat]
      BY <1>s DEF Types
    <3>2. ASSUME NEW v \in Writes, v # w PROVE queue'[v] = queue[v]
      BY <2>1, <3>1, <3>2
    <3> QED
      BY <2>2, <3>2 DEF QueueCalm, Queued
  <2>5. TasksCalm
    <3>1. Tasks' = Tasks
      BY <2>1, SameStay
    <3>2. tries[w] > 0
      BY <2>2 DEF Loose
    <3> QED
      BY <2>1, <2>2, <3>1, <3>2 DEF TasksCalm, SameButOf, Fixed
  <2> QED
    BY <1>c, <1>f, <2>1, <2>3, <2>4, <2>5
<1>9. ASSUME NEW t \in Threads, Commit(t) PROVE Done
  <2>1. NextGroup(t) /\ UNCHANGED <<task, queue, tries>>
    BY <1>9 DEF Commit, lists
  <2>2. Calm
    BY <1>f, <1>n, <2>1, SameQueueCalm, SameTasksCalm
  <2> QED
    BY <1>d, <1>9, <2>2
<1>10. ASSUME NEW t \in Threads, RejectGroup(t) PROVE Done
  <2>1. NextGroup(t) /\ UNCHANGED <<task, queue, tries, applied>>
    BY <1>10 DEF RejectGroup, lists
  <2> QED
    BY <1>c, <1>f, <1>n, <2>1, SameQueueCalm, SameTasksCalm
<1>11. ASSUME NEW t \in Threads, CommitFails(t) PROVE Done
  <2>1. Elsewhere(t) /\ hand'[t].staged = <<>> /\ UNCHANGED <<task, queue, tries, applied>>
    BY <1>11, <1>s, CommitFailsIs
  <2>2. HandCalm(t)
    BY <2>1 DEF HandCalm
  <2> QED
    BY <1>c, <1>f, <2>1, <2>2, ElsewhereCalm, SameQueueCalm, SameTasksCalm
<1>12. CASE Start
  <2>1. /\ \A t \in Threads : \/ hand'[t] = hand[t]
                              \/ hand[t].pc = "off" /\ hand'[t] = Ready
        /\ UNCHANGED <<task, queue, tries, applied>>
    BY <1>12, <1>s, StartIs
  <2>2. Ready.staged = <<>>
    BY DEF Ready, Off
  <2>3. \A t \in Threads : HandCalm(t)
    BY <2>1, <2>2 DEF HandCalm
  <2> QED
    BY <1>c, <1>f, <2>1, <2>3, SameQueueCalm, SameTasksCalm
<1>13. CASE Stop \/ Stopped
  <2>1. UNCHANGED <<task, queue, hand, tries, applied>>
    BY <1>13 DEF Stop, Stopped, lists, history
  <2> QED
    BY <1>c, <1>f, <2>1, SameHandsCalm, SameQueueCalm, SameTasksCalm
<1>14. CASE Clear
  <2>1. UNCHANGED <<task, hand, tries, applied>> /\ \A v \in Writes : queue'[v] = 0
    BY <1>14 DEF Clear
  <2>2. QueueCalm
    BY <2>1 DEF QueueCalm
  <2> QED
    BY <1>c, <1>f, <2>1, <2>2, SameHandsCalm, SameTasksCalm
<1> QED
  BY <1>a, <1>b, <1>1, <1>2, <1>3, <1>4, <1>5, <1>6, <1>7, <1>8, <1>9, <1>10, <1>11, <1>12, <1>13, <1>14
     DEF Next, ProducerStep, WorkerStep, At

LEMMA AppliedIn ==
    ASSUME Types, NEW n \in 1 .. Len(applied)
    PROVE  applied[n].task \in Writes /\ applied[n].worker \in Threads
<1>1. applied \in Seq(Effect)
  BY DEF Types
<1>2. applied[n] \in Effect
  BY <1>1
<1> QED
  BY <1>2 DEF Effect

LEMMA StagedIn ==
    ASSUME Types, NEW t \in Threads, NEW n \in 1 .. Len(hand[t].staged)
    PROVE  hand[t].staged[n].task \in Writes
<1>1. hand[t] \in HandRec
  BY DEF Types
<1>2. hand[t].staged \in Seq(Effect)
  BY <1>1 DEF HandRec
<1>3. hand[t].staged[n] \in Effect
  BY <1>2
<1> QED
  BY <1>3 DEF Effect

LEMMA TriedTask ==
    ASSUME TasksKnown, NEW v \in Writes, tries[v] > 0
    PROVE  v \in Tasks
  BY DEF TasksKnown

LEMMA NewTask ==
    ASSUME Types, HandsSound, NEW t \in Threads, NEW v, InHandNew(t, v)
    PROVE  v \in Tasks /\ v \in Writes /\ tries[v] = 0 /\ ~Loose(v)
  BY InBatch DEF InHandNew, Loose

LEMMA AheadTask ==
    ASSUME TasksKnown, NEW t \in Threads, NEW v \in Writes, Ahead(t, v)
    PROVE  v \in Tasks /\ tries[v] = 1 /\ ~Loose(v)
<1>1. tries[v] = 1
  BY DEF Ahead
<1>2. v \in Tasks
  BY <1>1, TriedTask
<1> QED
  BY <1>1, <1>2 DEF Loose

LEMMA AlikeCalm ==
    ASSUME TasksCalm, NEW v \in Tasks, NEW w \in Tasks, ~Loose(v), ~Loose(w), Alike(v, w)'
    PROVE  Alike(v, w)
<1>1. Fixed(v) /\ Fixed(w)
  BY DEF TasksCalm
<1> QED
  BY <1>1 DEF Alike, Fixed

(* Where nothing is tried or committed, sessions and the database keep      *)
(* their order, ...                                                         *)
LEMMA SameOrder ==
    ASSUME Sound, Next, AllOrdered, InOrder, tries' = tries, applied' = applied,
           TasksCalm, \A t \in Threads : HandCalm(t)
    PROVE  /\ Tried' /\ InOrder'
           /\ \A t \in Threads : SessionOwn(t)' /\ SessionOrder(t)'
<1>s. Types /\ TasksKnown /\ HandsSound /\ Tried
  BY DEF Sound, AllOrdered
<1>1. Tried'
  <2>1. \A t \in Threads : TriedIn(t)'
    BY <1>s, TriedInStep DEF Tried, TriedIn
  <2>2. \A v \in Tasks' : tries'[v] = 0 => task'[v].retry = 0
    BY <1>s DEF TasksCalm, Tried
  <2> QED
    BY <1>s, <2>1, <2>2 DEF Tried, TriedIn
<1>2. InOrder'
  <2>1. ASSUME NEW n \in 1 .. Len(applied), tries[applied[n].task] = 1
        PROVE  applied[n].task \in Tasks /\ ~Loose(applied[n].task)
    <3>1. PICK t \in Threads : t = applied[n].worker
      BY <1>s, AppliedIn
    <3>2. PICK v \in Writes : v = applied[n].task
      BY <1>s, AppliedIn
    <3>3. Ahead(t, v)
      BY <2>1, <3>1, <3>2 DEF Ahead, Committed
    <3> QED
      BY <1>s, <3>2, <3>3, AheadTask
  <2>2. ASSUME NEW n \in 1 .. Len(applied), tries[applied[n].task] = 1
        PROVE  Fixed(applied[n].task)
    BY <2>1, <2>2 DEF TasksCalm
  <2>3. DOMAIN applied = 1 .. Len(applied)
    BY <1>s DEF Types
  <2> QED
    BY <2>2, <2>3 DEF InOrder, Fixed
<1>3. ASSUME NEW t \in Threads PROVE SessionOwn(t)'
  <2>1. SessionOwn(t) /\ HandCalm(t)
    BY DEF AllOrdered
  <2>2. CASE hand'[t].staged = <<>>
    BY <2>2 DEF SessionOwn
  <2>3. CASE hand'[t].staged # <<>>
    BY <2>1, <2>3 DEF SessionOwn, HandCalm
  <2> QED
    BY <2>2, <2>3
<1>4. ASSUME NEW t \in Threads PROVE SessionOrder(t)'
  <2>1. SessionOrder(t) /\ HandCalm(t)
    BY DEF AllOrdered
  <2>2. CASE hand'[t].staged = <<>>
    BY <2>2 DEF SessionOrder, InSession
  <2>3. CASE hand'[t].staged # <<>>
    <3>1. hand'[t].staged = hand[t].staged
      BY <2>1, <2>3 DEF HandCalm
    <3>2. \A v : (InSession(t, v)' <=> InSession(t, v)) /\ (Committed(t, v)' <=> Committed(t, v))
      BY <3>1 DEF InSession, Committed
    <3>3. ASSUME NEW v \in Writes, NEW w \in Writes,
                 InSession(t, v) \/ Committed(t, v), InSession(t, w), tries[v] = 1, tries[w] = 1,
                 Alike(v, w)'
          PROVE  Alike(v, w)
      <4>1. Ahead(t, v) /\ Ahead(t, w)
        BY <3>3 DEF Ahead
      <4> QED
        BY <1>s, <3>3, <4>1, AheadTask, AlikeCalm
    <3>4. ASSUME NEW n \in 1 .. Len(hand[t].staged), NEW m \in 1 .. Len(hand[t].staged),
                 NEW v, NEW w, v = hand[t].staged[n].task, w = hand[t].staged[m].task,
                 n < m, tries[v] = 1, tries[w] = 1, Alike(v, w)'
          PROVE  v < w
      <4>1. v \in Writes /\ w \in Writes /\ InSession(t, v) /\ InSession(t, w)
        BY <1>s, <3>4, StagedIn DEF InSession
      <4>2. Alike(v, w)
        BY <3>3, <3>4, <4>1
      <4> QED
        BY <2>1, <3>4, <4>2 DEF SessionOrder
    <3>5. ASSUME NEW v \in Writes, NEW w \in Writes, Committed(t, v), InSession(t, w),
                 tries[v] = 1, tries[w] = 1, Alike(v, w)'
          PROVE  v < w
      BY <2>1, <3>3, <3>5 DEF SessionOrder
    <3> QED
      BY <3>1, <3>2, <3>4, <3>5 DEF SessionOrder
  <2> QED
    BY <2>2, <2>3
<1> QED
  BY <1>1, <1>2, <1>3, <1>4

(* ... and so do hands and the queue, where nothing comes into them.        *)
AheadStays == \A t \in Threads, v \in Writes : Ahead(t, v)' => Ahead(t, v)

LEMMA SameAhead ==
    ASSUME tries' = tries, applied' = applied, \A t \in Threads : HandCalm(t)
    PROVE  AheadStays
<1>1. ASSUME NEW t \in Threads, NEW v, InSession(t, v)' PROVE InSession(t, v)
  BY <1>1 DEF InSession, HandCalm
<1> QED
  BY <1>1 DEF AheadStays, Ahead, Committed

LEMMA CalmOrder ==
    ASSUME Sound, Calm, AheadStays, NEW t \in Threads, HandOrder(t), QueueOrder(t)
    PROVE  HandOrder(t)' /\ QueueOrder(t)'
<1>s. Types /\ TasksKnown /\ HandsSound /\ Shrink(t) /\ TasksCalm /\ QueueCalm /\ tries' = tries
  BY DEF Sound, Calm
<1>1. ASSUME NEW w, InHandNew(t, w)' PROVE InHandNew(t, w)
  BY <1>1, <1>s DEF InHandNew, Shrink
<1>2. ASSUME NEW w \in Writes, Queued(w)', tries[w] = 0 PROVE Queued(w)
  BY <1>2, <1>s DEF QueueCalm, Loose, Queued
<1>3. HandOrder(t)'
  <2>1. ASSUME NEW v \in Writes, NEW w \in Writes, Ahead(t, v)', InHandNew(t, w)', Alike(v, w)'
        PROVE  v < w
    <3>1. Ahead(t, v) /\ InHandNew(t, w)
      BY <1>1, <2>1 DEF AheadStays
    <3>2. Alike(v, w)
      BY <1>s, <2>1, <3>1, AheadTask, NewTask, AlikeCalm
    <3> QED
      BY <3>1, <3>2 DEF HandOrder
  <2>2. ASSUME NEW i \in hand'[t].left, NEW j \in hand'[t].left,
               NEW v, NEW w, v = hand'[t].batch[i], w = hand'[t].batch[j],
               i < j, tries[v] = 0, tries[w] = 0, Alike(v, w)'
        PROVE  v < w
    <3>1. /\ i \in hand[t].left /\ j \in hand[t].left
          /\ v = hand[t].batch[i] /\ w = hand[t].batch[j]
      BY <1>s, <2>2 DEF Shrink
    <3>2. InHandNew(t, v) /\ InHandNew(t, w)
      BY <2>2, <3>1 DEF InHandNew
    <3>3. Alike(v, w)
      BY <1>s, <2>2, <3>2, NewTask, AlikeCalm
    <3> QED
      BY <2>2, <3>1, <3>3 DEF HandOrder
  <2> QED
    BY <1>s, <2>1, <2>2 DEF HandOrder
<1>4. QueueOrder(t)'
  <2>1. ASSUME NEW v \in Writes, NEW w \in Writes, (Ahead(t, v) \/ InHandNew(t, v))',
               Queued(w)', tries[w] = 0, Alike(v, w)'
        PROVE  v < w
    <3>1. Ahead(t, v) \/ InHandNew(t, v)
      BY <1>1, <2>1 DEF AheadStays
    <3>2. v \in Tasks /\ ~Loose(v)
      BY <1>s, <3>1, AheadTask, NewTask
    <3>3. Queued(w)
      BY <1>2, <2>1
    <3>4. w \in Tasks /\ ~Loose(w)
      BY <1>s, <2>1, <3>3 DEF TasksKnown, Loose
    <3>5. Alike(v, w)
      BY <1>s, <2>1, <3>2, <3>4, AlikeCalm
    <3> QED
      BY <2>1, <3>1, <3>3, <3>5 DEF QueueOrder
  <2> QED
    BY <1>s, <2>1 DEF QueueOrder
<1> QED
  BY <1>3, <1>4

(* AllOrdered but NewestCalled, and InOrder, is kept by calm steps, ...     *)
Placed ==
    /\ Tried /\ Settled /\ InOrder
    /\ \A t \in Threads :
          SessionOwn(t) /\ SessionOrder(t) /\ HandOrder(t) /\ QueueOrder(t)

LEMMA SettledCalm ==
    ASSUME Sound, Calm, Settled, NEW t \in Threads, NEW v \in Writes, tries[v] = 1
    PROVE  /\ Committed(t, v) => Nowhere(v)'
           /\ InSession(t, v) /\ hand'[t].staged # <<>> => OnlySeen(t, v)'
<1>s. TasksKnown /\ QueueCalm /\ HandCalm(t) /\ \A s \in Threads : Shrink(s)
  BY DEF Sound, Calm
<1>1. ASSUME Ahead(t, v) PROVE ~Queued(v)'
  <2>1. ~Queued(v) /\ ~Loose(v)
    BY <1>1, <1>s, AheadTask DEF Settled, Ahead, Nowhere, OnlySeen
  <2> QED
    BY <1>s, <2>1 DEF QueueCalm, Queued
<1>2. ASSUME Committed(t, v) PROVE Nowhere(v)'
  <2>1. Nowhere(v) /\ ~Queued(v)'
    BY <1>1, <1>2 DEF Settled, Ahead
  <2> QED
    BY <1>s, <2>1 DEF Nowhere, Shrink
<1>3. ASSUME InSession(t, v), hand'[t].staged # <<>> PROVE OnlySeen(t, v)'
  <2>1. OnlySeen(t, v) /\ ~Queued(v)'
    BY <1>1, <1>3 DEF Settled, Ahead
  <2>2. hand[t].seen \subseteq hand'[t].seen
    BY <1>3, <1>s DEF HandCalm
  <2> QED
    BY <1>s, <2>1, <2>2 DEF OnlySeen, Shrink
<1> QED
  BY <1>2, <1>3

LEMMA CalmPlaced ==
    ASSUME Sound, Next, AllOrdered, InOrder, Calm, applied' = applied
    PROVE  Placed'
<1>s. tries' = tries /\ TasksCalm /\ Settled /\ \A t \in Threads : HandCalm(t)
  BY DEF Calm, AllOrdered
<1>1. AheadStays
  BY <1>s, SameAhead
<1>2. ASSUME NEW t \in Threads PROVE HandOrder(t)' /\ QueueOrder(t)'
  BY <1>1, CalmOrder DEF AllOrdered
<1>3. Settled'
  <2>1. ASSUME NEW t \in Threads, NEW v \in Writes, tries[v] = 1, Committed(t, v)'
        PROVE  Nowhere(v)'
    <3>1. Committed(t, v)
      BY <2>1 DEF Committed
    <3> QED
      BY <1>s, <2>1, <3>1, SettledCalm
  <2>2. ASSUME NEW t \in Threads, NEW v \in Writes, tries[v] = 1, InSession(t, v)'
        PROVE  OnlySeen(t, v)'
    <3>1. hand'[t].staged # <<>>
      BY <2>2 DEF InSession
    <3>2. hand'[t].staged = hand[t].staged
      BY <1>s, <3>1 DEF HandCalm
    <3>3. InSession(t, v)
      BY <2>2, <3>2 DEF InSession
    <3> QED
      BY <1>s, <2>2, <3>1, <3>3, SettledCalm
  <2> QED
    BY <1>s, <2>1, <2>2 DEF Settled
<1>4. Tried' /\ InOrder' /\ \A t \in Threads : SessionOwn(t)' /\ SessionOrder(t)'
  BY <1>s, SameOrder
<1> QED
  BY <1>2, <1>3, <1>4 DEF Placed

(* ... by a commit, ...                                                     *)
LEMMA CommitPlaced ==
    ASSUME Sound, Next, AllOrdered, InOrder, Calm, NEW t \in Threads, Commit(t)
    PROVE  Placed'
<1>s. /\ Types /\ TasksKnown /\ HandsSound /\ Tried /\ Settled
      /\ tries' = tries /\ TasksCalm /\ \A s \in Threads : HandCalm(s)
      /\ SessionOwn(t) /\ SessionOrder(t)
  BY DEF Sound, Calm, AllOrdered
<1>c. applied' = applied \o hand[t].staged /\ NextGroup(t) /\ task' = task /\ queue' = queue
  BY DEF Commit, lists
<1>h. /\ Elsewhere(t) /\ hand'[t].staged = <<>> /\ hand'[t].left = hand[t].left \ Group(t)
      /\ hand'[t].left = {} \/ hand'[t].batch = hand[t].batch
  BY <1>c, <1>s, NextGroupIs
<1>l. applied \in Seq(Effect) /\ hand[t].staged \in Seq(Effect)
  <2>1. hand[t] \in HandRec
    BY <1>s DEF Types
  <2> QED
    BY <1>s, <2>1 DEF Types, HandRec
<1>a. ASSUME NEW n \in 1 .. Len(applied')
      PROVE  \/ n \in 1 .. Len(applied) /\ applied'[n] = applied[n]
             \/ \E m \in 1 .. Len(hand[t].staged) :
                   n = Len(applied) + m /\ applied'[n] = hand[t].staged[m]
  <2>1. CASE n <= Len(applied)
    BY <1>c, <1>l, <2>1
  <2>2. CASE n > Len(applied)
    <3>1. n - Len(applied) \in 1 .. Len(hand[t].staged)
      BY <1>c, <1>l, <2>2
    <3>2. applied'[n] = hand[t].staged[n - Len(applied)]
      BY <1>c, <1>l, <2>2
    <3>3. n = Len(applied) + (n - Len(applied))
      BY <1>l
    <3> QED
      BY <3>1, <3>2, <3>3
  <2> QED
    BY <1>l, <2>1, <2>2
<1>1. ASSUME NEW s \in Threads, NEW v, Committed(s, v)'
      PROVE  Committed(s, v) \/ (s = t /\ InSession(t, v))
  <2>1. PICK n \in 1 .. Len(applied') : applied'[n].worker = s /\ applied'[n].task = v
    BY <1>1 DEF Committed
  <2>2. CASE n \in 1 .. Len(applied) /\ applied'[n] = applied[n]
    BY <2>1, <2>2 DEF Committed
  <2>3. CASE \E m \in 1 .. Len(hand[t].staged) :
                n = Len(applied) + m /\ applied'[n] = hand[t].staged[m]
    BY <1>s, <2>1, <2>3 DEF InSession, SessionOwn
  <2> QED
    BY <1>a, <2>2, <2>3
<1>2. ASSUME NEW s \in Threads, NEW v, InSession(s, v)' PROVE s # t /\ InSession(s, v)
  BY <1>2, <1>h DEF InSession, Elsewhere
<1>3. AheadStays
  BY <1>1, <1>2, <1>s DEF AheadStays, Ahead
<1>4. ASSUME NEW s \in Threads PROVE HandOrder(s)' /\ QueueOrder(s)'
  BY <1>3, CalmOrder DEF AllOrdered
<1>5. Settled'
  <2>1. ASSUME NEW s \in Threads, NEW v \in Writes, tries[v] = 1, Committed(s, v)'
        PROVE  Nowhere(v)'
    <3>1. CASE Committed(s, v)
      BY <1>s, <2>1, <3>1, SettledCalm
    <3>2. CASE InSession(t, v)
      <4>1. OnlySeen(t, v)
        BY <1>s, <2>1, <3>2 DEF Settled
      <4>2. hand[t].seen \subseteq Group(t)
        BY <1>s DEF HandsSound, HandSound
      <4>3. ASSUME NEW r \in Threads, NEW i \in hand'[r].left, hand'[r].batch[i] = v
            PROVE  FALSE
        <5>1. CASE r = t
          <6>1. i \in hand[t].left /\ i \notin Group(t) /\ hand[t].batch[i] = v
            BY <1>h, <4>3, <5>1
          <6> QED
            BY <4>1, <4>2, <6>1 DEF OnlySeen
        <5>2. CASE r # t
          BY <1>h, <4>1, <4>3, <5>2 DEF OnlySeen, Elsewhere
        <5> QED
          BY <5>1, <5>2
      <4> QED
        BY <1>c, <4>1, <4>3 DEF Nowhere, OnlySeen, Queued
    <3> QED
      BY <1>1, <2>1, <3>1, <3>2
  <2>2. ASSUME NEW s \in Threads, NEW v \in Writes, tries[v] = 1, InSession(s, v)'
        PROVE  OnlySeen(s, v)'
    <3>1. hand'[s].staged # <<>>
      BY <2>2 DEF InSession
    <3> QED
      BY <1>2, <1>s, <2>2, <3>1, SettledCalm
  <2> QED
    BY <1>s, <2>1, <2>2 DEF Settled
<1>6. Tried'
  <2>1. \A s \in Threads : TriedIn(s)'
    BY <1>s, TriedInStep DEF Tried, TriedIn
  <2>2. \A v \in Tasks' : tries'[v] = 0 => task'[v].retry = 0
    BY <1>s DEF TasksCalm, Tried
  <2>3. ASSUME NEW m \in 1 .. Len(hand[t].staged) PROVE tries[hand[t].staged[m].task] > 0
    <3>1. PICK v : v = hand[t].staged[m].task
      OBVIOUS
    <3>2. InSession(t, v)
      BY <3>1 DEF InSession
    <3> QED
      BY <1>s, <3>1, <3>2, SessionTried
  <2>4. ASSUME NEW n \in 1 .. Len(applied') PROVE tries[applied'[n].task] > 0
    BY <1>a, <1>s, <2>3 DEF Tried
  <2> QED
    BY <1>s, <2>1, <2>2, <2>4 DEF Tried, TriedIn
<1>7. ASSUME NEW s \in Threads PROVE SessionOwn(s)' /\ SessionOrder(s)'
  <2>1. CASE s = t
    BY <1>h, <2>1 DEF SessionOwn, SessionOrder, InSession
  <2>2. CASE s # t
    <3>1. hand'[s] = hand[s] /\ \A v : Committed(s, v)' => Committed(s, v)
      BY <1>1, <1>h, <2>2 DEF Elsewhere
    <3>2. SessionOwn(s) /\ SessionOrder(s)
      BY DEF AllOrdered
    <3>3. \A v : InSession(s, v)' => InSession(s, v)
      BY <3>1 DEF InSession
    <3>4. SessionOwn(s)'
      BY <3>1, <3>2 DEF SessionOwn
    <3>5. SessionOrder(s)'
      BY <1>c, <1>s, <3>1, <3>2, <3>3 DEF SessionOrder, Alike
    <3> QED
      BY <3>4, <3>5
  <2> QED
    BY <2>1, <2>2
<1>8. InOrder'
  <2>1. ASSUME NEW i \in 1 .. Len(applied'), NEW j \in 1 .. Len(applied'), i < j,
               NEW v, NEW w, v = applied'[i].task, w = applied'[j].task,
               applied'[i].worker = applied'[j].worker,
               Alike(v, w), tries[v] = 1, tries[w] = 1
        PROVE  v < w
    <3>1. CASE j \in 1 .. Len(applied) /\ applied'[j] = applied[j]
      <4>1. i \in 1 .. Len(applied) /\ applied'[i] = applied[i]
        BY <1>a, <1>l, <2>1, <3>1
      <4>2. DOMAIN applied = 1 .. Len(applied)
        BY <1>l
      <4> QED
        BY <2>1, <3>1, <4>1, <4>2 DEF InOrder, Alike
    <3>2. ASSUME NEW m \in 1 .. Len(hand[t].staged), j = Len(applied) + m,
                 applied'[j] = hand[t].staged[m]
          PROVE  v < w
      <4>1. InSession(t, w) /\ w \in Writes /\ applied'[j].worker = t
        BY <1>s, <2>1, <3>2, StagedIn DEF InSession, SessionOwn
      <4>2. CASE i \in 1 .. Len(applied) /\ applied'[i] = applied[i]
        <5>1. Committed(t, v) /\ v \in Writes
          BY <1>s, <2>1, <4>1, <4>2, AppliedIn DEF Committed
        <5> QED
          BY <1>s, <2>1, <4>1, <5>1 DEF SessionOrder
      <4>3. ASSUME NEW k \in 1 .. Len(hand[t].staged), i = Len(applied) + k,
                   applied'[i] = hand[t].staged[k]
            PROVE  v < w
        <5>1. k < m
          BY <1>l, <2>1, <3>2, <4>3
        <5> QED
          BY <1>s, <2>1, <3>2, <4>3, <5>1 DEF SessionOrder
      <4> QED
        BY <1>a, <2>1, <4>2, <4>3
    <3> QED
      BY <1>a, <2>1, <3>1, <3>2
  <2>2. DOMAIN applied' = 1 .. Len(applied')
    BY <1>c, <1>l
  <2>3. ASSUME NEW i \in DOMAIN applied', NEW j \in DOMAIN applied', i < j,
               applied'[i].worker = applied'[j].worker,
               task[applied'[i].task].by = task[applied'[j].task].by,
               task[applied'[i].task].prio = task[applied'[j].task].prio,
               task[applied'[i].task].model = task[applied'[j].task].model,
               tries[applied'[i].task] = 1, tries[applied'[j].task] = 1
        PROVE  applied'[i].task < applied'[j].task
    <3>1. Alike(applied'[i].task, applied'[j].task)
      BY <2>3 DEF Alike
    <3> QED
      BY <2>1, <2>2, <2>3, <3>1
  <2> QED
    BY <1>c, <1>s, <2>3 DEF InOrder
<1> QED
  BY <1>4, <1>5, <1>6, <1>7, <1>8 DEF Placed

(* ... where submit enters its task, the newest of its producer, ...        *)
LEMMA PushPlaced ==
    ASSUME Sound, Next, AllOrdered, InOrder, NEW p \in Producers, Push(p), ~Full
    PROVE  Placed'
<1>s. Types /\ TasksKnown /\ HandsSound /\ Settled /\ NewestCalled
  BY DEF Sound, AllOrdered
<1>c. /\ prod[p].pc # "idle" /\ queue' = [queue EXCEPT ![prod[p].w] = @ + 1]
      /\ UNCHANGED <<task, hand, tries, applied>>
  BY DEF Push
<1>w. PICK w \in Writes : w = prod[p].w
  BY <1>c, ActiveOwn
<1>o. /\ w \in Tasks /\ tries[w] = 0
      /\ \A t \in Threads : \A i \in hand[t].left : hand[t].batch[i] # w
  BY <1>c, <1>w, ActiveOwn DEF Untouched
<1>q. \A v \in Writes : v # w => queue'[v] = queue[v]
  <2>1. queue \in [Writes -> Nat]
    BY <1>s DEF Types
  <2> QED
    BY <1>c, <1>w, <2>1
<1>n. \A v \in Tasks : task[v].by = task[w].by => v <= w
  BY <1>c, <1>s, <1>w DEF NewestCalled
<1>1. Tried' /\ InOrder' /\ \A t \in Threads : SessionOwn(t)' /\ SessionOrder(t)'
  BY <1>c, SameOrder, SameTasksCalm, SameHandsCalm
<1>2. \A t \in Threads, v \in Writes :
         /\ Committed(t, v)' <=> Committed(t, v)
         /\ InSession(t, v)' <=> InSession(t, v)
         /\ InHandNew(t, v)' <=> InHandNew(t, v)
         /\ Ahead(t, v)' <=> Ahead(t, v)
  BY <1>c DEF Committed, InSession, InHandNew, Ahead
<1>3. \A v, u : Alike(v, u)' <=> Alike(v, u)
  BY <1>c DEF Alike
<1>4. Settled'
  <2>1. ASSUME NEW t \in Threads, NEW v \in Writes, tries[v] = 1
        PROVE  /\ Committed(t, v) => Nowhere(v)'
               /\ InSession(t, v) => OnlySeen(t, v)'
    <3>1. queue'[v] = queue[v]
      BY <1>o, <1>q, <2>1
    <3> QED
      BY <1>c, <1>s, <2>1, <3>1 DEF Settled, Nowhere, OnlySeen, Queued
  <2> QED
    BY <1>2, <1>c, <2>1 DEF Settled
<1>5. ASSUME NEW t \in Threads PROVE HandOrder(t)'
  <2>1. HandOrder(t)
    BY DEF AllOrdered
  <2> QED
    BY <1>2, <1>3, <1>c, <2>1 DEF HandOrder
<1>6. ASSUME NEW t \in Threads PROVE QueueOrder(t)'
  <2>1. ASSUME NEW v \in Writes, NEW u \in Writes, Ahead(t, v) \/ InHandNew(t, v),
               Queued(u)', tries[u] = 0, Alike(v, u)
        PROVE  v < u
    <3>1. v \in Tasks
      BY <1>s, <2>1, AheadTask, NewTask
    <3>2. CASE u = w
      <4>1. v # w
        BY <1>o, <2>1 DEF Ahead, InHandNew
      <4>2. v <= w
        BY <1>n, <2>1, <3>1, <3>2 DEF Alike
      <4> QED
        BY <3>2, <4>1, <4>2 DEF Writes
    <3>3. CASE u # w
      <4>1. Queued(u)
        BY <1>q, <2>1, <3>3 DEF Queued
      <4> QED
        BY <2>1, <4>1 DEF AllOrdered, QueueOrder
    <3> QED
      BY <3>2, <3>3
  <2> QED
    BY <1>2, <1>3, <1>c, <2>1 DEF QueueOrder
<1> QED
  BY <1>1, <1>4, <1>5, <1>6 DEF Placed

(* ... and where a worker pops the first one, ...                           *)
LEMMA PopPlaced ==
    ASSUME Counted, Next, AllOrdered, InOrder, NEW t \in Threads, Pop(t)
    PROVE  Placed'
<1>s. Sound /\ Types /\ TasksKnown /\ HandsSound /\ Settled /\ Tried
  BY DEF Counted, Sound, AllOrdered
<1>w. PICK w \in Writes :
             /\ First(w) /\ queue[w] > 0
             /\ queue' = [queue EXCEPT ![w] = @ - 1]
             /\ cache' = Forgotten(w)
             /\ hand[t].pc = "get" /\ Len(hand[t].batch) < BatchSize
             /\ hand' \in [Threads -> HandRec] /\ Elsewhere(t)
             /\ hand'[t].pc = "get" /\ hand'[t].batch = Append(hand[t].batch, w)
             /\ hand'[t].left = hand[t].left \cup {Len(hand[t].batch) + 1}
             /\ hand'[t].seen = hand[t].seen /\ hand'[t].staged = hand[t].staged
             /\ holder' = t
             /\ UNCHANGED <<task, prod, running, joining, acked, told, applied, tries>>
  BY <1>s, PopIs
<1>k. Queued(w) /\ w \in Tasks
  BY <1>s, <1>w DEF Queued, TasksKnown
<1>q. queue \in [Writes -> Nat] /\ \A v \in Writes : queue'[v] > 0 => queue[v] > 0
  BY <1>s, <1>w DEF Types
<1>l. hand[t].batch \in Seq(Writes) /\ hand[t].left \subseteq 1 .. Len(hand[t].batch)
  <2>1. hand[t] \in HandRec
    BY <1>s DEF Types
  <2> QED
    BY <1>s, <2>1 DEF HandRec, HandsSound, HandSound
<1>p. ASSUME NEW s \in Threads, NEW i \in hand'[s].left
      PROVE  \/ i \in hand[s].left /\ hand'[s].batch[i] = hand[s].batch[i]
             \/ s = t /\ i = Len(hand[t].batch) + 1 /\ hand'[s].batch[i] = w
  BY <1>l, <1>w DEF Elsewhere
<1>e. hand[t].staged = <<>>
  BY <1>s, <1>w DEF HandsSound, HandSound
<1>1. Tried' /\ InOrder' /\ \A s \in Threads : SessionOwn(s)' /\ SessionOrder(s)'
  <2>1. HandCalm(t)
    BY <1>e, <1>w DEF HandCalm
  <2> QED
    BY <1>s, <1>w, <2>1, SameOrder, SameTasksCalm, ElsewhereCalm
<1>2. \A s \in Threads, v \in Writes :
         /\ Committed(s, v)' <=> Committed(s, v)
         /\ InSession(s, v)' <=> InSession(s, v)
         /\ Ahead(s, v)' <=> Ahead(s, v)
  <2>1. \A s \in Threads : hand'[s].staged = hand[s].staged
    BY <1>w DEF Elsewhere
  <2> QED
    BY <1>w, <2>1 DEF Committed, InSession, Ahead
<1>3. \A v, u : Alike(v, u)' <=> Alike(v, u)
  BY <1>w DEF Alike
<1>4. Settled'
  <2>1. ASSUME NEW s \in Threads, NEW v \in Writes, tries[v] = 1, Committed(s, v)
        PROVE  Nowhere(v)'
    <3>1. Nowhere(v)
      BY <1>s, <2>1 DEF Settled
    <3>2. v # w
      BY <1>k, <3>1 DEF Nowhere
    <3> QED
      BY <1>p, <1>q, <3>1, <3>2 DEF Nowhere, Queued
  <2>2. ASSUME NEW s \in Threads, NEW v \in Writes, tries[v] = 1, InSession(s, v)
        PROVE  OnlySeen(s, v)'
    <3>1. OnlySeen(s, v)
      BY <1>s, <2>2 DEF Settled
    <3>2. v # w
      BY <1>k, <3>1 DEF OnlySeen
    <3>3. hand'[s].seen = hand[s].seen
      BY <1>w DEF Elsewhere
    <3> QED
      BY <1>p, <1>q, <3>1, <3>2, <3>3 DEF OnlySeen, Queued
  <2> QED
    BY <1>2, <1>w, <2>1, <2>2 DEF Settled
<1>5. ASSUME NEW s \in Threads, NEW v, InHandNew(s, v)'
      PROVE  InHandNew(s, v) \/ (s = t /\ v = w /\ tries[w] = 0)
  BY <1>5, <1>p, <1>w DEF InHandNew
<1>6. ASSUME NEW s \in Threads PROVE HandOrder(s)'
  <2>1. HandOrder(s) /\ QueueOrder(s)
    BY DEF AllOrdered
  <2>2. ASSUME NEW v \in Writes, NEW u \in Writes, Ahead(s, v), InHandNew(s, u)', Alike(v, u)
        PROVE  v < u
    BY <1>5, <1>k, <2>1, <2>2 DEF HandOrder, QueueOrder
  <2>3. ASSUME NEW i \in hand'[s].left, NEW j \in hand'[s].left,
               NEW v, NEW u, v = hand'[s].batch[i], u = hand'[s].batch[j],
               i < j, tries[v] = 0, tries[u] = 0, Alike(v, u)
        PROVE  v < u
    <3>1. CASE j \in hand[s].left /\ hand'[s].batch[j] = hand[s].batch[j]
      <4>1. i \in hand[s].left /\ hand'[s].batch[i] = hand[s].batch[i]
        <5>1. s = t => j <= Len(hand[t].batch)
          BY <1>l, <3>1
        <5>2. ~(s = t /\ i = Len(hand[t].batch) + 1)
          BY <1>l, <2>3, <3>1, <5>1
        <5> QED
          BY <1>p, <5>2
      <4> QED
        BY <2>1, <2>3, <3>1, <4>1 DEF HandOrder
    <3>2. CASE s = t /\ j = Len(hand[t].batch) + 1 /\ hand'[s].batch[j] = w
      <4>1. i \in hand[s].left /\ hand'[s].batch[i] = hand[s].batch[i]
        BY <1>l, <1>p, <2>3, <3>2
      <4>2. InHandNew(s, v) /\ v \in Writes
        <5>1. InHandNew(s, v)
          BY <2>3, <4>1 DEF InHandNew
        <5> QED
          BY <1>s, <5>1, NewTask
      <4> QED
        BY <1>k, <2>1, <2>3, <3>2, <4>2 DEF QueueOrder
    <3> QED
      BY <1>p, <3>1, <3>2
  <2> QED
    BY <1>2, <1>3, <1>w, <2>2, <2>3 DEF HandOrder
<1>7. ASSUME NEW s \in Threads PROVE QueueOrder(s)'
  <2>1. QueueOrder(s)
    BY DEF AllOrdered
  <2>2. ASSUME NEW v \in Writes, NEW u \in Writes, Ahead(s, v) \/ InHandNew(s, v)',
               Queued(u)', tries[u] = 0, Alike(v, u)
        PROVE  v < u
    <3>1. Queued(u)
      BY <1>q, <2>2 DEF Queued
    <3>2. CASE Ahead(s, v) \/ InHandNew(s, v)
      BY <2>1, <2>2, <3>1, <3>2 DEF QueueOrder
    <3>3. CASE v = w /\ tries[w] = 0
      <4>1. queue[w] <= 1
        BY <1>k, <1>s, <3>3, OnlyPlace
      <4>2. queue'[w] = 0
        BY <1>q, <1>w, <4>1
      <4>3. u # w
        BY <2>2, <4>2 DEF Queued
      <4>4. Before(w, u)
        BY <1>w, <3>1 DEF First
      <4>5. task[w] \in TaskRec /\ task[w].prio = task[u].prio
        BY <1>k, <1>s, <2>2, <3>3 DEF Alike, Types, Tasks
      <4>6. w <= u
        BY <4>4, <4>5 DEF Before, TaskRec
      <4> QED
        BY <3>3, <4>3, <4>6 DEF Writes
    <3> QED
      BY <1>5, <2>2, <3>2, <3>3
  <2> QED
    BY <1>2, <1>3, <1>w, <2>2 DEF QueueOrder
<1> QED
  BY <1>1, <1>4, <1>6, <1>7 DEF Placed

(* ... and where a worker is at a task: what it stages at a first try has   *)
(* been in one place, its own, before everything alike in hand and queue.   *)
LEMMA FirstOfGroup ==
    ASSUME Types, HandsSound, Tried, NEW t \in Threads, NEW i \in Coming(t), At(t, i),
           hand[t].pc = "exec", NEW j \in hand[t].left, j # i,
           tries[hand[t].batch[j]] = 0, Model(t, j) = Model(t, i)
    PROVE  i < j
<1>1. j \notin hand[t].seen
  BY DEF Tried, Open
<1>2. i \in Group(t) /\ i \in hand[t].left
  BY GroupInHand
<1>3. j \in Coming(t)
  BY <1>1, <1>2 DEF Group, Coming
<1>4. i <= j
  BY <1>3 DEF At, Succeeds, FallsBack, Raises, IsNext
<1>5. i \in Nat /\ j \in Nat
  BY <1>2, InBatch
<1> QED
  BY <1>4, <1>5

LEMMA AtPlaced ==
    ASSUME Counted, Next, AllOrdered, InOrder, NEW t \in Threads, NEW i \in Coming(t),
           At(t, i), NEW w, w = hand[t].batch[i]
    PROVE  Placed'
<1>s. Sound /\ Types /\ TasksKnown /\ HandsSound /\ Settled /\ Tried
  BY DEF Counted, Sound, AllOrdered
<1>w. i \in hand[t].left /\ i \in Group(t) /\ w \in Writes /\ w \in Tasks
  BY <1>s, GroupInHand, InBatch
<1>a. /\ hand[t].pc = "exec" /\ Elsewhere(t)
      /\ hand'[t].batch = hand[t].batch /\ hand'[t].left = hand[t].left
      /\ hand'[t].seen = hand[t].seen \cup {i}
      /\ SameButOf(w) /\ tries' = [tries EXCEPT ![w] = @ + 1] /\ applied' = applied
      /\ queue' = queue \/ queue' = [queue EXCEPT ![w] = @ + 1]
  BY <1>s, AtOneTask
<1>b. StagesLast(t, w) \/ StagesNone(t)
  BY <1>s, AtStages
<1>t. /\ tries[w] \in Nat /\ tries'[w] = tries[w] + 1
      /\ \A v \in Writes : v # w => tries'[v] = tries[v]
  BY <1>a, <1>s, <1>w DEF Types
<1>q. \A v \in Writes : v # w => queue'[v] = queue[v]
  <2>1. queue \in [Writes -> Nat]
    BY <1>s DEF Types
  <2> QED
    BY <1>a, <2>1
<1>f. Tasks' = Tasks /\ \A v \in Tasks : v # w => task'[v] = task[v]
  <2>1. Tasks' = Tasks
    BY <1>a, SameStay
  <2> QED
    BY <1>a, <2>1 DEF SameButOf
<1>g. \A s \in Threads : /\ hand'[s].left = hand[s].left /\ hand'[s].batch = hand[s].batch
                         /\ hand[s].seen \subseteq hand'[s].seen
  BY <1>a DEF Elsewhere
<1>n. ASSUME tries[w] = 0, NEW s \in Threads PROVE ~Committed(s, w) /\ ~InSession(s, w)
  <2>1. ~Committed(s, w)
    BY <1>n, <1>s DEF Tried, Committed
  <2>2. SessionOwn(s)
    BY DEF AllOrdered
  <2> QED
    BY <1>n, <1>s, <2>1, <2>2, SessionTried
<1>p. ASSUME NEW n \in 1 .. Len(hand'[t].staged)
      PROVE  \/ n \in 1 .. Len(hand[t].staged) /\ hand'[t].staged[n] = hand[t].staged[n]
             \/ /\ StagesLast(t, w) /\ n = Len(hand'[t].staged)
                /\ hand'[t].staged[n].task = w /\ hand'[t].staged[n].worker = t
  <2>1. Staged(t, w).task = w /\ Staged(t, w).worker = t /\ Staged(t, w) \in Effect
    <3>1. task[w] \in TaskRec
      BY <1>s, <1>w, InBatch
    <3> QED
      BY <1>w, <3>1 DEF Staged, Effect, TaskRec
  <2>2. hand[t] \in HandRec
    BY <1>s DEF Types
  <2>3. hand[t].staged \in Seq(Effect)
    BY <2>2 DEF HandRec
  <2>4. CASE StagesNone(t)
    BY <2>3, <2>4 DEF StagesNone
  <2>5. CASE StagesLast(t, w)
    <3> DEFINE e == Staged(t, w)
    <3>1. e.task = w /\ e.worker = t /\ e \in Effect
      BY <2>1
    <3>2. hand'[t].staged = Append(hand[t].staged, e) \/ hand'[t].staged = <<e>>
      BY <2>5 DEF StagesLast
    <3> HIDE DEF e
    <3>3. \/ n \in 1 .. Len(hand[t].staged) /\ hand'[t].staged[n] = hand[t].staged[n]
          \/ n = Len(hand'[t].staged) /\ hand'[t].staged[n] = e
      <4>1. CASE hand'[t].staged = <<e>>
        BY <3>1, <4>1
      <4>2. CASE hand'[t].staged = Append(hand[t].staged, e)
        BY <2>3, <3>1, <4>2
      <4> QED
        BY <3>2, <4>1, <4>2
    <3> QED
      BY <2>5, <3>1, <3>3
  <2> QED
    BY <1>b, <2>4, <2>5
<1>i. ASSUME NEW s \in Threads, NEW v, InSession(s, v)'
      PROVE  InSession(s, v) \/ (s = t /\ v = w /\ StagesLast(t, w))
  <2>1. PICK n \in 1 .. Len(hand'[s].staged) : hand'[s].staged[n].task = v
    BY <1>i DEF InSession
  <2>2. CASE s = t
    BY <1>p, <2>1, <2>2 DEF InSession
  <2>3. CASE s # t
    BY <1>a, <2>1, <2>3 DEF InSession, Elsewhere
  <2> QED
    BY <2>2, <2>3
<1>c. \A s \in Threads, v \in Writes : Committed(s, v)' <=> Committed(s, v)
  BY <1>a DEF Committed
<1>h. ASSUME NEW s \in Threads, NEW v \in Writes, Ahead(s, v)'
      PROVE  \/ v # w /\ Ahead(s, v)
             \/ v = w /\ s = t /\ tries[w] = 0 /\ StagesLast(t, w)
  <2>1. tries'[v] = 1 /\ (Committed(s, v) \/ InSession(s, v)')
    BY <1>c, <1>h DEF Ahead
  <2>2. CASE v # w
    BY <1>i, <1>t, <2>1, <2>2 DEF Ahead
  <2>3. CASE v = w
    <3>1. tries[w] = 0
      BY <1>t, <2>1, <2>3
    <3> QED
      BY <1>i, <1>n, <2>1, <2>3, <3>1
  <2> QED
    BY <2>2, <2>3
<1>m. ASSUME NEW s \in Threads, NEW v, InHandNew(s, v)' PROVE InHandNew(s, v) /\ v # w
  <2>1. PICK j \in hand[s].left : hand[s].batch[j] = v /\ tries'[v] = 0
    BY <1>g, <1>m DEF InHandNew
  <2>2. v \in Writes /\ v # w
    BY <1>s, <1>t, <2>1, InBatch
  <2> QED
    BY <1>t, <2>1, <2>2 DEF InHandNew
<1>k. ASSUME NEW v \in Tasks, NEW u \in Tasks, u # w, v # w \/ StagesLast(t, w), Alike(v, u)'
      PROVE  Alike(v, u)
  <2>1. task'[u] = task[u]
    BY <1>f, <1>k
  <2>2. task'[v].by = task[v].by /\ task'[v].model = task[v].model /\ task'[v].prio = task[v].prio
    BY <1>a, <1>f, <1>k DEF StagesLast, SameButOf
  <2> QED
    BY <1>k, <2>1, <2>2 DEF Alike
<1>l. ASSUME NEW v \in Tasks, NEW u \in Tasks, v # w, StagesLast(t, w), Alike(v, u)'
      PROVE  Alike(v, u)
  <2>1. task'[v] = task[v]
    BY <1>f, <1>l
  <2>2. task'[u].by = task[u].by /\ task'[u].model = task[u].model /\ task'[u].prio = task[u].prio
    BY <1>a, <1>f, <1>l DEF StagesLast, SameButOf
  <2> QED
    BY <1>l, <2>1, <2>2 DEF Alike
<1>1. Tried'
  <2>1. \A s \in Threads : TriedIn(s)'
    BY <1>s, TriedInStep DEF Tried, TriedIn
  <2>2. ASSUME NEW v \in Tasks', tries'[v] = 0 PROVE task'[v].retry = 0
    <3>1. v \in Tasks /\ v \in Writes
      BY <1>f, <1>s DEF Types, Tasks, Writes
    <3>2. v # w /\ tries[v] = 0
      BY <1>t, <2>2, <3>1
    <3> QED
      BY <1>f, <1>s, <3>1, <3>2 DEF Tried
  <2>3. ASSUME NEW n \in 1 .. Len(applied) PROVE tries'[applied[n].task] > 0
    <3>1. applied[n].task \in Writes /\ tries[applied[n].task] > 0
      BY <1>s, AppliedIn DEF Tried
    <3> QED
      BY <1>t, <3>1
  <2> QED
    BY <1>a, <2>1, <2>2, <2>3 DEF Tried, TriedIn
<1>2. Settled'
  <2>1. ASSUME NEW s \in Threads, NEW v \in Writes, tries'[v] = 1, Committed(s, v)
        PROVE  Nowhere(v)'
    <3>1. v # w
      BY <1>n, <1>t, <2>1
    <3>2. Nowhere(v)
      BY <1>s, <1>t, <2>1, <3>1 DEF Settled
    <3> QED
      BY <1>g, <1>q, <3>1, <3>2 DEF Nowhere, Queued
  <2>2. ASSUME NEW s \in Threads, NEW v \in Writes, tries'[v] = 1, InSession(s, v)'
        PROVE  OnlySeen(s, v)'
    <3>1. CASE v # w
      <4>1. InSession(s, v) /\ tries[v] = 1
        BY <1>i, <1>t, <2>2, <3>1
      <4>2. OnlySeen(s, v)
        BY <1>s, <4>1 DEF Settled
      <4> QED
        BY <1>g, <1>q, <3>1, <4>2 DEF OnlySeen, Queued
    <3>2. CASE v = w
      <4>1. tries[w] = 0
        BY <1>t, <2>2, <3>2
      <4>2. s = t /\ StagesLast(t, w)
        BY <1>i, <1>n, <2>2, <3>2, <4>1
      <4>3. /\ ~Queued(w)
            /\ \A r \in Threads : \A j \in hand[r].left :
                  hand[r].batch[j] = w => r = t /\ j = i
        BY <1>s, <1>w, <4>1, OnlyPlace
      <4>4. ~Queued(w)'
        BY <4>2, <4>3 DEF StagesLast, Queued
      <4> QED
        BY <1>a, <1>g, <3>2, <4>2, <4>3, <4>4 DEF OnlySeen
    <3> QED
      BY <3>1, <3>2
  <2> QED
    BY <1>c, <2>1, <2>2 DEF Settled
<1>3. InOrder'
  <2>1. ASSUME NEW n \in 1 .. Len(applied), tries'[applied[n].task] = 1
        PROVE  tries[applied[n].task] = 1 /\ task'[applied[n].task] = task[applied[n].task]
    <3>1. PICK v \in Writes : v = applied[n].task
      BY <1>s, AppliedIn
    <3>2. PICK s \in Threads : s = applied[n].worker
      BY <1>s, AppliedIn
    <3>3. Committed(s, v)
      BY <3>1, <3>2 DEF Committed
    <3>4. v # w
      BY <1>n, <1>t, <2>1, <3>1, <3>3
    <3>5. tries[v] = 1
      BY <1>t, <2>1, <3>1, <3>4
    <3>6. v \in Tasks
      BY <1>s, <3>5, TriedTask
    <3> QED
      BY <1>f, <3>1, <3>4, <3>5, <3>6
  <2>2. DOMAIN applied = 1 .. Len(applied)
    BY <1>s DEF Types
  <2> QED
    BY <1>a, <2>1, <2>2 DEF InOrder
<1>4. ASSUME NEW s \in Threads PROVE SessionOwn(s)'
  <2>1. SessionOwn(s)
    BY DEF AllOrdered
  <2>2. CASE s = t
    <3>1. ASSUME NEW n \in 1 .. Len(hand'[t].staged)
          PROVE  /\ hand'[t].staged[n].worker = t
                 /\ \E j \in hand'[t].seen : hand'[t].batch[j] = hand'[t].staged[n].task
      BY <1>a, <1>p, <2>1, <2>2 DEF SessionOwn
    <3> QED
      BY <2>2, <3>1 DEF SessionOwn
  <2>3. CASE s # t
    BY <1>a, <2>1, <2>3 DEF SessionOwn, Elsewhere
  <2> QED
    BY <2>2, <2>3
<1>v. ASSUME NEW s \in Threads, NEW v \in Writes, Committed(s, v) \/ InSession(s, v),
             tries'[v] = 1
      PROVE  v # w /\ tries[v] = 1 /\ Ahead(s, v) /\ v \in Tasks
  <2>1. v # w
    BY <1>n, <1>t, <1>v
  <2>2. tries[v] = 1
    BY <1>t, <1>v, <2>1
  <2>3. v \in Tasks
    BY <1>s, <2>2, TriedTask
  <2> QED
    BY <1>v, <2>1, <2>2, <2>3 DEF Ahead
<1>y. ASSUME NEW v \in Writes, v \in Tasks, v # w, Ahead(t, v), StagesLast(t, w), tries'[w] = 1,
             Alike(v, w)'
      PROVE  v < w
  <2>1. Alike(v, w)
    BY <1>l, <1>w, <1>y
  <2>2. InHandNew(t, w)
    BY <1>t, <1>w, <1>y DEF InHandNew
  <2> QED
    BY <1>w, <1>y, <2>1, <2>2 DEF AllOrdered, HandOrder
<1>5. ASSUME NEW s \in Threads PROVE SessionOrder(s)'
  <2>1. SessionOrder(s)
    BY DEF AllOrdered
  <2>2. ASSUME NEW n \in 1 .. Len(hand'[s].staged), NEW m \in 1 .. Len(hand'[s].staged),
               NEW v, NEW u, v = hand'[s].staged[n].task, u = hand'[s].staged[m].task,
               n < m, tries'[v] = 1, tries'[u] = 1, Alike(v, u)'
        PROVE  v < u
    <3>1. ASSUME n \in 1 .. Len(hand[s].staged), hand'[s].staged[n] = hand[s].staged[n],
                 m \in 1 .. Len(hand[s].staged), hand'[s].staged[m] = hand[s].staged[m]
          PROVE  v < u
      <4>1. InSession(s, v) /\ InSession(s, u) /\ v \in Writes /\ u \in Writes
        BY <1>s, <2>2, <3>1, StagedIn DEF InSession
      <4>2. v # w /\ u # w /\ tries[v] = 1 /\ tries[u] = 1 /\ v \in Tasks /\ u \in Tasks
        BY <1>v, <2>2, <4>1
      <4>3. Alike(v, u)
        BY <1>k, <2>2, <4>2
      <4> QED
        BY <2>1, <2>2, <3>1, <4>2, <4>3 DEF SessionOrder
    <3>2. CASE s # t
      BY <1>a, <2>2, <3>1, <3>2 DEF Elsewhere
    <3>3. CASE s = t
      <4>1. n \in 1 .. Len(hand[t].staged) /\ hand'[t].staged[n] = hand[t].staged[n]
        <5>1. n # Len(hand'[t].staged)
          BY <2>2, <3>3
        <5> QED
          BY <1>p, <2>2, <3>3, <5>1
      <4>2. InSession(t, v) /\ v \in Writes
        BY <1>s, <2>2, <3>3, <4>1, StagedIn DEF InSession
      <4>3. CASE StagesLast(t, w) /\ u = w
        BY <1>v, <1>y, <2>2, <4>2, <4>3
      <4>4. CASE m \in 1 .. Len(hand[t].staged) /\ hand'[t].staged[m] = hand[t].staged[m]
        BY <3>1, <3>3, <4>1, <4>4
      <4> QED
        BY <1>p, <2>2, <3>3, <4>3, <4>4
    <3> QED
      BY <3>2, <3>3
  <2>3. ASSUME NEW v \in Writes, NEW u \in Writes, Committed(s, v), InSession(s, u)',
               tries'[v] = 1, tries'[u] = 1, Alike(v, u)'
        PROVE  v < u
    <3>1. v # w /\ tries[v] = 1 /\ Ahead(s, v) /\ v \in Tasks
      BY <1>v, <2>3
    <3>2. CASE InSession(s, u)
      <4>1. u # w /\ tries[u] = 1 /\ u \in Tasks
        BY <1>v, <2>3, <3>2
      <4>2. Alike(v, u)
        BY <1>k, <2>3, <3>1, <4>1
      <4> QED
        BY <2>1, <2>3, <3>1, <3>2, <4>1, <4>2 DEF SessionOrder
    <3>3. CASE s = t /\ u = w /\ StagesLast(t, w)
      BY <1>y, <2>3, <3>1, <3>3
    <3> QED
      BY <1>i, <2>3, <3>2, <3>3
  <2> QED
    BY <1>c, <2>2, <2>3 DEF SessionOrder
<1>6. ASSUME NEW s \in Threads PROVE HandOrder(s)'
  <2>1. HandOrder(s)
    BY DEF AllOrdered
  <2>2. ASSUME NEW j \in hand[s].left, NEW u, u = hand[s].batch[j], tries'[u] = 0
        PROVE  u # w /\ tries[u] = 0 /\ u \in Tasks /\ u \in Writes
    <3>1. u \in Tasks /\ u \in Writes
      BY <1>s, <2>2, InBatch
    <3> QED
      BY <1>t, <2>2, <3>1
  <2>3. ASSUME NEW v \in Writes, NEW u \in Writes, Ahead(s, v)', InHandNew(s, u)', Alike(v, u)'
        PROVE  v < u
    <3>1. PICK j \in hand[s].left : hand[s].batch[j] = u /\ tries'[u] = 0
      BY <1>g, <2>3 DEF InHandNew
    <3>2. u # w /\ tries[u] = 0 /\ u \in Tasks /\ InHandNew(s, u)
      BY <2>2, <3>1 DEF InHandNew
    <3>3. CASE v # w /\ Ahead(s, v)
      <4>1. v \in Tasks
        BY <1>s, <3>3, AheadTask
      <4>2. Alike(v, u)
        BY <1>k, <2>3, <3>2, <3>3, <4>1
      <4> QED
        BY <2>1, <3>2, <3>3, <4>2 DEF HandOrder
    <3>4. CASE v = w /\ s = t /\ tries[w] = 0 /\ StagesLast(t, w)
      <4>1. Alike(w, u)
        BY <1>k, <1>w, <2>3, <3>2, <3>4
      <4>2. Model(t, j) = Model(t, i) /\ j # i /\ tries[hand[t].batch[j]] = 0
        BY <3>1, <3>2, <3>4, <4>1 DEF Alike, Model
      <4>3. i < j
        BY <1>a, <1>s, <3>1, <3>4, <4>2, FirstOfGroup
      <4> QED
        BY <1>w, <2>1, <3>1, <3>2, <3>4, <4>1, <4>3 DEF HandOrder
    <3> QED
      BY <1>h, <2>3, <3>3, <3>4
  <2>4. ASSUME NEW n \in hand[s].left, NEW j \in hand[s].left,
               NEW v, NEW u, v = hand[s].batch[n], u = hand[s].batch[j],
               n < j, tries'[v] = 0, tries'[u] = 0, Alike(v, u)'
        PROVE  v < u
    <3>1. /\ v # w /\ tries[v] = 0 /\ v \in Tasks
          /\ u # w /\ tries[u] = 0 /\ u \in Tasks
      BY <2>2, <2>4
    <3>2. Alike(v, u)
      BY <1>k, <2>4, <3>1
    <3> QED
      BY <2>1, <2>4, <3>1, <3>2 DEF HandOrder
  <2> QED
    BY <1>g, <2>3, <2>4 DEF HandOrder
<1>7. ASSUME NEW s \in Threads PROVE QueueOrder(s)'
  <2>1. QueueOrder(s)
    BY DEF AllOrdered
  <2>2. ASSUME NEW v \in Writes, NEW u \in Writes, Ahead(s, v)' \/ InHandNew(s, v)',
               Queued(u)', tries'[u] = 0, Alike(v, u)'
        PROVE  v < u
    <3>1. u # w
      BY <1>t, <2>2
    <3>2. Queued(u) /\ tries[u] = 0
      BY <1>q, <1>t, <2>2, <3>1 DEF Queued
    <3>3. u \in Tasks
      BY <1>s, <3>2 DEF TasksKnown
    <3>4. CASE v # w /\ (Ahead(s, v) \/ InHandNew(s, v))
      <4>1. v \in Tasks
        BY <1>s, <3>4, AheadTask, NewTask
      <4>2. Alike(v, u)
        BY <1>k, <2>2, <3>1, <3>3, <3>4, <4>1
      <4> QED
        BY <2>1, <3>2, <3>4, <4>2 DEF QueueOrder
    <3>5. CASE v = w /\ s = t /\ tries[w] = 0 /\ StagesLast(t, w)
      <4>1. InHandNew(t, w)
        BY <1>w, <3>5 DEF InHandNew
      <4>2. Alike(v, u)
        BY <1>k, <1>w, <2>2, <3>1, <3>3, <3>5
      <4> QED
        BY <2>1, <3>2, <3>5, <4>1, <4>2 DEF QueueOrder
    <3> QED
      BY <1>h, <1>m, <2>2, <3>4, <3>5
  <2> QED
    BY <2>2 DEF QueueOrder
<1> QED
  BY <1>1, <1>2, <1>3, <1>4, <1>5, <1>6, <1>7 DEF Placed

(* NewestCalled is kept: a producer is in one call of submit at a time.     *)
LEMMA NewestIf ==
    ASSUME TasksStay, TasksKnown, NewestCalled, Tasks' = Tasks,
           \A p \in Producers : prod'[p].pc # "idle" =>
               prod[p].pc # "idle" /\ prod'[p].w = prod[p].w
    PROVE  NewestCalled'
  BY DEF TasksStay, TasksKnown, NewestCalled

LEMMA NewestStep ==
    ASSUME Sound, Next, NewestCalled
    PROVE  NewestCalled'
<1>s. Types /\ TasksKnown /\ HandsSound /\ SubmitsApart
  BY DEF Sound
<1>z. TasksStay
  BY StepsStay
<1>t. prod \in [Producers -> ProdRec]
  BY <1>s DEF Types
<1>r. AtRest.pc = "idle"
  BY DEF AtRest
<1>u. ASSUME task' = task, prod' = prod PROVE NewestCalled'
  BY <1>s, <1>u, <1>z, NewestIf, UnchangedStay
<1>1. ASSUME NEW p \in Producers, Submit(p), NEW w, w = Len(task) + 1 PROVE NewestCalled'
  <2>1. /\ Tasks' = Tasks \cup {w} /\ \A v \in Tasks : task'[v] = task[v]
        /\ task'[w].by = p /\ Enters(p, w)
    BY <1>1, <1>s, SubmitIs
  <2>2. prod'[p].w = w /\ \A q \in Producers : q # p => prod'[q] = prod[q]
    BY <1>t, <2>1 DEF Enters
  <2>3. \A v \in Tasks : v <= w
    BY <1>1, <1>s DEF Types, Tasks
  <2>4. w <= w
    BY <1>1, <1>s DEF Types
  <2>5. ASSUME NEW q \in Producers, prod'[q].pc # "idle", q # p
        PROVE  /\ task'[prod'[q].w].by = q
               /\ \A v \in Tasks' : task'[v].by = q => v <= prod'[q].w
    BY <1>s, <2>1, <2>2, <2>5 DEF NewestCalled, TasksKnown
  <2>6. /\ task'[prod'[p].w].by = p
        /\ \A v \in Tasks' : task'[v].by = p => v <= prod'[p].w
    BY <2>1, <2>2, <2>3, <2>4
  <2> QED
    BY <2>5, <2>6 DEF NewestCalled
<1>2. ASSUME NEW p \in Producers, Merge(p), NEW old, old = cache[prod[p].key]
      PROVE  NewestCalled'
  <2>1. Tasks' = Tasks /\ prod' = [prod EXCEPT ![p] = AtRest]
    BY ZenonT(60), <1>2, MergeIs
  <2> QED
    BY <1>r, <1>s, <1>t, <1>z, <2>1, NewestIf
<1>3. ASSUME NEW p \in Producers, Remember(p) PROVE NewestCalled'
  <2>1. /\ prod[p].pc = "merge" /\ prod' = [prod EXCEPT ![p].pc = "push"] /\ task' = task
    BY <1>3 DEF Remember
  <2>2. \A q \in Producers : prod'[q].pc # "idle" =>
               prod[q].pc # "idle" /\ prod'[q].w = prod[q].w
    BY <1>t, <2>1 DEF ProdRec
  <2> QED
    BY <1>s, <1>z, <2>1, <2>2, NewestIf, UnchangedStay
<1>4. ASSUME NEW p \in Producers, Push(p) PROVE NewestCalled'
  <2>1. prod' = [prod EXCEPT ![p] = AtRest] /\ task' = task
    BY <1>4 DEF Push
  <2> QED
    BY <1>r, <1>s, <1>t, <1>z, <2>1, NewestIf, UnchangedStay
<1>5. ASSUME NEW t \in Threads,
             \/ Pop(t) \/ Wait(t) \/ Take(t) \/ Leave(t)
             \/ Commit(t) \/ CommitFails(t) \/ RejectGroup(t)
      PROVE  NewestCalled'
  BY <1>5, <1>u DEF Pop, Wait, Take, Leave, Commit, CommitFails, RejectGroup
<1>6. ASSUME NEW t \in Threads, NEW i \in Coming(t), At(t, i) \/ RetryGroup(t, i),
             NEW w, w = hand[t].batch[i]
      PROVE  NewestCalled'
  <2>1. SameButOf(w) /\ prod' = prod
    BY <1>6, <1>s, AtOneTask, RetryOneTask
  <2> QED
    BY <1>s, <1>z, <2>1, NewestIf, SameStay
<1>7. CASE Start \/ Stop \/ Stopped
  BY <1>7, <1>u DEF Start, Stop, Stopped, lists
<1>8. CASE Clear
  <2>1. task' = task /\ \A p \in Producers : prod'[p] = AtRest \/ prod'[p] = prod[p]
    BY <1>8 DEF Clear
  <2> QED
    BY <1>r, <1>s, <1>z, <2>1, NewestIf, UnchangedStay
<1> QED
  BY <1>1, <1>2, <1>3, <1>4, <1>5, <1>6, <1>7, <1>8 DEF Next, ProducerStep, WorkerStep, At

(* AllOrdered and InOrder are kept, ...                                     *)
LEMMA OrderedStays ==
    ASSUME AllOrdered, InOrder, UNCHANGED vars
    PROVE  AllOrdered' /\ InOrder'
<1> USE DEF vars
<1>1. \A t \in Threads : Open(t)' = Open(t)
  BY DEF Open, Group, Model
<1>2. Tried'
  BY <1>1 DEF AllOrdered, Tried, Tasks
<1>3. \A t, v : /\ Committed(t, v)' <=> Committed(t, v)
                /\ InSession(t, v)' <=> InSession(t, v)
                /\ Ahead(t, v)' <=> Ahead(t, v)
                /\ InHandNew(t, v)' <=> InHandNew(t, v)
  BY DEF Committed, InSession, Ahead, InHandNew
<1>4. \A v, w : Alike(v, w)' <=> Alike(v, w)
  BY DEF Alike
<1>5. Settled'
  <2>1. \A t, v : (Nowhere(v)' <=> Nowhere(v)) /\ (OnlySeen(t, v)' <=> OnlySeen(t, v))
    BY DEF Nowhere, OnlySeen, Queued
  <2> QED
    BY <1>3, <2>1 DEF AllOrdered, Settled
<1>6. NewestCalled'
  BY DEF AllOrdered, NewestCalled, Tasks
<1>7. ASSUME NEW t \in Threads
      PROVE  SessionOwn(t)' /\ SessionOrder(t)' /\ HandOrder(t)' /\ QueueOrder(t)'
  <2>1. SessionOwn(t) /\ SessionOrder(t) /\ HandOrder(t) /\ QueueOrder(t)
    BY DEF AllOrdered
  <2>2. SessionOwn(t)'
    BY <2>1 DEF SessionOwn
  <2>3. SessionOrder(t)'
    BY <1>3, <1>4, <2>1 DEF SessionOrder
  <2>4. HandOrder(t)'
    BY <1>3, <1>4, <2>1 DEF HandOrder
  <2>5. QueueOrder(t)'
    BY <1>3, <1>4, <2>1 DEF QueueOrder, Queued
  <2> QED
    BY <2>2, <2>3, <2>4, <2>5
<1>8. InOrder'
  BY DEF InOrder
<1> QED
  BY <1>2, <1>5, <1>6, <1>7, <1>8 DEF AllOrdered

LEMMA OrderedStep ==
    ASSUME Counted /\ AllOrdered /\ InOrder, [Next]_vars
    PROVE  (Counted /\ AllOrdered /\ InOrder)'
<1>1. Counted'
  BY CountedStep
<1>2. CASE Next
  <2>s. Sound /\ NewestCalled
    BY DEF Counted, AllOrdered
  <2>1. NewestCalled'
    BY <1>2, <2>s, NewestStep
  <2>2. Placed'
    <3>1. ASSUME NEW t \in Threads, NEW i \in Coming(t), At(t, i) PROVE Placed'
      BY <1>2, <3>1, AtPlaced
    <3> QED
      BY <1>2, <2>s, <3>1, CalmSteps, CalmPlaced, CommitPlaced, PushPlaced, PopPlaced
  <2> QED
    BY <1>1, <2>1, <2>2 DEF Placed, AllOrdered
<1>3. CASE UNCHANGED vars
  BY <1>1, <1>3, OrderedStays
<1> QED
  BY <1>2, <1>3

(* ... and hold at first.                                                   *)
LEMMA InitOrdered ==
    ASSUME Init
    PROVE  AllOrdered /\ InOrder
<1>1. Tasks = {}
  BY DEF Init, Tasks
<1>2. \A t \in Threads : hand[t].staged = <<>> /\ hand[t].left = {}
  BY DEF Init, Off
<1>3. \A p \in Producers : prod[p].pc = "idle"
  BY DEF Init, AtRest
<1>4. applied = <<>> /\ \A v \in Writes : ~Queued(v)
  BY DEF Init, Queued
<1>5. \A t \in Threads, v \in Writes : ~Committed(t, v) /\ ~InSession(t, v) /\ ~InHandNew(t, v)
  BY <1>2, <1>4 DEF Committed, InSession, InHandNew
<1>6. Tried /\ Settled /\ NewestCalled
  BY <1>1, <1>2, <1>3, <1>4, <1>5 DEF Tried, Settled, NewestCalled
<1>7. ASSUME NEW t \in Threads
      PROVE  SessionOwn(t) /\ SessionOrder(t) /\ HandOrder(t) /\ QueueOrder(t)
  BY <1>2, <1>4, <1>5 DEF SessionOwn, SessionOrder, HandOrder, QueueOrder, Ahead
<1>8. InOrder
  BY <1>4 DEF InOrder
<1> QED
  BY <1>6, <1>7, <1>8 DEF AllOrdered

(* InOrder: the writes of a producer at one priority to one model that one  *)
(* worker commits at their first try take effect in the order they were     *)
(* submitted (db_write_queue.py:50), whatever the operations, the number of *)
(* workers, the faults and the limits.  The invariant is AllOrdered, which  *)
(* orders them through the queue, a batch and a session.                    *)
THEOREM Ordered == Spec => []InOrder
<1>1. Init => Counted /\ AllOrdered /\ InOrder
  BY InitCounted, InitOrdered
<1>2. (Counted /\ AllOrdered /\ InOrder) /\ [Next]_vars => (Counted /\ AllOrdered /\ InOrder)'
  BY OrderedStep
<1> QED
  BY <1>1, <1>2, PTL DEF Spec
=============================================================================

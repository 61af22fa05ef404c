----------------------------- MODULE RedisCache ------------------------------
(****************************************************************************)
(* RedisCacheBackend and RedisCacheService (app/services/redis_cache.py):   *)
(* values are kept in Redis, and each process that uses them has copies of  *)
(* its own in front.                                                        *)
(*                                                                          *)
(* A value is the number of the set that stored it.  Every await of Redis   *)
(* is a step, at which Redis may be away and its answer may get lost; an    *)
(* answer is received within the tick.                                      *)
(****************************************************************************)
EXTENDS Naturals, FiniteSets, Functions

CONSTANTS
    Procs,          \* the processes that share the Redis
    Calls,          \* concurrent calls
    Keys,
    LocalTtl,       \* default_ttl, the lifetime of a local copy
    Ttls,           \* lifetimes given to set
    MaxSets,        \* bound: values
    MaxOuts         \* bound: times that Redis goes away

RedisAssumption ==
    /\ {LocalTtl, MaxSets, MaxOuts} \subseteq Nat
    /\ LocalTtl > 0 /\ Ttls \subseteq Nat \ {0}

VARIABLES
    redis,      \* external: the value and the ticks left of each key
    up, outs,   \* external: Redis answers; times it has gone away
    local,      \* local_cache of each process
    lock,       \* _lock of RedisCacheService: its process has it taken
    call,       \* the calls under way
    sets,       \* values so far
    gone        \* history: ticks since a value has been in Redis, or was set

vars == <<redis, up, outs, local, lock, call, sets, gone>>

Values == 1 .. MaxSets
NoCopy == [v |-> 0, left |-> 0]
Idle   == [op |-> "idle", p |-> CHOOSE p \in Procs : TRUE, ks |-> {}, vs |-> <<>>, ttl |-> 0]
Entry  == [v : 0 .. MaxSets, left : Nat]
Live(e) == e.left > 0
Busy(op) == \E c \in Calls : call[c].op = op
Mapped(ks, v) == [k \in ks |-> v]

TypeOK ==
    /\ redis \in [Keys -> Entry]
    /\ up \in BOOLEAN /\ outs \in 0 .. MaxOuts
    /\ local \in [Procs -> [Keys -> Entry]]
    /\ lock \in [Procs -> BOOLEAN]
    /\ \A c \in Calls : call[c].op \in {"idle", "get", "fill", "write", "erase", "look", "found",
                                        "make", "store"}
    /\ sets \in 0 .. MaxSets
    /\ gone \in [Values -> 0 .. LocalTtl + 1]

Init ==
    /\ redis = [k \in Keys |-> NoCopy]
    /\ up = TRUE /\ outs = 0
    /\ local = [p \in Procs |-> redis]
    /\ lock = [p \in Procs |-> FALSE]
    /\ call = [c \in Calls |-> Idle]
    /\ sets = 0
    /\ gone = [v \in Values |-> 0]

-----------------------------------------------------------------------------
Free(c)    == call[c].op = "idle"
Op(c, op)  == call[c].op = op
Turns(c, op) == call' = [call EXCEPT ![c].op = op]
Ends(c)    == call' = [call EXCEPT ![c] = Idle]
Server     == <<redis, up, outs>>

(* Wrong on purpose: a copy that is read lives on.                          *)
TouchedAt(p, ks, vs) ==
    [local EXCEPT ![p] = [k \in Keys |->
        IF k \in ks /\ vs[k] # 0 THEN [v |-> vs[k], left |-> LocalTtl + @[k].left] ELSE @[k]]]

(* What has come from Redis, or goes there, is copied for LocalTtl,         *)
(* whatever its lifetime there is.                                          *)
CopiedAt(p, ks, vs) ==
    [local EXCEPT ![p] = [k \in Keys |->
        IF k \in ks /\ vs[k] # 0 THEN [v |-> vs[k], left |-> LocalTtl] ELSE @[k]]]

(* get and batch_get: Redis is asked for what has no local copy.            *)
Get(c, p, ks) ==
    /\ Free(c)
    /\ LET missing == {k \in ks : ~Live(local[p][k])} IN
       /\ missing # {}
       /\ call' = [call EXCEPT ![c] = [Idle EXCEPT !.op = "get", !.p = p, !.ks = missing]]
    /\ UNCHANGED <<Server, local, lock, sets, gone>>

Seen(ks) == [k \in ks |-> IF Live(redis[k]) THEN redis[k].v ELSE 0]

(* Redis answers a get, or it cannot be reached: connect or the call fails. *)
GetAnswered(c) ==
    /\ Op(c, "get")
    /\ IF up THEN call' = [call EXCEPT ![c].op = "fill", ![c].vs = Seen(call[c].ks)]
             ELSE Ends(c)
    /\ UNCHANGED <<Server, local, lock, sets, gone>>

Fill(c) ==
    /\ Op(c, "fill")
    /\ local' = CopiedAt(call[c].p, call[c].ks, call[c].vs)
    /\ Ends(c)
    /\ UNCHANGED <<Server, lock, sets, gone>>

(* set and batch_set: the copy first, then Redis, for all keys or none.     *)
Set(c, p, ks, ttl) ==
    /\ Free(c)
    /\ sets < MaxSets
    /\ sets' = sets + 1
    /\ LET vs == Mapped(ks, sets + 1) IN
       /\ local' = CopiedAt(p, ks, vs)
       /\ call' = [call EXCEPT ![c] =
             [Idle EXCEPT !.op = "write", !.p = p, !.ks = ks, !.vs = vs, !.ttl = ttl]]
    /\ UNCHANGED <<Server, lock, gone>>

Stored(f, c) ==
    [k \in Keys |-> IF k \in call[c].ks THEN [v |-> call[c].vs[k], left |-> call[c].ttl] ELSE f[k]]

Reaches(c) ==
    /\ redis' = IF up THEN Stored(redis, c) ELSE redis
    /\ gone' = [v \in Values |->
          IF up /\ \E k \in call[c].ks : call[c].vs[k] = v THEN 0 ELSE gone[v]]

Write(c) ==
    /\ Op(c, "write")
    /\ Reaches(c)
    /\ Ends(c)
    /\ UNCHANGED <<up, outs, local, lock, sets>>

(* delete and flush_all: of one key or of all.                              *)
Delete(c, p, ks) ==
    /\ Free(c)
    /\ local' = [local EXCEPT ![p] = [k \in Keys |-> IF k \in ks THEN NoCopy ELSE @[k]]]
    /\ call' = [call EXCEPT ![c] = [Idle EXCEPT !.op = "erase", !.p = p, !.ks = ks]]
    /\ UNCHANGED <<Server, lock, sets, gone>>

Without(f, ks) == [k \in Keys |-> IF k \in ks THEN NoCopy ELSE f[k]]

Erase(c) ==
    /\ Op(c, "erase")
    /\ redis' = IF up THEN Without(redis, call[c].ks) ELSE redis
    /\ Ends(c)
    /\ UNCHANGED <<up, outs, local, lock, sets, gone>>

(* expire: a new lifetime for what is there, in Redis only.                 *)
Expire(k, ttl) ==
    /\ up /\ Live(redis[k])
    /\ redis' = [redis EXCEPT ![k].left = ttl]
    /\ UNCHANGED <<up, outs, local, lock, call, sets, gone>>

-----------------------------------------------------------------------------
(* get_or_set, one at a time in a process: what is found, or what the       *)
(* factory makes, which is then set.                                        *)

(* Wrong on purpose: two calls of a process run at once.                    *)
EntersAnyway(c, p, k) ==
    /\ Free(c)
    /\ ~Live(local[p][k])
    /\ lock' = [lock EXCEPT ![p] = TRUE]
    /\ call' = [call EXCEPT ![c] = [Idle EXCEPT !.op = "look", !.p = p, !.ks = {k}]]

Enters(c, p, k) ==
    /\ Free(c)
    /\ ~lock[p]
    /\ ~Live(local[p][k])
    /\ lock' = [lock EXCEPT ![p] = TRUE]
    /\ call' = [call EXCEPT ![c] = [Idle EXCEPT !.op = "look", !.p = p, !.ks = {k}]]

GetOrSet(c, p, k) == Enters(c, p, k) /\ UNCHANGED <<Server, local, sets, gone>>

Release(c) == lock' = [lock EXCEPT ![call[c].p] = FALSE]

LookAnswered(c) ==
    /\ Op(c, "look")
    /\ LET vs == Seen(call[c].ks) IN
       IF up /\ \A k \in call[c].ks : vs[k] # 0
       THEN call' = [call EXCEPT ![c].op = "found", ![c].vs = vs]
       ELSE Turns(c, "make")
    /\ UNCHANGED <<Server, local, lock, sets, gone>>

Found(c) ==
    /\ Op(c, "found")
    /\ local' = CopiedAt(call[c].p, call[c].ks, call[c].vs)
    /\ Release(c) /\ Ends(c)
    /\ UNCHANGED <<Server, sets, gone>>

Make(c) ==
    /\ Op(c, "make")
    /\ sets < MaxSets
    /\ sets' = sets + 1
    /\ LET vs == Mapped(call[c].ks, sets + 1) IN
       /\ local' = CopiedAt(call[c].p, call[c].ks, vs)
       /\ \E ttl \in Ttls : call' = [call EXCEPT ![c] = [@ EXCEPT !.op = "store", !.vs = vs, !.ttl = ttl]]
    /\ UNCHANGED <<Server, lock, gone>>

MakeFails(c) ==
    /\ Op(c, "make")
    /\ Release(c) /\ Ends(c)
    /\ UNCHANGED <<Server, local, sets, gone>>

Store(c) ==
    /\ Op(c, "store")
    /\ Reaches(c)
    /\ Release(c) /\ Ends(c)
    /\ UNCHANGED <<up, outs, local, sets>>

-----------------------------------------------------------------------------
(* An answer gets lost: the call is told that it has failed, or found       *)
(* nothing, whatever Redis has done.                                        *)
AnswerLost(c) ==
    /\ up
    /\ \/ Op(c, "fill") /\ Ends(c)
       \/ Op(c, "found") /\ Turns(c, "make")
    /\ UNCHANGED <<Server, local, lock, sets, gone>>

Away == up /\ outs < MaxOuts /\ up' = FALSE /\ outs' = outs + 1
        /\ UNCHANGED <<redis, local, lock, call, sets, gone>>
Back == ~up /\ up' = TRUE /\ UNCHANGED <<redis, outs, local, lock, call, sets, gone>>

Aged(f) == [k \in Keys |-> [f[k] EXCEPT !.left = IF @ > 0 THEN @ - 1 ELSE 0]]

Tick ==
    /\ ~Busy("fill") /\ ~Busy("found")
    /\ redis' = Aged(redis)
    /\ local' = [p \in Procs |-> Aged(local[p])]
    /\ gone' = [v \in Values |->
          IF v > sets \/ \E k \in Keys : Live(redis'[k]) /\ redis'[k].v = v THEN 0
          ELSE IF gone[v] <= LocalTtl THEN gone[v] + 1 ELSE gone[v]]
    /\ UNCHANGED <<up, outs, lock, call, sets>>

Await(c) ==
    \/ GetAnswered(c) \/ Fill(c) \/ Write(c) \/ Erase(c) \/ LookAnswered(c) \/ Found(c)
    \/ Make(c) \/ MakeFails(c) \/ Store(c) \/ AnswerLost(c)

Next ==
    \/ \E c \in Calls :
          \/ Await(c)
          \/ \E k \in Keys, p \in Procs : GetOrSet(c, p, k)
          \/ \E p \in Procs, ks \in SUBSET Keys \ {{}} :
                Get(c, p, ks) \/ Delete(c, p, ks) \/ \E ttl \in Ttls : Set(c, p, ks, ttl)
    \/ \E k \in Keys, ttl \in Ttls : Expire(k, ttl)
    \/ Away \/ Back \/ Tick

Spec == Init /\ [][Next]_vars

-----------------------------------------------------------------------------
(* A process serves its copy of a value for at most LocalTtl after Redis    *)
(* has had it for the last time, whoever deletes or replaces it meanwhile   *)
(* and whether Redis can be reached (redis_cache.py:165-183, 202).          *)
CopiesEnd ==
    \A p \in Procs, k \in Keys :
        Live(local[p][k]) => gone[local[p][k].v] + local[p][k].left <= LocalTtl

(* While a factory runs for a process no other get_or_set of that process   *)
(* looks, makes or stores (redis_cache.py:383-398).                         *)
MakesAlone ==
    \A c, d \in Calls :
        /\ c # d /\ call[c].p = call[d].p
        /\ call[c].op \in {"make", "store"}
        => call[d].op \notin {"look", "found", "make", "store"}

(* Not kept: a fill that was under way brings back what has been replaced   *)
(* or deleted, in Redis and in the copy.                                    *)
NoOvertaking ==
    [][\A c \in Calls : Op(c, "fill") /\ call'[c].op = "idle" =>
          \A k \in call[c].ks : call[c].vs[k] # 0 => call[c].vs[k] >= local[call[c].p][k].v]_vars

-----------------------------------------------------------------------------
(****************************************************************************)
(* RedisCache (app/core/redis_cache.py): one per process, values in Redis   *)
(* only, under keys with a prefix; cached() keeps the results of functions. *)
(* A value is the number of the set that stored it.                         *)
(****************************************************************************)
CONSTANTS
    Computers,      \* concurrent calls
    DirectKeys,
    Lifetimes,      \* lifetimes asked for
    MaxTtl,         \* max_ttl
    Jitter,         \* the part of a lifetime it is varied by: 1 / snowball_jitter
    MaxValues       \* bound: values

DirectAssumption ==
    /\ {MaxTtl, Jitter, MaxValues} \subseteq Nat /\ Jitter > 0
    /\ Lifetimes \subseteq Nat \ {0}

VARIABLES
    value,      \* external: the value of each key and the ticks it has left
    client,     \* _client: none before connect, and after one that has failed
    reachable,  \* external: Redis answers
    job,        \* the calls under way
    values      \* values so far

directVars == <<value, client, reachable, job, values>>

NoValue  == [v |-> 0, left |-> 0]
NoJob    == [op |-> "idle", ks |-> {}, since |-> 0]
Lives(k) == value[k].left > 0

DirectTypeOK ==
    /\ value \in [DirectKeys -> [v : 0 .. MaxValues, left : Nat]]
    /\ client \in BOOLEAN /\ reachable \in BOOLEAN
    /\ job \in [Computers -> [op : {"idle", "compute", "clear"}, ks : SUBSET DirectKeys, since : 0 .. MaxValues]]
    /\ values \in 0 .. MaxValues

DirectInit ==
    /\ value = [k \in DirectKeys |-> NoValue]
    /\ client = FALSE /\ reachable = TRUE
    /\ job = [c \in Computers |-> NoJob]
    /\ values = 0

-----------------------------------------------------------------------------
(* connect: the client is made, and dropped if Redis does not answer.       *)
Connect == client' = reachable /\ ~client /\ UNCHANGED <<value, reachable, job, values>>

(* shutdown_cache: the next get_cache makes another one, not connected.     *)
Shutdown == client /\ client' = FALSE /\ UNCHANGED <<value, reachable, job, values>>

Works == client /\ reachable

(* A lifetime is capped, and then varied by some part.                      *)
Lifetime(ttl) ==
    LET t == IF ttl > MaxTtl THEN MaxTtl ELSE ttl
    IN  (t - t \div Jitter) .. (t + t \div Jitter)

(* cached: a miss or a failing get, and the function is called.             *)
Compute(c, k) ==
    /\ job[c] = NoJob
    /\ ~Lives(k) \/ ~Works
    /\ job' = [job EXCEPT ![c] = [op |-> "compute", ks |-> {k}, since |-> values]]
    /\ UNCHANGED <<value, client, reachable, values>>

(* Its result is set, if Redis answers, whatever is there by now.           *)
DirectSet(c) ==
    /\ job[c].op = "compute"
    /\ values < MaxValues
    /\ values' = values + 1
    /\ \E ttl \in Lifetimes : \E left \in Lifetime(ttl) :
          value' = [k \in DirectKeys |-> IF Works /\ k \in job[c].ks
                                   THEN [v |-> values + 1, left |-> left] ELSE value[k]]
    /\ job' = [job EXCEPT ![c] = NoJob]
    /\ UNCHANGED <<client, reachable>>

DirectWithout(ks) == [k \in DirectKeys |-> IF k \in ks THEN NoValue ELSE value[k]]

DirectDelete(k) ==
    /\ Works
    /\ value' = DirectWithout({k})
    /\ UNCHANGED <<client, reachable, job, values>>

(* Wrong on purpose: what was set last is left out.                         *)
ScannedButLast == {k \in DirectKeys : Lives(k) /\ value[k].v < values}

(* clear_pattern: the keys are listed, and then those listed are deleted.   *)
Scanned == {k \in DirectKeys : Lives(k)}

Clear(c) ==
    /\ job[c] = NoJob
    /\ Works
    /\ job' = [job EXCEPT ![c] = [op |-> "clear", ks |-> Scanned, since |-> values]]
    /\ UNCHANGED <<value, client, reachable, values>>

Cleared(c) ==
    /\ job[c].op = "clear"
    /\ value' = IF Works THEN DirectWithout(job[c].ks) ELSE value
    /\ job' = [job EXCEPT ![c] = NoJob]
    /\ UNCHANGED <<client, reachable, values>>

Toggle == reachable' = ~reachable /\ UNCHANGED <<value, client, job, values>>

DirectTick ==
    /\ value' = [k \in DirectKeys |-> [value[k] EXCEPT !.left = IF @ > 0 THEN @ - 1 ELSE 0]]
    /\ UNCHANGED <<client, reachable, job, values>>

DirectNext ==
    \/ \E c \in Computers : DirectSet(c) \/ Clear(c) \/ Cleared(c) \/ \E k \in DirectKeys : Compute(c, k)
    \/ \E k \in DirectKeys : DirectDelete(k)
    \/ Connect \/ Shutdown \/ Toggle \/ DirectTick

DirectSpec == DirectInit /\ [][DirectNext]_vars

-----------------------------------------------------------------------------
(* When clear_pattern has done its work, what is there has been set since   *)
(* it was called (core/redis_cache.py:241-267).                             *)
ClearedIsGone ==
    \A c \in Computers : job[c].op = "clear" /\ job'[c].op = "idle" /\ Works =>
       \A k \in DirectKeys : value'[k].left > 0 => value'[k].v > job[c].since

(* Not kept: a lifetime is varied after it has been capped, and may exceed  *)
(* max_ttl (core/redis_cache.py:192-196).                                   *)
WithinMaxTtl == \A k \in DirectKeys : value[k].left <= MaxTtl

(* Not kept: a function that was called before a clear and returns after it *)
(* brings its old result back (core/redis_cache.py:305-313).                *)
ClearedIsOver ==
    [][\A c, d \in Computers : job[c].op = "clear" /\ job[d].op = "compute" /\ job'[d].op = "idle" =>
          job[d].since >= job[c].since]_vars
=============================================================================

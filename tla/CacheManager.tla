----------------------------- MODULE CacheManager ----------------------------
(****************************************************************************)
(* CacheManager and NamespacedCache (app/core/cache_manager.py): a cache    *)
(* for each namespace, whose keys carry the version of the namespace, and   *)
(* invalidation, by deleting a key or by a new version, of a namespace and  *)
(* of those that depend on it.                                              *)
(*                                                                          *)
(* The methods are coroutines that await nothing but the factory of         *)
(* get_or_set; all else is one step.  A value is stale when it was computed *)
(* before the last invalidation that concerns it.                           *)
(****************************************************************************)
EXTENDS Naturals, Sequences, FiniteSets, LRU

CONSTANTS
    Namespaces, Names,    \* namespaces, and keys inside one
    Depends,              \* NAMESPACE_DEPENDENCIES
    MaxSize,              \* size of each namespace
    MaxVersion,           \* bound: versions of a namespace
    Callers               \* calls of get_or_set

ManagerAssumption ==
    /\ MaxSize \in Nat \ {0} /\ MaxVersion \in Nat \ {0}
    /\ Depends \in [Namespaces -> SUBSET Namespaces]

VARIABLES
    cache,      \* _cache of each namespace
    version,    \* _version of each namespace
    call        \* calls of get_or_set that await their factory

vars == <<cache, version, call>>

(* late: the value was computed by a get_or_set while an invalidation came. *)
Value == [stale : BOOLEAN, late : BOOLEAN]
Key   == (1 .. MaxVersion) \X Names
Call  == [at : {"idle", "factory"}, ns : Namespaces, name : Names, stale : BOOLEAN]

Idle  == [at |-> "idle", ns |-> CHOOSE n \in Namespaces : TRUE,
          name |-> CHOOSE x \in Names : TRUE, stale |-> FALSE]

TypeOK ==
    /\ DOMAIN cache = Namespaces
    /\ \A n \in Namespaces :
        /\ cache[n] \in Seq([key : Key, val : Value, age : 0 .. 1])
        /\ Len(cache[n]) <= MaxSize
    /\ version \in [Namespaces -> 1 .. MaxVersion]
    /\ call \in [Callers -> Call]

Init ==
    /\ cache = [n \in Namespaces |-> <<>>]
    /\ version = [n \in Namespaces |-> 1]
    /\ call = [c \in Callers |-> Idle]

(* _get_versioned_key                                                       *)
Versioned(n, x) == <<version[n], x>>

(* An entry is there and not expired; its time is abstract.                 *)
Found(n, x) == Readable(cache[n], Versioned(n, x), 0)

-----------------------------------------------------------------------------
get(n, x) ==
    /\ cache' = [cache EXCEPT ![n] = Read(@, Versioned(n, x), 0)]
    /\ UNCHANGED <<version, call>>

Stored(n, x, v) ==
    cache' = [cache EXCEPT ![n] = Write(@, Versioned(n, x), v, MaxSize)]

set(n, x) ==
    /\ Stored(n, x, [stale |-> FALSE, late |-> FALSE])
    /\ UNCHANGED <<version, call>>

delete(n, x) ==
    /\ cache' = [cache EXCEPT ![n] = Deleted(@, Versioned(n, x))]
    /\ UNCHANGED <<version, call>>

clear_namespace(n) ==
    /\ cache' = [cache EXCEPT ![n] = <<>>]
    /\ UNCHANGED <<version, call>>

clear_all ==
    /\ cache' = [n \in Namespaces |-> <<>>]
    /\ UNCHANGED <<version, call>>

(* Time passes for one entry, as their ttls differ.                         *)
Expire(n) ==
    /\ \E i \in DOMAIN cache[n] : cache' = [cache EXCEPT ![n][i].age = 1]
    /\ UNCHANGED <<version, call>>

(* One round of _periodic_cleanup.                                          *)
Cleanup ==
    /\ cache' = [n \in Namespaces |-> Cleaned(cache[n], 0)]
    /\ UNCHANGED <<version, call>>

-----------------------------------------------------------------------------
(* get_or_set: nothing is remembered of the namespace while the factory     *)
(* runs, and nothing keeps a second caller from running its own.            *)
Miss(c, n, x) ==
    /\ call[c].at = "idle"
    /\ ~Found(n, x)
    /\ cache' = [cache EXCEPT ![n] = Read(@, Versioned(n, x), 0)]
    /\ call' = [call EXCEPT ![c] = [at |-> "factory", ns |-> n, name |-> x,
                                    stale |-> FALSE]]
    /\ UNCHANGED version

Answer(c) ==
    /\ call[c].at = "factory"
    /\ Stored(call[c].ns, call[c].name,
              [stale |-> call[c].stale, late |-> call[c].stale])
    /\ call' = [call EXCEPT ![c] = Idle]
    /\ UNCHANGED version

FactoryRaises(c) ==
    /\ call[c].at = "factory"
    /\ call' = [call EXCEPT ![c] = Idle]
    /\ UNCHANGED <<cache, version>>

-----------------------------------------------------------------------------
(* What an invalidation makes stale: the names xs in n, and all that is     *)
(* derived from n, in any number of steps.                                  *)
Closed(ns)  == \A n \in ns : Depends[n] \subseteq ns
Derived(ns) == {m \in Namespaces :
    \A all \in SUBSET Namespaces : ns \subseteq all /\ Closed(all) => m \in all}

Concerns(n, xs, m, x) == (m = n /\ x \in xs) \/ m \in Derived(Depends[n])

Aged(c, m, n, xs) ==
    [i \in DOMAIN c |-> [c[i] EXCEPT
        !.val.stale = @ \/ Concerns(n, xs, m, c[i].key[2])]]

Recalled(n, xs) ==
    call' = [c \in Callers |-> [call[c] EXCEPT
        !.stale = @ \/ (call[c].at = "factory"
                        /\ Concerns(n, xs, call[c].ns, call[c].name))]]

(* Wrong on purpose: only the namespace itself is invalidated.              *)
CascadesNowhere(n) == {}

(* The namespaces that are given a new version with n.                      *)
Cascaded(n) == Depends[n]

(* Wrong on purpose: the counter begins again.                              *)
WrappedVersions(ns) ==
    version' = [n \in Namespaces |->
                  IF n \in ns THEN (version[n] % MaxVersion) + 1 ELSE version[n]]

(* increment_version, as a guard the bound on it.                           *)
NewVersions(ns) ==
    /\ \A n \in ns : version[n] < MaxVersion
    /\ version' = [n \in Namespaces |->
                     IF n \in ns THEN version[n] + 1 ELSE version[n]]

(* invalidate_related of a whole namespace, increment_namespace_version.    *)
invalidate(n) ==
    /\ NewVersions({n} \cup Cascaded(n))
    /\ cache' = [m \in Namespaces |-> Aged(cache[m], m, n, Names)]
    /\ Recalled(n, Names)

(* invalidate_related of a key.                                             *)
invalidate_key(n, x) ==
    /\ NewVersions(Cascaded(n))
    /\ cache' = [m \in Namespaces |->
          Aged(IF m = n THEN Deleted(cache[n], Versioned(n, x)) ELSE cache[m],
               m, n, {x})]
    /\ Recalled(n, {x})

Next ==
    \/ \E n \in Namespaces, x \in Names :
        get(n, x) \/ set(n, x) \/ delete(n, x) \/ invalidate_key(n, x)
    \/ \E n \in Namespaces : clear_namespace(n) \/ Expire(n) \/ invalidate(n)
    \/ clear_all \/ Cleanup
    \/ \E c \in Callers, n \in Namespaces, x \in Names : Miss(c, n, x)
    \/ \E c \in Callers : Answer(c) \/ FactoryRaises(c)

Spec == Init /\ [][Next]_vars

-----------------------------------------------------------------------------
(* After an invalidation nothing is read that was computed before it, in    *)
(* the namespace or in one derived from it; only a get_or_set that was then *)
(* awaiting its factory brings such a value back, as if it were new.        *)
InvalidatedIsGone ==
    \A n \in Namespaces, x \in Names :
        LET v == Lookup(cache[n], Versioned(n, x)).val IN
        Found(n, x) /\ v.stale => v.late

(* Entries of old versions are never used again, and make room first.       *)
OldFirst ==
    \A n \in Namespaces : \A i, j \in DOMAIN cache[n] :
        i < j => cache[n][i].key[1] <= cache[n][j].key[1]
=============================================================================

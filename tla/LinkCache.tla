------------------------------ MODULE LinkCache -------------------------------
(****************************************************************************)
(* LinkCacheLegacy (app/services/link_cache.py), the cache of links of      *)
(* CACHE_LEGACY_MODE: its dictionary, under one lock, and the loop that     *)
(* cleans it up.  The entries are kept here in the order of their           *)
(* last_accessed_at, the least recent first.  No method awaits anything     *)
(* while it holds the lock, so that each is one step.                       *)
(****************************************************************************)
EXTENDS Naturals, Sequences, SequencesExt

CONSTANTS
    Keys,           \* file_id and the other parts of _generate_cache_key
    Ttls,           \* lifetimes given to set, default_ttl among them
    MaxSize,        \* max_size
    Share,          \* 10: the part of the entries that an eviction takes
    Interval,       \* cleanup_interval
    MaxLoops        \* bound: calls of start

LinkAssumption ==
    /\ {MaxSize, Share, Interval, MaxLoops} \subseteq Nat \ {0}
    /\ Ttls \subseteq Nat \ {0}

VARIABLES
    entries,        \* _cache: key and time left, the least recently used first
    running,        \* _running
    loops,          \* the cleanup tasks so far: ticks until each wakes, or Ended
    told,           \* the keys that the last step has answered
    fresh           \* history: the ticks for which each key may be answered

Ended == Interval + 1     \* a task that has been cancelled

vars == <<entries, running, loops, told, fresh>>

TypeOK ==
    /\ \A i \in DOMAIN entries : entries[i] \in [key : Keys, left : Nat]
    /\ IsInjective([i \in DOMAIN entries |-> entries[i].key])
    /\ running \in BOOLEAN
    /\ \A i \in DOMAIN loops : loops[i] \in 0 .. Ended
    /\ told \subseteq Keys
    /\ fresh \in [Keys -> Nat]

Init ==
    /\ entries = <<>>
    /\ running = FALSE /\ loops = <<>>
    /\ told = {}
    /\ fresh = [k \in Keys |-> 0]

-----------------------------------------------------------------------------
Expired(e) == e.left = 0
In(s)      == {s[i].key : i \in DOMAIN s}
Has(k)     == k \in In(entries)
Of(k)      == entries[SelectInSeq(entries, LAMBDA e : e.key = k)]
But(s, k)  == SelectSeq(s, LAMBDA e : e.key # k)

(* Wrong on purpose: an entry is answered though it has expired.            *)
AnswersOld(k) == {k}

(* What get answers, if there is an entry.                                  *)
Answer(k) == IF Expired(Of(k)) THEN {} ELSE {k}

(* get: what is found becomes the most recent, what has expired goes.       *)
Get(k) ==
    /\ Has(k)
    /\ told' = Answer(k)
    /\ entries' = IF Expired(Of(k)) THEN But(entries, k) ELSE Append(But(entries, k), Of(k))
    /\ UNCHANGED <<running, loops, fresh>>

(* _cleanup_expired                                                         *)
Cleaned(s) == SelectSeq(s, LAMBDA e : ~Expired(e))

(* _evict_oldest                                                            *)
Evicted(s) ==
    LET n == IF Len(s) \div Share = 0 THEN 1 ELSE Len(s) \div Share
    IN  SubSeq(s, n + 1, Len(s))

(* Wrong on purpose: what was used last goes.                               *)
RoomAtTheEnd(s) ==
    IF Len(Cleaned(s)) < MaxSize THEN Cleaned(s) ELSE SubSeq(Cleaned(s), 1, Len(Cleaned(s)) - 1)

(* Room for a set, also where the key is there already.                     *)
Room(s) ==
    IF Len(s) < MaxSize THEN s
    ELSE IF Len(Cleaned(s)) < MaxSize THEN Cleaned(s)
    ELSE Evicted(Cleaned(s))

Set(k, ttl) ==
    /\ entries' = Append(But(Room(entries), k), [key |-> k, left |-> ttl])
    /\ fresh' = [fresh EXCEPT ![k] = ttl]
    /\ told' = {}
    /\ UNCHANGED <<running, loops>>

Delete(k) ==
    /\ Has(k)
    /\ entries' = But(entries, k)
    /\ fresh' = [fresh EXCEPT ![k] = 0]
    /\ told' = {}
    /\ UNCHANGED <<running, loops>>

Clear ==
    /\ entries' = <<>>
    /\ fresh' = [k \in Keys |-> 0]
    /\ told' = {}
    /\ UNCHANGED <<running, loops>>

-----------------------------------------------------------------------------
Start ==
    /\ ~running
    /\ Len(loops) < MaxLoops
    /\ running' = TRUE
    /\ loops' = Append(loops, Interval)
    /\ told' = {}
    /\ UNCHANGED <<entries, fresh>>

(* stop: the loop that was made last is cancelled, asleep as it is.         *)
Stop ==
    /\ running
    /\ running' = FALSE
    /\ loops' = [loops EXCEPT ![Len(loops)] = Ended]
    /\ told' = {}
    /\ UNCHANGED <<entries, fresh>>

(* _cleanup_loop, when it wakes.                                            *)
Wake(i) ==
    /\ loops[i] = 0
    /\ entries' = LET s == Cleaned(entries) IN IF Len(s) > MaxSize THEN Evicted(s) ELSE s
    /\ loops' = [loops EXCEPT ![i] = IF running THEN Interval ELSE Ended]
    /\ told' = {}
    /\ UNCHANGED <<running, fresh>>

Tick ==
    /\ \A i \in DOMAIN loops : loops[i] # 0
    /\ loops' = [i \in DOMAIN loops |-> IF loops[i] = Ended THEN loops[i] ELSE loops[i] - 1]
    /\ entries' = [i \in DOMAIN entries |->
                      [entries[i] EXCEPT !.left = IF @ = 0 THEN 0 ELSE @ - 1]]
    /\ fresh' = [k \in Keys |-> IF fresh[k] = 0 THEN 0 ELSE fresh[k] - 1]
    /\ told' = {}
    /\ UNCHANGED running

Next ==
    \/ \E k \in Keys : Get(k) \/ Delete(k) \/ \E ttl \in Ttls : Set(k, ttl)
    \/ Clear \/ Start \/ Stop \/ Tick
    \/ \E i \in DOMAIN loops : Wake(i)

Spec == Init /\ [][Next]_vars

-----------------------------------------------------------------------------
(* The cache never outgrows max_size, and a link is answered only within    *)
(* the lifetime it was last set for (link_cache.py:164-178, 203-213).       *)
LinksAreLive == Len(entries) <= MaxSize /\ \A k \in told : fresh[k] > 0

(* A live link makes room only in a full cache, after all those that were   *)
(* used longer ago (205-209, 250-262).                                      *)
OldestGoes ==
    \A i \in DOMAIN entries :
       LET k == entries[i].key IN
       ~Expired(entries[i]) /\ fresh'[k] > 0 /\ k \notin In(entries') =>
          /\ Len(Cleaned(entries)) = MaxSize
          /\ \A j \in 1 .. i - 1, n \in DOMAIN entries' :
                 entries'[n].key = entries[j].key => n = Len(entries')

(* One loop at most cleans up, and none when the cache is stopped.          *)
OneLoop == \A i \in DOMAIN loops : loops[i] # Ended => running /\ i = Len(loops)

(* Not kept: a link that is set anew in a full cache takes the place of     *)
(* another one as well (205-209 look at the number only).                   *)
NoneWithoutNeed ==
    [][In(entries') # {} /\ entries'[Len(entries')].key \in In(entries)
          => \A i \in DOMAIN entries : ~Expired(entries[i]) /\ fresh'[entries[i].key] > 0
                => entries[i].key \in In(entries')]_vars
=============================================================================
